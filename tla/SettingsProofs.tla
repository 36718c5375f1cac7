---------------------------- MODULE SettingsProofs ----------------------------
(***************************************************************************)
(* Proofs about Settings, for any number of requests and any passwords,     *)
(* values and certificates: what a request leaves behind, and that the      *)
(* requests implement AtomicSettings.                                       *)
(***************************************************************************)
EXTENDS Settings, TLAPS

\* Whoever is under way owns _ENV_LOCK.
LockInv ==
    /\ \A r \in Request : pc[r] # "idle" => lock = r /\ op[r] \in Operation /\ before[r] \in Disk
    /\ lock # Nobody => pc[lock] # "idle"

\* The parts of the code a kind of request goes through.
KindInv(r) ==
    /\ pc[r] \in {"writeCrt", "writeKey", "validate", "schedule", "undoCrt", "undoKey", "undoRender"}
         => Uses(r, {"https"})
    /\ pc[r] \in {"restart", "kept"} => Uses(r, {"password"})
    /\ pc[r] \in {"renderAuth", "undoEnv"} => Uses(r, {"password", "https"})
    /\ pc[r] \in {"renderAlert", "checkAlert", "reload", "undoChannel", "undoAlert"} => Uses(r, {"channel"})

\* .env is the old one or has the change, with what a render filled in; the copies
\* are of what the request found.
Old(r)  == Completions(before[r].env)
Done(r) == Completions(Asked(r))

EnvInv(r) ==
    /\ pc[r] \in {"check", "writeCrt", "writeKey", "write", "undoAlert"} => env = before[r].env
    /\ pc[r] \in {"renderAuth", "renderAlert", "checkAlert", "reload", "undoChannel"}
         => env = Asked(r)
    /\ pc[r] \in {"restart", "validate", "schedule"} => env = Completed(Asked(r)) /\ env \in Done(r)
    /\ pc[r] = "undoEnv" => IF undo[r].env = None THEN env = before[r].env ELSE env \in Done(r)
    /\ pc[r] \in {"undoCrt", "undoKey", "undoRender"}
         => IF undo[r].whole THEN env = before[r].env ELSE env \in Done(r)
    /\ pc[r] # "idle" => env \in Old(r) \cup Done(r)

UndoInv(r) ==
    /\ pc[r] \in {"writeCrt", "writeKey", "write"} => undo[r].env = None
    /\ pc[r] \in {"renderAuth", "restart", "validate", "schedule", "renderAlert", "checkAlert",
                  "reload", "undoChannel"}
         => undo[r].env = before[r].env
    /\ pc[r] = "undoEnv" => undo[r].env \in {None, before[r].env}
    /\ pc[r] \in {"writeCrt", "writeKey", "write", "renderAuth", "validate", "schedule", "undoEnv"}
         => undo[r].whole
    /\ pc[r] \in {"writeCrt", "writeKey", "write", "renderAuth", "validate", "schedule", "undoEnv",
                  "undoCrt", "undoKey"}
         => undo[r].crt = before[r].crt /\ undo[r].key = before[r].key

\* Only an HTTPS request has the certificate files changed.
CertInv(r) ==
    /\ \/ pc[r] \in {"idle", "ok", "kept", "broken"}
       \/ crt = before[r].crt /\ key = before[r].key
       \/ /\ Uses(r, {"https"})
          /\ pc[r] \in {"writeKey", "write", "renderAuth", "validate", "schedule", "undoEnv", "undoCrt"}
       \/ pc[r] = "undoKey" /\ crt = before[r].crt
    /\ pc[r] = "writeKey" => crt = op[r].with
    /\ Uses(r, {"https"}) /\ pc[r] \in {"write", "renderAuth", "validate", "schedule"} /\ op[r].with # None
         => crt = op[r].with /\ key = op[r].with

\* The rendered files follow .env where the request has rendered them.
RenderedInv(r) ==
    /\ pc[r] = "restart" => users = env.password
    /\ pc[r] \in {"validate", "schedule"} => tls = env.mode
    /\ pc[r] = "schedule" => OnDisk \in passed
    /\ pc[r] \in {"check", "writeCrt", "writeKey", "write"} => alert = before[r].alert
    /\ pc[r] \in {"checkAlert", "reload"} => alert = env.channel

Failed(r) ==
    pc[r] = "failed" =>
        /\ \/ env = before[r].env
           \/ Uses(r, {"https"}) /\ env \in Completions(before[r].env)
        /\ crt = before[r].crt /\ key = before[r].key
        /\ Uses(r, {"channel"}) => alert \in {before[r].alert, env.channel}

Succeeded(r) ==
    pc[r] \in {"ok", "kept"} =>
        /\ Uses(r, {"config", "setup", "channel"}) => env = Asked(r)
        /\ Uses(r, {"channel"}) => alert = env.channel
        /\ Uses(r, {"password"}) => env = Completed(Asked(r)) /\ users = env.password
        /\ Uses(r, {"https"}) =>
             \/ /\ env = before[r].env /\ env.mode = "https-local"
                /\ crt = before[r].crt /\ key = before[r].key
             \/ /\ env = Completed(Asked(r))
                /\ op[r].with # None => crt = op[r].with /\ key = op[r].with
                /\ tls = env.mode /\ OnDisk \in passed

InPlace(r) ==
    /\ KindInv(r) /\ EnvInv(r) /\ UndoInv(r) /\ CertInv(r) /\ RenderedInv(r)
    /\ Failed(r) /\ Succeeded(r)

IInv == TypeOK /\ LockInv /\ \A r \in Request : InPlace(r)

-----------------------------------------------------------------------------
(* What is written keeps its type *)

LEMMA ChangedType ==
  ASSUME NEW e \in Env, NEW c \in Change
  PROVE  Changed(e, c) \in Env
<1>1. DOMAIN e = {"password", "mode", "scheme", "secrets", "edition", "zone", "channel"}
  BY DEF Env
<1>2. CASE c \in Single
  BY <1>1, <1>2 DEF Changed, Single, Channel, Env
<1>3. CASE c \in Https
  <2>1. /\ DOMAIN c = {"mode", "scheme"}
        /\ c["mode"] \in Mode /\ c["scheme"] \in {"http", "https"}
    BY <1>3 DEF Https, Mode
  <2>. QED  BY <1>1, <2>1 DEF Changed, Env
<1>4. CASE c \in Setup
  BY <1>1, <1>4 DEF Changed, Setup, Env
<1>. QED  BY <1>2, <1>3, <1>4 DEF Change

\* The keys of the render and the others.
LEMMA CompletedKeys ==
  ASSUME NEW e \in Env
  PROVE  /\ DOMAIN Completed(e) = DOMAIN e
         /\ \A k \in DOMAIN e : Completed(e)[k] =
              IF k = "secrets" THEN TRUE
              ELSE IF k = "scheme" THEN (IF e.mode = "http" THEN "http" ELSE "https") ELSE e[k]
         /\ Completed(e).password = e.password /\ Completed(e).mode = e.mode
<1>1. DOMAIN e = {"password", "mode", "scheme", "secrets", "edition", "zone", "channel"}
  BY DEF Env
<1> DEFINE w == IF e.mode = "http" THEN "http" ELSE "https"
           c == [secrets |-> TRUE, scheme |-> w]
<1>2. DOMAIN c = {"secrets", "scheme"} /\ c["secrets"] = TRUE /\ c["scheme"] = w
  OBVIOUS
<1>3. Completed(e) = [k \in DOMAIN e |-> IF k \in DOMAIN c THEN c[k] ELSE e[k]]
  BY DEF Completed, Changed
<1>. HIDE DEF c
<1>. QED  BY <1>1, <1>2, <1>3

LEMMA SecretsKeys ==
  ASSUME NEW e \in Env, NEW s, s = Changed(e, [secrets |-> TRUE])
  PROVE  /\ DOMAIN s = DOMAIN e
         /\ \A k \in DOMAIN e : s[k] = IF k = "secrets" THEN TRUE ELSE e[k]
         /\ s.mode = e.mode
<1>1. DOMAIN e = {"password", "mode", "scheme", "secrets", "edition", "zone", "channel"}
  BY DEF Env
<1> DEFINE c == [secrets |-> TRUE]
<1>2. DOMAIN c = {"secrets"} /\ c["secrets"] = TRUE
  OBVIOUS
<1>3. s = [k \in DOMAIN e |-> IF k \in DOMAIN c THEN c[k] ELSE e[k]]
  BY DEF Changed
<1>. HIDE DEF c
<1>. QED  BY <1>1, <1>2, <1>3

LEMMA CompletedType ==
  ASSUME NEW e \in Env
  PROVE  Completed(e) \in Env /\ Completions(e) \subseteq Env
<1>1. DOMAIN e = {"password", "mode", "scheme", "secrets", "edition", "zone", "channel"}
  BY DEF Env
<1>2. Completed(e) \in Env
  BY <1>1 DEF Completed, Changed, Env
<1>3. Changed(e, [secrets |-> TRUE]) \in Env
  BY <1>1 DEF Changed, Env
<1>. QED  BY <1>2, <1>3 DEF Completions

\* What a render has filled in does not change again.
LEMMA CompletionsClosed ==
  ASSUME NEW e \in Env, NEW f \in Completions(e)
  PROVE  Completions(f) \subseteq Completions(e)
<1> DEFINE s(x) == Changed(x, [secrets |-> TRUE])
<1>1. /\ s(e) \in Env /\ Completed(e) \in Env
      /\ s(s(e)) \in Env /\ Completed(s(e)) \in Env
      /\ s(Completed(e)) \in Env /\ Completed(Completed(e)) \in Env
  BY CompletedType DEF Completions
<1>2. \A x, y \in Env : (\A k \in DOMAIN x : x[k] = y[k]) => x = y
  BY DEF Env
<1>. HIDE DEF s
<1>3. \A x \in Env : /\ DOMAIN s(x) = DOMAIN x /\ s(x).mode = x.mode
                    /\ \A k \in DOMAIN x : s(x)[k] = IF k = "secrets" THEN TRUE ELSE x[k]
  BY SecretsKeys DEF s
<1> DEFINE w(x) == IF x.mode = "http" THEN "http" ELSE "https"
<1>. HIDE DEF w
<1>10. \A x \in Env : /\ DOMAIN Completed(x) = DOMAIN x /\ Completed(x).mode = x.mode
                     /\ \A k \in DOMAIN x : Completed(x)[k] =
                          IF k = "secrets" THEN TRUE ELSE IF k = "scheme" THEN w(x) ELSE x[k]
  BY CompletedKeys DEF w
<1>11. \A x, y \in Env : x.mode = y.mode => w(x) = w(y)
  BY DEF w
<1>4. s(s(e)) = s(e) /\ Completed(s(e)) = Completed(e)
  <2>1. \A k \in DOMAIN s(e) : s(s(e))[k] = s(e)[k]
    BY <1>1, <1>3
  <2>2. ASSUME NEW k \in DOMAIN Completed(s(e)) PROVE Completed(s(e))[k] = Completed(e)[k]
    <3>1. s(e).mode = e.mode /\ w(s(e)) = w(e) /\ DOMAIN s(e) = DOMAIN e
      BY <1>1, <1>3, <1>10, <1>11
    <3>2. k \in DOMAIN e /\ (k \notin {"secrets", "scheme"} => s(e)[k] = e[k])
      BY <1>1, <1>3, <1>10, <3>1
    <3>3. CASE k = "secrets"
      BY <1>1, <1>10, <3>1, <3>2, <3>3
    <3>4. CASE k = "scheme"
      BY <1>1, <1>10, <3>1, <3>2, <3>4
    <3>5. CASE k \notin {"secrets", "scheme"}
      <4>1. Completed(s(e))[k] = s(e)[k]
        BY <1>1, <1>10, <3>1, <3>2, <3>5
      <4>2. Completed(e)[k] = e[k]
        BY <1>10, <3>2, <3>5
      <4>. QED  BY <3>2, <3>5, <4>1, <4>2
    <3>. QED  BY <3>3, <3>4, <3>5
  <2>. QED  BY <1>1, <1>2, <1>3, <2>1, <2>2
<1>5. s(Completed(e)) = Completed(e)
  <2>1. \A k \in DOMAIN s(Completed(e)) : s(Completed(e))[k] = Completed(e)[k]
    BY <1>1, <1>3, <1>10, <1>11
  <2>. QED  BY <1>1, <1>2, <2>1
<1>6. Completed(Completed(e)) = Completed(e)
  <2>1. ASSUME NEW k \in DOMAIN Completed(Completed(e)) PROVE Completed(Completed(e))[k] = Completed(e)[k]
    <3>1. Completed(e).mode = e.mode /\ w(Completed(e)) = w(e) /\ DOMAIN Completed(e) = DOMAIN e
      BY <1>1, <1>3, <1>10, <1>11
    <3>2. k \in DOMAIN e /\ (k \notin {"secrets", "scheme"} => Completed(e)[k] = e[k])
      BY <1>1, <1>3, <1>10, <3>1
    <3>3. CASE k = "secrets"
      BY <1>1, <1>10, <3>1, <3>2, <3>3
    <3>4. CASE k = "scheme"
      BY <1>1, <1>10, <3>1, <3>2, <3>4
    <3>5. CASE k \notin {"secrets", "scheme"}
      BY <1>1, <1>10, <3>1, <3>2, <3>5
    <3>. QED  BY <3>3, <3>4, <3>5
  <2>. QED  BY <1>1, <1>2, <2>1
<1>7. s(e).mode = e.mode /\ Completed(e).mode = e.mode
  BY <1>3, <1>10
<1>8. f = e \/ f = s(e) \/ (f = Completed(e) /\ e.mode \in Mode)
  BY DEF Completions, s
<1>9. \A x : Completions(x) = {x, s(x)} \cup (IF x.mode \in Mode THEN {Completed(x)} ELSE {})
  BY DEF Completions, s
<1>12. CASE f = s(e)
  BY <1>4, <1>7, <1>9, <1>12
<1>13. CASE f = Completed(e) /\ e.mode \in Mode
  BY <1>5, <1>6, <1>7, <1>9, <1>13
<1>. QED  BY <1>8, <1>12, <1>13

LEMMA OperationType ==
  ASSUME NEW o \in Operation
  PROVE  /\ o # None /\ o.change \in Change
         /\ o.kind = "https" => o.with \in File
  BY NoneAssumption DEF Operation, Change, Single, Https, Setup, Channel, File

\* The fields of a state whose copies have their types.
LEMMA HeldType ==
  ASSUME IInv, NEW r \in Request, pc[r] # "idle"
  PROVE  /\ lock = r /\ op[r] \in Operation /\ before[r] \in Disk
         /\ \A q \in Request \ {r} : pc[q] = "idle"
         /\ before[r].env \in Env /\ Asked(r) \in Env
         /\ Old(r) \subseteq Env /\ Done(r) \subseteq Env
<1>1. lock = r /\ op[r] \in Operation /\ before[r] \in Disk
  BY DEF IInv, LockInv
<1>2. \A q \in Request \ {r} : pc[q] = "idle"
  BY <1>1 DEF IInv, LockInv
<1>3. before[r].env \in Env
  BY <1>1 DEF Disk
<1>4. Asked(r) \in Env
  BY <1>1, <1>3, OperationType, ChangedType DEF Asked
<1>. QED  BY <1>1, <1>2, <1>3, <1>4, CompletedType DEF Old, Done

-----------------------------------------------------------------------------
LEMMA InitIInv == Init => IInv
<1>. SUFFICES ASSUME Init PROVE IInv
  OBVIOUS
<1>1. TypeOK
  BY SettingsAssumption
  DEF Init, TypeOK, Now, Disk, Env, OnDisk, Web, File, Mode, Location, Copies, NoCopies
<1>2. LockInv
  BY DEF Init, LockInv
<1>3. \A r \in Request : InPlace(r)
  BY DEF Init, InPlace, KindInv, EnvInv, UndoInv, CertInv, RenderedInv, Failed, Succeeded
<1>. QED  BY <1>1, <1>2, <1>3 DEF IInv

\* Nobody else is under way: a request that moves answers for its own place only.
LEMMA HolderStep ==
  ASSUME IInv, NEW r \in Request, pc[r] # "idle", NEW l \in Location \ {"idle"},
         Goto(r, l), UNCHANGED <<op, before, lock>>, TypeOK', InPlace(r)'
  PROVE  IInv'
<1>1. pc' = [pc EXCEPT ![r] = l] /\ pc'[r] = l /\ \A q \in Request \ {r} : pc'[q] = "idle"
  BY HeldType DEF Goto, IInv, TypeOK
<1>2. LockInv'
  BY <1>1, HeldType DEF IInv, LockInv
<1>3. ASSUME NEW q \in Request \ {r} PROVE InPlace(q)'
  BY <1>1, <1>3
  DEF InPlace, KindInv, EnvInv, UndoInv, CertInv, RenderedInv, Failed, Succeeded
<1>. QED  BY <1>2, <1>3 DEF IInv

\* What a move leaves alone, and where it leads.
LEMMA Moved ==
  ASSUME TypeOK, NEW r \in Request, NEW l \in Location, Moves(r, l)
  PROVE  /\ pc' \in [Request -> Location] /\ pc'[r] = l
         /\ UNCHANGED <<op, undo, before, lock, served>>
  BY DEF Moves, Goto, TypeOK

\* A refused request has written nothing.
LEMMA RefuseStep ==
  ASSUME IInv, NEW r \in Request, Refuse(r)
  PROVE  IInv'
<1>1. /\ pc[r] = "check" /\ pc'[r] = "failed" /\ pc' \in [Request -> Location]
      /\ UNCHANGED <<op, undo, before, lock, served>>
  BY Moved DEF Refuse, IInv, Location, End
<1>2. /\ op[r] \in Operation /\ before[r] \in Disk
      /\ before[r].env \in Env /\ Asked(r) \in Env
  BY <1>1, HeldType DEF IInv, InPlace, KindInv, Uses
<1>8. TypeOK'
  BY <1>1, <1>2 DEF Refuse, IInv, TypeOK, Now, Disk, fileVars, webVars
<1>9. InPlace(r)'
  <2>. USE <1>1, <1>2 DEF Refuse, fileVars, webVars, Moves
  <2>1. Asked(r)' = Asked(r) /\ Old(r)' = Old(r) /\ Done(r)' = Done(r)
    BY DEF Asked, Old, Done
  <2>2. KindInv(r)' /\ UndoInv(r)'
    BY DEF Uses, IInv, InPlace, KindInv, UndoInv
  <2>3. EnvInv(r)'
    BY <2>1, NoneAssumption DEF IInv, InPlace, EnvInv, UndoInv
  <2>4. CertInv(r)'
    BY DEF Uses, IInv, InPlace, CertInv
  <2>5. RenderedInv(r)'
    BY DEF Uses, IInv, InPlace, RenderedInv
  <2>6. Failed(r)' /\ Succeeded(r)'
    BY <2>1 DEF Uses, Operation, IInv, InPlace, EnvInv, CertInv, RenderedInv, Failed, Succeeded
  <2>. QED  BY <2>2, <2>3, <2>4, <2>5, <2>6 DEF InPlace
<1>. QED  BY <1>1, <1>8, <1>9, HolderStep DEF Refuse, Moves, Location, End

\* The request has what it asks for already.
LEMMA NothingToDoStep ==
  ASSUME IInv, NEW r \in Request, NothingToDo(r)
  PROVE  IInv'
<1>1. /\ pc[r] = "check" /\ pc'[r] = "ok" /\ pc' \in [Request -> Location]
      /\ UNCHANGED <<op, undo, before, lock, served>>
  BY Moved DEF NothingToDo, IInv, Location, End
<1>2. /\ op[r] \in Operation /\ before[r] \in Disk
      /\ before[r].env \in Env /\ Asked(r) \in Env
  BY <1>1, HeldType DEF IInv, InPlace, KindInv, Uses
<1>8. TypeOK'
  BY <1>1, <1>2 DEF NothingToDo, IInv, TypeOK, Now, Disk, fileVars, webVars
<1>9. InPlace(r)'
  BY <1>1, <1>2
  DEF NothingToDo, IInv, fileVars, webVars, HasAlready, Completions, Asked, Old, Done, Uses, InPlace, KindInv, EnvInv, UndoInv, CertInv,
      RenderedInv, Failed, Succeeded
<1>. QED  BY <1>1, <1>8, <1>9, HolderStep DEF NothingToDo, Moves, Location, End

\* A write that fails leaves .env as it is.
LEMMA WriteEnvFailsStep ==
  ASSUME IInv, NEW r \in Request, WriteEnvFails(r)
  PROVE  IInv'
<1>1. /\ pc[r] = "write" /\ pc'[r] = (IF Uses(r, {"https"}) THEN "undoEnv" ELSE "failed")
      /\ pc' \in [Request -> Location]
      /\ UNCHANGED <<op, undo, before, lock, served>>
  BY Moved DEF WriteEnvFails, IInv, Location, End
<1>2. /\ op[r] \in Operation /\ before[r] \in Disk
      /\ before[r].env \in Env /\ Asked(r) \in Env
  BY <1>1, HeldType DEF IInv, InPlace, KindInv, Uses
<1>8. TypeOK'
  BY <1>1, <1>2 DEF WriteEnvFails, IInv, TypeOK, Now, Disk, fileVars, webVars
<1>9. InPlace(r)'
  <2>. USE <1>1, <1>2 DEF WriteEnvFails, fileVars, webVars, Moves
  <2>1. Asked(r)' = Asked(r) /\ Old(r)' = Old(r) /\ Done(r)' = Done(r)
    BY DEF Asked, Old, Done
  <2>2. KindInv(r)' /\ UndoInv(r)'
    BY DEF Uses, IInv, InPlace, KindInv, UndoInv
  <2>3. EnvInv(r)'
    BY <2>1, NoneAssumption DEF IInv, InPlace, EnvInv, UndoInv
  <2>4. CertInv(r)'
    BY DEF Uses, IInv, InPlace, CertInv
  <2>5. RenderedInv(r)'
    BY DEF Uses, IInv, InPlace, RenderedInv
  <2>6. Failed(r)' /\ Succeeded(r)'
    BY <2>1 DEF Uses, Operation, IInv, InPlace, EnvInv, CertInv, RenderedInv, Failed, Succeeded
  <2>. QED  BY <2>2, <2>3, <2>4, <2>5, <2>6 DEF InPlace
<1>. QED  BY <1>1, <1>8, <1>9, HolderStep DEF WriteEnvFails, Moves, Location, End

\* Authelia restarts with the new password or is reported.
LEMMA RestartAutheliaStep ==
  ASSUME IInv, NEW r \in Request, RestartAuthelia(r)
  PROVE  IInv'
<1>1. /\ pc[r] = "restart" /\ pc'[r] \in {"ok", "kept", "broken"} /\ pc' \in [Request -> Location]
      /\ UNCHANGED <<op, undo, before, lock, served>>
  BY Moved DEF RestartAuthelia, IInv, Location, End
<1>2. /\ op[r] \in Operation /\ before[r] \in Disk /\ Uses(r, {"password"})
      /\ before[r].env \in Env /\ Asked(r) \in Env
  BY <1>1, HeldType DEF IInv, InPlace, KindInv, Uses
<1>8. TypeOK'
  BY <1>1, <1>2 DEF RestartAuthelia, IInv, TypeOK, Now, Disk, fileVars, webVars
<1>9. InPlace(r)'
  BY <1>1, <1>2
  DEF RestartAuthelia, IInv, fileVars, webVars, Asked, Old, Done, Uses, InPlace, KindInv, EnvInv, UndoInv, CertInv,
      RenderedInv, Failed, Succeeded
<1>. QED  BY <1>1, <1>8, <1>9, HolderStep DEF RestartAuthelia, Moves, Location, End

\* The uploaded certificate, or none of it.
LEMMA WriteCrtStep ==
  ASSUME IInv, NEW r \in Request, WriteCrt(r)
  PROVE  IInv'
<1>1. /\ pc[r] = "writeCrt" /\ pc'[r] \in {"writeKey", "undoEnv"} /\ pc' \in [Request -> Location]
      /\ UNCHANGED <<op, undo, before, lock, served>>
  BY Moved DEF WriteCrt, IInv, Location
<1>2. /\ op[r] \in Operation /\ before[r] \in Disk /\ Uses(r, {"https"})
      /\ before[r].env \in Env /\ Asked(r) \in Env
  BY <1>1, HeldType DEF IInv, InPlace, KindInv, Uses
<1>8. TypeOK'
  BY <1>1, <1>2, OperationType DEF WriteCrt, IInv, TypeOK, Now, Disk, fileVars, webVars, Uses
<1>9. InPlace(r)'
  BY <1>1, <1>2
  DEF WriteCrt, IInv, fileVars, webVars, Moves, Goto, TypeOK, Asked, Old, Done, Uses, InPlace, KindInv, EnvInv, UndoInv, CertInv,
      RenderedInv, Failed, Succeeded
<1>. QED  BY <1>1, <1>8, <1>9, HolderStep DEF WriteCrt, Moves, Location, End

\* Its key, or none of it.
LEMMA WriteKeyStep ==
  ASSUME IInv, NEW r \in Request, WriteKey(r)
  PROVE  IInv'
<1>1. /\ pc[r] = "writeKey" /\ pc'[r] \in {"write", "undoEnv"} /\ pc' \in [Request -> Location]
      /\ UNCHANGED <<op, undo, before, lock, served>>
  BY Moved DEF WriteKey, IInv, Location
<1>2. /\ op[r] \in Operation /\ before[r] \in Disk /\ Uses(r, {"https"})
      /\ before[r].env \in Env /\ Asked(r) \in Env
  BY <1>1, HeldType DEF IInv, InPlace, KindInv, Uses
<1>8. TypeOK'
  BY <1>1, <1>2, OperationType DEF WriteKey, IInv, TypeOK, Now, Disk, fileVars, webVars, Uses
<1>9. InPlace(r)'
  BY <1>1, <1>2
  DEF WriteKey, IInv, fileVars, webVars, Moves, Goto, TypeOK, Asked, Old, Done, Uses, InPlace, KindInv, EnvInv, UndoInv, CertInv,
      RenderedInv, Failed, Succeeded
<1>. QED  BY <1>1, <1>8, <1>9, HolderStep DEF WriteKey, Moves, Location, End

\* What passes is what is on the disk.
LEMMA ValidateStep ==
  ASSUME IInv, NEW r \in Request, Validate(r)
  PROVE  IInv'
<1>1. /\ pc[r] = "validate" /\ pc'[r] \in {"schedule", "undoEnv"} /\ pc' \in [Request -> Location]
      /\ UNCHANGED <<op, undo, before, lock, served>>
  BY Moved DEF Validate, IInv, Location
<1>2. /\ op[r] \in Operation /\ before[r] \in Disk /\ Uses(r, {"https"})
      /\ before[r].env \in Env /\ Asked(r) \in Env
  BY <1>1, HeldType DEF IInv, InPlace, KindInv, Uses
<1>8. TypeOK'
  BY <1>1, <1>2 DEF Validate, IInv, TypeOK, Now, Disk, fileVars, webVars, OnDisk, Web, File
<1>9. InPlace(r)'
  <2>. USE <1>1, <1>2 DEF Validate, fileVars, webVars, Moves, OnDisk, Goto, TypeOK
  <2>1. Asked(r)' = Asked(r) /\ Old(r)' = Old(r) /\ Done(r)' = Done(r)
    BY DEF Asked, Old, Done
  <2>2. KindInv(r)' /\ UndoInv(r)'
    BY DEF Uses, IInv, InPlace, KindInv, UndoInv
  <2>3. EnvInv(r)'
    BY <2>1, NoneAssumption DEF IInv, InPlace, EnvInv, UndoInv
  <2>4. CertInv(r)'
    BY DEF Uses, IInv, InPlace, CertInv
  <2>5. RenderedInv(r)'
    BY DEF Uses, IInv, InPlace, RenderedInv
  <2>6. Failed(r)' /\ Succeeded(r)'
    BY <2>1 DEF Uses, Operation, IInv, InPlace, EnvInv, CertInv, RenderedInv, Failed, Succeeded
  <2>. QED  BY <2>2, <2>3, <2>4, <2>5, <2>6 DEF InPlace
<1>. QED  BY <1>1, <1>8, <1>9, HolderStep DEF Validate, Moves, Location, End

\* The helper is queued last.
LEMMA ScheduleStep ==
  ASSUME IInv, NEW r \in Request, Schedule(r)
  PROVE  IInv'
<1>1. /\ pc[r] = "schedule" /\ pc'[r] \in {"ok", "undoEnv"} /\ pc' \in [Request -> Location]
      /\ UNCHANGED <<op, undo, before, lock, served>>
  BY Moved DEF Schedule, IInv, Location, End
<1>2. /\ op[r] \in Operation /\ before[r] \in Disk /\ Uses(r, {"https"})
      /\ before[r].env \in Env /\ Asked(r) \in Env
  BY <1>1, HeldType DEF IInv, InPlace, KindInv, Uses
<1>8. TypeOK'
  BY <1>1, <1>2, SettingsAssumption DEF Schedule, IInv, TypeOK, Now, Disk, fileVars, webVars
<1>9. InPlace(r)'
  <2>. USE <1>1, <1>2 DEF Schedule, fileVars, webVars, Moves, OnDisk, Goto, TypeOK
  <2>1. Asked(r)' = Asked(r) /\ Old(r)' = Old(r) /\ Done(r)' = Done(r)
    BY DEF Asked, Old, Done
  <2>2. KindInv(r)' /\ UndoInv(r)'
    BY DEF Uses, IInv, InPlace, KindInv, UndoInv
  <2>3. EnvInv(r)'
    BY <2>1, NoneAssumption DEF IInv, InPlace, EnvInv, UndoInv
  <2>4. CertInv(r)'
    BY DEF Uses, IInv, InPlace, CertInv
  <2>5. RenderedInv(r)'
    BY DEF Uses, IInv, InPlace, RenderedInv
  <2>6. Failed(r)' /\ Succeeded(r)'
    BY <2>1 DEF Uses, Operation, IInv, InPlace, EnvInv, CertInv, RenderedInv, Failed, Succeeded
  <2>. QED  BY <2>2, <2>3, <2>4, <2>5, <2>6 DEF InPlace
<1>. QED  BY <1>1, <1>8, <1>9, HolderStep DEF Schedule, Moves, Location, End

\* The copy of the certificate is what the request found.
LEMMA UndoCrtStep ==
  ASSUME IInv, NEW r \in Request, UndoCrt(r)
  PROVE  IInv'
<1>1. /\ pc[r] = "undoCrt" /\ pc'[r] \in {"undoKey", "broken"} /\ pc' \in [Request -> Location]
      /\ UNCHANGED <<op, undo, before, lock, served>>
  BY Moved DEF UndoCrt, IInv, Location, End
<1>2. /\ op[r] \in Operation /\ before[r] \in Disk /\ Uses(r, {"https"})
      /\ before[r].env \in Env /\ Asked(r) \in Env
  BY <1>1, HeldType DEF IInv, InPlace, KindInv, Uses
<1>8. TypeOK'
  BY <1>1, <1>2 DEF UndoCrt, IInv, TypeOK, Now, Disk, fileVars, webVars, Copies
<1>9. InPlace(r)'
  BY <1>1, <1>2
  DEF UndoCrt, IInv, fileVars, webVars, Moves, Goto, TypeOK, Asked, Old, Done, Uses, InPlace, KindInv, EnvInv, UndoInv, CertInv,
      RenderedInv, Failed, Succeeded
<1>. QED  BY <1>1, <1>8, <1>9, HolderStep DEF UndoCrt, Moves, Location, End

\* So is the copy of the key.
LEMMA UndoKeyStep ==
  ASSUME IInv, NEW r \in Request, UndoKey(r)
  PROVE  IInv'
<1>1. /\ pc[r] = "undoKey" /\ pc'[r] \in {"undoRender", "broken"} /\ pc' \in [Request -> Location]
      /\ UNCHANGED <<op, undo, before, lock, served>>
  BY Moved DEF UndoKey, IInv, Location, End
<1>2. /\ op[r] \in Operation /\ before[r] \in Disk /\ Uses(r, {"https"})
      /\ before[r].env \in Env /\ Asked(r) \in Env
  BY <1>1, HeldType DEF IInv, InPlace, KindInv, Uses
<1>8. TypeOK'
  BY <1>1, <1>2 DEF UndoKey, IInv, TypeOK, Now, Disk, fileVars, webVars, Copies
<1>9. InPlace(r)'
  BY <1>1, <1>2
  DEF UndoKey, IInv, fileVars, webVars, Moves, Goto, TypeOK, Asked, Old, Done, Uses, InPlace, KindInv, EnvInv, UndoInv, CertInv,
      RenderedInv, Failed, Succeeded
<1>. QED  BY <1>1, <1>8, <1>9, HolderStep DEF UndoKey, Moves, Location, End

\* The notification state is rendered from .env.
LEMMA RenderAlertStep ==
  ASSUME IInv, NEW r \in Request, RenderAlert(r)
  PROVE  IInv'
<1>1. /\ pc[r] = "renderAlert" /\ pc'[r] \in {"checkAlert", "undoChannel", "broken"} /\ pc' \in [Request -> Location]
      /\ UNCHANGED <<op, undo, before, lock, served>>
  BY Moved DEF RenderAlert, IInv, Location, End
<1>2. /\ op[r] \in Operation /\ before[r] \in Disk /\ Uses(r, {"channel"})
      /\ before[r].env \in Env /\ Asked(r) \in Env
  BY <1>1, HeldType DEF IInv, InPlace, KindInv, Uses
<1>8. TypeOK'
  BY <1>1, <1>2 DEF RenderAlert, IInv, TypeOK, Now, Disk, fileVars, webVars, Env
<1>9. InPlace(r)'
  BY <1>1, <1>2
  DEF RenderAlert, IInv, fileVars, webVars, Moves, Goto, TypeOK, Asked, Old, Done, Uses, InPlace, KindInv, EnvInv, UndoInv, CertInv,
      RenderedInv, Failed, Succeeded
<1>. QED  BY <1>1, <1>8, <1>9, HolderStep DEF RenderAlert, Moves, Location, End

\* It is looked at.
LEMMA CheckAlertStep ==
  ASSUME IInv, NEW r \in Request, CheckAlert(r)
  PROVE  IInv'
<1>1. /\ pc[r] = "checkAlert" /\ pc'[r] \in {"reload", "undoChannel", "broken"} /\ pc' \in [Request -> Location]
      /\ UNCHANGED <<op, undo, before, lock, served>>
  BY Moved DEF CheckAlert, IInv, Location, End
<1>2. /\ op[r] \in Operation /\ before[r] \in Disk /\ Uses(r, {"channel"})
      /\ before[r].env \in Env /\ Asked(r) \in Env
  BY <1>1, HeldType DEF IInv, InPlace, KindInv, Uses
<1>8. TypeOK'
  BY <1>1, <1>2 DEF CheckAlert, IInv, TypeOK, Now, Disk, fileVars, webVars
<1>9. InPlace(r)'
  BY <1>1, <1>2
  DEF CheckAlert, IInv, fileVars, webVars, Asked, Old, Done, Uses, InPlace, KindInv, EnvInv, UndoInv, CertInv,
      RenderedInv, Failed, Succeeded
<1>. QED  BY <1>1, <1>8, <1>9, HolderStep DEF CheckAlert, Moves, Location, End

\* And loaded.
LEMMA ReloadStep ==
  ASSUME IInv, NEW r \in Request, Reload(r)
  PROVE  IInv'
<1>1. /\ pc[r] = "reload" /\ pc'[r] \in {"ok", "undoChannel", "broken"} /\ pc' \in [Request -> Location]
      /\ UNCHANGED <<op, undo, before, lock, served>>
  BY Moved DEF Reload, IInv, Location, End
<1>2. /\ op[r] \in Operation /\ before[r] \in Disk /\ Uses(r, {"channel"})
      /\ before[r].env \in Env /\ Asked(r) \in Env
  BY <1>1, HeldType DEF IInv, InPlace, KindInv, Uses
<1>8. TypeOK'
  BY <1>1, <1>2 DEF Reload, IInv, TypeOK, Now, Disk, fileVars, webVars
<1>9. InPlace(r)'
  BY <1>1, <1>2
  DEF Reload, IInv, fileVars, webVars, Asked, Old, Done, Uses, InPlace, KindInv, EnvInv, UndoInv, CertInv,
      RenderedInv, Failed, Succeeded
<1>. QED  BY <1>1, <1>8, <1>9, HolderStep DEF Reload, Moves, Location, End

\* .env goes back.
LEMMA UndoChannelStep ==
  ASSUME IInv, NEW r \in Request, UndoChannel(r)
  PROVE  IInv'
<1>1. /\ pc[r] = "undoChannel" /\ pc'[r] \in {"undoAlert", "broken"} /\ pc' \in [Request -> Location]
      /\ UNCHANGED <<op, undo, before, lock, served>>
  BY Moved DEF UndoChannel, IInv, Location, End
<1>2. /\ op[r] \in Operation /\ before[r] \in Disk /\ Uses(r, {"channel"})
      /\ before[r].env \in Env /\ Asked(r) \in Env
  BY <1>1, HeldType DEF IInv, InPlace, KindInv, Uses
<1>3. undo[r].env = before[r].env /\ before[r].env \in Old(r)
  BY <1>1, HeldType DEF IInv, InPlace, UndoInv, Old, Completions
<1>8. TypeOK'
  BY <1>1, <1>2, <1>3 DEF UndoChannel, IInv, TypeOK, Now, Disk, fileVars, webVars
<1>9. InPlace(r)'
  BY <1>1, <1>2, <1>3
  DEF UndoChannel, IInv, fileVars, webVars, Moves, Goto, TypeOK, Asked, Old, Done, Uses, InPlace, KindInv, EnvInv, UndoInv, CertInv,
      RenderedInv, Failed, Succeeded
<1>. QED  BY <1>1, <1>8, <1>9, HolderStep DEF UndoChannel, Moves, Location, End

\* The notification state goes back with it, or to what .env says.
LEMMA UndoAlertStep ==
  ASSUME IInv, NEW r \in Request, UndoAlert(r)
  PROVE  IInv'
<1>1. /\ pc[r] = "undoAlert" /\ pc'[r] \in {"failed", "broken"} /\ pc' \in [Request -> Location]
      /\ UNCHANGED <<op, undo, before, lock, served>>
  BY Moved DEF UndoAlert, IInv, Location, End
<1>2. /\ op[r] \in Operation /\ before[r] \in Disk /\ Uses(r, {"channel"})
      /\ before[r].env \in Env /\ Asked(r) \in Env
  BY <1>1, HeldType DEF IInv, InPlace, KindInv, Uses
<1>8. TypeOK'
  BY <1>1, <1>2 DEF UndoAlert, IInv, TypeOK, Now, Disk, fileVars, webVars, Env
<1>9. InPlace(r)'
  BY <1>1, <1>2
  DEF UndoAlert, IInv, fileVars, webVars, Moves, Goto, TypeOK, Asked, Old, Done, Uses, InPlace, KindInv, EnvInv, UndoInv, CertInv,
      RenderedInv, Failed, Succeeded
<1>. QED  BY <1>1, <1>8, <1>9, HolderStep DEF UndoAlert, Moves, Location, End

\* A render has filled in .env and written both files, or is undone.
LEMMA RenderAuthStep ==
  ASSUME IInv, NEW r \in Request, RenderAuth(r)
  PROVE  IInv'
<1>1. /\ pc[r] = "renderAuth" /\ pc'[r] \in {"restart", "validate", "undoEnv", "broken"} /\ pc' \in [Request -> Location]
      /\ UNCHANGED <<op, undo, before, lock, served>>
  BY Moved DEF RenderAuth, IInv, Location, End, AfterRender
<1>2. /\ op[r] \in Operation /\ before[r] \in Disk /\ Uses(r, {"password", "https"})
      /\ before[r].env \in Env /\ Asked(r) \in Env
  BY <1>1, HeldType DEF IInv, InPlace, KindInv, Uses
<1>3. env' \in Done(r) /\ env' \in Env
  BY <1>1, HeldType, CompletedType DEF RenderAuth, RenderSucceeds, RenderFails, IInv, InPlace, EnvInv, Done, Completions
<1>4. users' \in Password /\ tls' \in Mode
  BY <1>1 DEF RenderAuth, RenderSucceeds, RenderFails, IInv, TypeOK, Now, Disk, Env, Mode
<1>5. pc'[r] \in {"restart", "validate"} => RenderSucceeds /\ pc'[r] = AfterRender(r)
  BY <1>1 DEF RenderAuth, AfterRender, Moves, Goto, IInv, TypeOK
<1>6. RenderSucceeds => env' = Completed(Asked(r)) /\ users' = env'.password /\ tls' = env'.mode
  <2>1. env = Asked(r) /\ env \in Env
    BY <1>1, <1>2 DEF IInv, InPlace, EnvInv
  <2>2. Completed(env).password = env.password /\ Completed(env).mode = env.mode
    BY <2>1, CompletedKeys
  <2>. QED  BY <2>1, <2>2 DEF RenderSucceeds
<1>7. pc'[r] = "broken" => Uses(r, {"password"})
  BY <1>1 DEF RenderAuth, AfterRender, Moves, Goto, IInv, TypeOK
<1>8. TypeOK'
  BY <1>1, <1>2, <1>3, <1>4 DEF RenderAuth, IInv, TypeOK, Now, Disk, fileVars, webVars
<1>9. InPlace(r)'
  <2>. USE <1>1, <1>2, <1>3, <1>5, <1>6, <1>7 DEF RenderAuth, fileVars, webVars, Moves, AfterRender
  <2>1. Asked(r)' = Asked(r) /\ Old(r)' = Old(r) /\ Done(r)' = Done(r)
    BY DEF Asked, Old, Done
  <2>2. KindInv(r)' /\ UndoInv(r)'
    BY DEF Uses, IInv, InPlace, KindInv, UndoInv
  <2>3. EnvInv(r)'
    BY <2>1, NoneAssumption DEF IInv, InPlace, EnvInv, UndoInv
  <2>4. CertInv(r)'
    BY DEF Uses, IInv, InPlace, CertInv
  <2>5. RenderedInv(r)'
    BY DEF Uses, IInv, InPlace, RenderedInv
  <2>6. Failed(r)' /\ Succeeded(r)'
    BY <2>1 DEF Uses, Operation, IInv, InPlace, EnvInv, CertInv, RenderedInv, Failed, Succeeded
  <2>. QED  BY <2>2, <2>3, <2>4, <2>5, <2>6 DEF InPlace
<1>. QED  BY <1>1, <1>8, <1>9, HolderStep
      DEF RenderAuth, AfterRender, Moves, Location, End

\* What is rendered on the way back fills in the keys of the render.
LEMMA UndoRenderStep ==
  ASSUME IInv, NEW r \in Request, UndoRender(r)
  PROVE  IInv'
<1>1. /\ pc[r] = "undoRender" /\ pc'[r] \in {"failed", "broken"} /\ pc' \in [Request -> Location]
      /\ UNCHANGED <<op, undo, before, lock, served>>
  BY Moved DEF UndoRender, IInv, Location, End
<1>2. /\ op[r] \in Operation /\ before[r] \in Disk /\ Uses(r, {"https"})
      /\ before[r].env \in Env /\ Asked(r) \in Env
  BY <1>1, HeldType DEF IInv, InPlace, KindInv, Uses
<1>3. env' \in Completions(env) /\ env \in Env /\ env' \in Env
  BY CompletedType DEF UndoRender, RenderSucceeds, RenderFails, Completions, IInv, TypeOK, Now, Disk
<1>4. users' \in Password /\ tls' \in Mode
  BY <1>1 DEF UndoRender, RenderSucceeds, RenderFails, IInv, TypeOK, Now, Disk, Env, Mode
<1>5. IF undo[r].whole THEN env' \in Old(r) /\ pc'[r] = "failed" ELSE env' \in Done(r) /\ pc'[r] = "broken"
  BY <1>1, <1>2, <1>3, CompletionsClosed DEF UndoRender, Moves, Goto, IInv, TypeOK, InPlace, EnvInv, Old, Done
<1>8. TypeOK'
  BY <1>1, <1>2, <1>3, <1>4 DEF UndoRender, IInv, TypeOK, Now, Disk, fileVars, webVars
<1>9. InPlace(r)'
  BY <1>1, <1>2, <1>5
  DEF UndoRender, IInv, fileVars, webVars, Asked, Old, Done, Uses, InPlace, KindInv, EnvInv, UndoInv, CertInv,
      RenderedInv, Failed, Succeeded
<1>. QED  BY <1>1, <1>8, <1>9, HolderStep DEF UndoRender, Moves, Location, End

\* The copy of .env is what the request found, if it can be put back.
LEMMA UndoEnvStep ==
  ASSUME IInv, NEW r \in Request, UndoEnv(r)
  PROVE  IInv'
<1>1. /\ pc[r] = "undoEnv" /\ op[r] \in Operation /\ before[r] \in Disk
      /\ before[r].env \in Env /\ before[r].env # None
      /\ Uses(r, {"password", "https"}) /\ lock = r
      /\ before[r].env \in Old(r) /\ undo[r] \in Copies /\ undo[r].whole
  BY HeldType, NoneAssumption DEF UndoEnv, IInv, TypeOK, InPlace, KindInv, UndoInv, Old, Completions
<1> DEFINE l == IF Uses(r, {"https"}) THEN "undoCrt" ELSE "failed"
<1>2. CASE env' = (IF undo[r].env = None THEN env ELSE undo[r].env) /\ Moves(r, l)
  <2>1. /\ pc'[r] = l /\ pc' \in [Request -> Location]
        /\ UNCHANGED <<op, undo, before, lock, served>>
    BY <1>2, Moved DEF IInv, Location, End
  <2>2. env' = before[r].env
    BY <1>1, <1>2 DEF IInv, InPlace, EnvInv, UndoInv
  <2>3. TypeOK'
    BY <1>1, <2>1, <2>2 DEF UndoEnv, IInv, TypeOK, Now, Disk, webVars
  <2>4. InPlace(r)'
    BY <1>1, <2>1, <2>2
    DEF UndoEnv, IInv, webVars, Asked, Old, Done, Uses, InPlace, KindInv, EnvInv, UndoInv, CertInv,
        RenderedInv, Failed, Succeeded
  <2>. QED  BY <1>1, <1>2, <2>3, <2>4, HolderStep DEF Moves, Location, End
<1>3. CASE undo[r].env # None /\ UNCHANGED env /\ Moves(r, "broken")
  <2>1. /\ pc'[r] = "broken" /\ pc' \in [Request -> Location]
        /\ UNCHANGED <<op, undo, before, lock, served>>
    BY <1>3, Moved DEF IInv, Location, End
  <2>2. TypeOK'
    BY <1>1, <1>3, <2>1 DEF UndoEnv, IInv, TypeOK, Now, Disk, webVars
  <2>3. InPlace(r)'
    BY <1>1, <1>3, <2>1
    DEF UndoEnv, IInv, webVars, Asked, Old, Done, Uses, InPlace, KindInv, EnvInv, UndoInv, CertInv,
        RenderedInv, Failed, Succeeded
  <2>. QED  BY <1>1, <1>3, <2>2, <2>3, HolderStep DEF Moves, Location, End
<1>4. CASE /\ undo[r].env # None /\ Uses(r, {"https"})
           /\ undo' = [undo EXCEPT ![r].whole = FALSE]
           /\ Goto(r, "undoCrt")
           /\ UNCHANGED <<env, op, before, lock, served>>
  <2>1. /\ pc'[r] = "undoCrt" /\ pc' \in [Request -> Location]
    BY <1>4 DEF Goto, IInv, TypeOK, Location
  <2>2. undo' \in [Request -> Copies] /\ undo'[r] = [undo[r] EXCEPT !.whole = FALSE]
    BY <1>1, <1>4 DEF IInv, TypeOK, Copies
  <2>3. TypeOK'
    BY <1>1, <1>4, <2>1, <2>2 DEF UndoEnv, IInv, TypeOK, Now, Disk, webVars
  <2>4. /\ undo[r].crt = before[r].crt /\ undo[r].key = before[r].key
        /\ undo'[r].crt = undo[r].crt /\ undo'[r].key = undo[r].key /\ ~undo'[r].whole
    BY <1>1, <2>2 DEF IInv, InPlace, UndoInv, Copies
  <2>5. env \in Done(r)
    BY <1>1, <1>4 DEF IInv, InPlace, EnvInv
  <2>6. InPlace(r)'
    BY <1>1, <1>4, <2>1, <2>4, <2>5
    DEF UndoEnv, IInv, webVars, Asked, Old, Done, Uses, InPlace, KindInv, EnvInv, UndoInv, CertInv,
        RenderedInv, Failed, Succeeded
  <2>. QED  BY <1>1, <1>4, <2>3, <2>6, HolderStep DEF Location
<1>. QED  BY <1>2, <1>3, <1>4 DEF UndoEnv

-----------------------------------------------------------------------------
(* Entry, the write and the answer *)

\* Whoever gets the lock finds nobody under way, and keeps the state it finds.
LEMMA BeginStep ==
  ASSUME IInv, NEW r \in Request, NEW o \in Operation, Begin(r, o)
  PROVE  IInv'
<1>1. /\ pc' = [pc EXCEPT ![r] = "check"] /\ pc' \in [Request -> Location]
      /\ op' \in [Request -> Operation \cup {None}] /\ op'[r] = o
      /\ before' \in [Request -> Disk \cup {None}] /\ before'[r] = Now
      /\ lock' = r /\ served' \in 0..MaxServed
      /\ UNCHANGED <<undo, fileVars, proxy, sound, queued, passed>>
  BY SettingsAssumption DEF Begin, Goto, IInv, TypeOK, Location
<1>2. \A q \in Request : pc[q] = "idle"
  BY SettingsAssumption DEF Begin, IInv, LockInv
<1>3. pc'[r] = "check" /\ \A q \in Request \ {r} : pc'[q] = "idle"
  BY <1>1, <1>2 DEF IInv, TypeOK
<1>4. TypeOK'
  BY <1>1 DEF IInv, TypeOK, Now, fileVars, webVars
<1>5. LockInv'
  BY <1>1, <1>3, SettingsAssumption DEF LockInv, IInv, TypeOK
<1>6. /\ before'[r].env = env /\ before'[r].crt = crt /\ before'[r].key = key
      /\ before'[r].alert = alert
  BY <1>1 DEF Now
<1>7. InPlace(r)'
  BY <1>1, <1>3, <1>6
  DEF fileVars, webVars, Old, Completions, InPlace, KindInv, EnvInv, UndoInv, CertInv,
      RenderedInv, Failed, Succeeded
<1>8. ASSUME NEW q \in Request \ {r} PROVE InPlace(q)'
  BY <1>3, <1>8
  DEF InPlace, KindInv, EnvInv, UndoInv, CertInv, RenderedInv, Failed, Succeeded
<1>. QED  BY <1>4, <1>5, <1>7, <1>8 DEF IInv

\* The certificate is copied before anything is written.
LEMMA AcceptStep ==
  ASSUME IInv, NEW r \in Request, Accept(r)
  PROVE  IInv'
<1> DEFINE l == IF Uses(r, {"https"}) /\ op[r].with # None THEN "writeCrt" ELSE "write"
<1>1. /\ pc[r] = "check" /\ pc' = [pc EXCEPT ![r] = l] /\ pc'[r] = l
      /\ pc' \in [Request -> Location] /\ l \in {"writeCrt", "write"}
      /\ l = "writeCrt" => Uses(r, {"https"})
      /\ l = "write" /\ Uses(r, {"https"}) => op[r].with = None
      /\ UNCHANGED <<op, before, lock, served, fileVars, proxy, sound, queued, passed>>
  BY DEF Accept, Goto, IInv, TypeOK, Location
<1>2. /\ undo'[r].env = None /\ undo'[r].crt = crt /\ undo'[r].key = key /\ undo'[r].whole
      /\ undo' \in [Request -> Copies]
  BY DEF Accept, NoCopies, Copies, IInv, TypeOK, Now, Disk
<1>3. TypeOK'
  BY <1>1, <1>2 DEF IInv, TypeOK, Now, Disk, fileVars, webVars
<1>4. InPlace(r)'
  BY <1>1, <1>2
  DEF fileVars, webVars, Asked, Old, Done, Uses, IInv, InPlace, KindInv, EnvInv, UndoInv, CertInv,
      RenderedInv, Failed, Succeeded
<1>. QED  BY <1>1, <1>3, <1>4, HolderStep DEF Goto, Location

\* The keys change together, and the copy is of what was there.
LEMMA WriteEnvStep ==
  ASSUME IInv, NEW r \in Request, WriteEnv(r)
  PROVE  IInv'
<1> DEFINE l == AfterWrite(r)
<1>1. /\ pc[r] = "write" /\ pc' = [pc EXCEPT ![r] = l]
      /\ UNCHANGED <<op, before, lock, served, webVars, alert, proxy, sound, queued, passed>>
  BY DEF WriteEnv, Goto
<1>2. /\ op[r] \in Operation /\ op[r].change \in Change /\ env \in Env
      /\ env = before[r].env /\ env' = Asked(r) /\ env' \in Env /\ env' \in Done(r)
  BY <1>1, HeldType, OperationType
  DEF WriteEnv, IInv, InPlace, EnvInv, Asked, Done, Completions
<1>3. /\ undo'[r].env = env /\ undo' \in [Request -> Copies]
      /\ undo'[r].crt = undo[r].crt /\ undo'[r].key = undo[r].key /\ undo'[r].whole = undo[r].whole
  BY <1>2 DEF WriteEnv, IInv, TypeOK, Copies
<1>4. /\ l \in {"renderAuth", "renderAlert", "ok"} /\ pc'[r] = l /\ pc' \in [Request -> Location]
      /\ l = "renderAuth" => Uses(r, {"password", "https"})
      /\ l = "renderAlert" => Uses(r, {"channel"})
      /\ l = "ok" => ~Uses(r, {"password", "https", "channel"})
  BY <1>1 DEF IInv, TypeOK, Location, End, Uses, AfterWrite
<1>5. TypeOK'
  BY <1>1, <1>2, <1>3, <1>4 DEF IInv, TypeOK, Now, Disk, webVars
<1>6. InPlace(r)'
  <2>. USE <1>1, <1>2, <1>3, <1>4 DEF Uses, Asked, webVars
  <2>1. KindInv(r)' /\ EnvInv(r)' /\ RenderedInv(r)' /\ Failed(r)' /\ Succeeded(r)'
    BY DEF IInv, InPlace, KindInv, EnvInv, RenderedInv, Failed, Succeeded, Done
  <2>2. UndoInv(r)' /\ CertInv(r)'
    BY DEF IInv, InPlace, UndoInv, CertInv
  <2>. QED  BY <2>1, <2>2 DEF InPlace
<1>. QED  BY <1>1, <1>4, <1>5, <1>6, HolderStep DEF Goto, Location, End

\* Nobody is under way any more.
LEMMA AllIdle ==
  ASSUME IInv, lock' = Nobody, \A q \in Request : pc'[q] = "idle", TypeOK'
  PROVE  IInv'
<1>1. LockInv'
  BY DEF LockInv
<1>2. \A q \in Request : InPlace(q)'
  BY DEF InPlace, KindInv, EnvInv, UndoInv, CertInv, RenderedInv, Failed, Succeeded
<1>. QED  BY <1>1, <1>2 DEF IInv

LEMMA AnswerStep ==
  ASSUME IInv, NEW r \in Request, Answer(r)
  PROVE  IInv'
<1>1. pc[r] # "idle" /\ pc' = [pc EXCEPT ![r] = "idle"]
  BY DEF Answer, Goto, End
<1>2. TypeOK'
  BY DEF Answer, Goto, IInv, TypeOK, Now, Disk, fileVars, webVars, Location, Copies, NoCopies, File
<1>3. \A q \in Request : pc'[q] = "idle"
  BY <1>1, HeldType DEF IInv, TypeOK
<1>. QED  BY <1>2, <1>3, AllIdle DEF Answer

LEMMA KillStep ==
  ASSUME IInv, Kill
  PROVE  IInv'
<1>1. TypeOK'
  BY DEF Kill, IInv, TypeOK, Now, Disk, fileVars, webVars, Location, Copies, NoCopies, File
<1>. QED  BY <1>1, AllIdle DEF Kill

-----------------------------------------------------------------------------
(* The system *)

\* What happens to the proxy and the certificates is not what a request relies on.
LEMMA WorldStep ==
  ASSUME IInv, TypeOK', UNCHANGED <<lock, requestVars, fileVars, passed>>
  PROVE  IInv'
<1>1. LockInv'
  BY DEF IInv, LockInv, requestVars
<1>2. \A q \in Request : InPlace(q)'
  BY DEF IInv, requestVars, fileVars, webVars, OnDisk, Asked, Old, Done, Uses, InPlace, KindInv, EnvInv, UndoInv,
         CertInv, RenderedInv, Failed, Succeeded
<1>. QED  BY <1>1, <1>2 DEF IInv

LEMMA HoldingStep ==
  ASSUME IInv, NEW r \in Request, Holding(r)
  PROVE  IInv'
<1>1. CASE HttpsStep(r)
  BY <1>1, WriteCrtStep, WriteKeyStep, ValidateStep, ScheduleStep, UndoCrtStep, UndoKeyStep,
     UndoRenderStep
  DEF HttpsStep
<1>2. CASE ChannelStep(r)
  BY <1>2, RenderAlertStep, CheckAlertStep, ReloadStep, UndoChannelStep, UndoAlertStep
  DEF ChannelStep
<1>. QED
  BY <1>1, <1>2, RefuseStep, NothingToDoStep, AcceptStep, AnswerStep, WriteEnvStep,
     WriteEnvFailsStep, RenderAuthStep, UndoEnvStep, RestartAutheliaStep
  DEF Holding

LEMMA NextIInv == IInv /\ [Next]_vars => IInv'
<1>. SUFFICES ASSUME IInv, [Next]_vars PROVE IInv'
  OBVIOUS
<1>1. ASSUME NEW r \in Request, NEW o \in Operation, Begin(r, o) PROVE IInv'
  BY <1>1, BeginStep
<1>2. ASSUME NEW r \in Request, Holding(r) PROVE IInv'
  BY <1>2, HoldingStep
<1>3. CASE Activate
  <2>1. OnDisk \in Web
    BY DEF IInv, TypeOK, Now, Disk, OnDisk, Web, File
  <2>2. TypeOK'
    BY <1>3, <2>1, SettingsAssumption
    DEF Activate, IInv, TypeOK, Now, Disk, requestVars, fileVars, webVars
  <2>. QED  BY <1>3, <2>2, WorldStep DEF Activate
<1>4. CASE RestartProxy
  <2>1. OnDisk \in Web
    BY DEF IInv, TypeOK, Now, Disk, OnDisk, Web, File
  <2>2. TypeOK'
    BY <1>4, <2>1 DEF RestartProxy, IInv, TypeOK, Now, Disk, requestVars, fileVars, webVars
  <2>. QED  BY <1>4, <2>2, WorldStep DEF RestartProxy
<1>5. CASE CertExpires
  <2>1. TypeOK'
    BY <1>5 DEF CertExpires, IInv, TypeOK, Now, Disk, requestVars, fileVars, webVars
  <2>. QED  BY <1>5, <2>1, WorldStep DEF CertExpires
<1>6. CASE Kill
  BY <1>6, KillStep
<1>7. CASE UNCHANGED vars
  <2>1. TypeOK'
    BY <1>7 DEF vars, IInv, TypeOK, Now, Disk, requestVars, fileVars, webVars
  <2>. QED  BY <1>7, <2>1, WorldStep DEF vars
<1>. QED  BY <1>1, <1>2, <1>3, <1>4, <1>5, <1>6, <1>7 DEF Next

\* Every request of the backup-manager is where its copies and files say it is.
THEOREM Invariant == Spec => []IInv
<1>. QED  BY InitIInv, NextIInv, PTL DEF Spec

\* A request of the backup-manager that was refused or rolled back has left .env and
\* the certificate as it found them, whatever was requested meanwhile; a request that
\* kept its change or whose rollback broke down is not one of them.
THEOREM FailureAlwaysRestores == Spec => []FailureRestores
<1>1. IInv => FailureRestores
  BY DEF IInv, InPlace, Failed, FailureRestores
<1>. QED  BY <1>1, Invariant, PTL

\* A request of the backup-manager that succeeded, or kept its change, has changed all
\* its keys and no other, and its rendered files follow.
THEOREM SuccessAlwaysApplies == Spec => []SuccessApplies
<1>1. IInv => SuccessApplies
  BY DEF IInv, InPlace, Succeeded, Asked, SuccessApplies
<1>. QED  BY <1>1, Invariant, PTL

-----------------------------------------------------------------------------
(* The requests implement AtomicSettings *)

\* What is committed, and wanted, while request r is under way.
LEMMA CommittedBy ==
  ASSUME IInv, NEW r \in Request, pc[r] # "idle"
  PROVE  IF pc[r] \in End THEN Committed = env /\ Wanted = None
                          ELSE Committed = before[r].env /\ Wanted = op[r].change
<1>1. lock = r
  BY HeldType
<1>. QED  BY <1>1, SettingsAssumption DEF Committed, Wanted, UnderWay

LEMMA CommittedIdle ==
  ASSUME lock = Nobody
  PROVE  Committed = env /\ Wanted = None
  BY DEF Committed, Wanted, UnderWay

\* None is no change: it is not what an operation asks for.
LEMMA ChangeIsSomething ==
  ASSUME NEW r \in Request, IInv, pc[r] # "idle"
  PROVE  op[r].change # None
  BY HeldType, OperationType, NoneAssumption

\* Whatever is in .env when the request under way is over is all of its change, or
\* nothing of it.
LEMMA EndCommits ==
  ASSUME IInv, NEW r \in Request, pc[r] \notin End \cup {"idle"},
         Wanted' = None, Committed' \in Old(r) \cup Done(r)
  PROVE  Atomic!Commit \/ Atomic!Drop
<1>1. Committed = before[r].env /\ Wanted = op[r].change /\ Wanted # None
  BY CommittedBy, ChangeIsSomething
<1>2. CASE Committed' \in Old(r)
  BY <1>1, <1>2 DEF Atomic!Drop, Old
<1>3. CASE Committed' \in Done(r)
  BY <1>1, <1>3 DEF Atomic!Commit, Atomic!Changed, Done, Asked, Changed
<1>. QED  BY <1>2, <1>3

\* A request changes what is committed when it comes to an end.
LEMMA HolderCommits ==
  ASSUME IInv, IInv', NEW r \in Request, pc[r] \notin End \cup {"idle"}, pc'[r] # "idle",
         UNCHANGED <<op, before>>
  PROVE  Atomic!Next \/ UNCHANGED <<Committed, Wanted>>
<1>1. lock' = r
  BY DEF IInv, LockInv
<1>2. CASE pc'[r] \in End
  <2>1. Committed' = env' /\ Wanted' = None
    BY <1>1, <1>2 DEF Committed, Wanted, UnderWay
  <2>2. env' \in Old(r) \cup Done(r)
    BY DEF IInv, InPlace, EnvInv, Old, Done, Asked
  <2>. QED  BY <2>1, <2>2, EndCommits DEF Atomic!Next
<1>3. CASE pc'[r] \notin End
  <2>1. Committed' = before[r].env /\ Wanted' = op[r].change
    BY <1>1, <1>3, SettingsAssumption DEF Committed, Wanted, UnderWay
  <2>. QED  BY <2>1, CommittedBy
<1>. QED  BY <1>2, <1>3

\* Whatever the request that is killed has written stays, all of it or nothing.
LEMMA KillCommits ==
  ASSUME IInv, Kill
  PROVE  Atomic!Next \/ UNCHANGED <<Committed, Wanted>>
<1>1. Committed' = env /\ Wanted' = None
  BY DEF Kill, Committed, Wanted, UnderWay, fileVars
<1>2. PICK r \in Request : pc[r] # "idle"
  BY DEF Kill
<1>3. CASE pc[r] \in End
  BY <1>1, <1>2, <1>3, CommittedBy
<1>4. CASE pc[r] \notin End
  <2>1. env \in Old(r) \cup Done(r)
    BY <1>2 DEF IInv, InPlace, EnvInv
  <2>. QED  BY <1>1, <1>2, <1>4, <2>1, EndCommits DEF Atomic!Next
<1>. QED  BY <1>3, <1>4

\* The steps of a request that is under way, but for its answer.
LEMMA MovesOn ==
  ASSUME IInv, NEW r \in Request, Holding(r), ~Answer(r)
  PROVE  pc[r] \notin End \cup {"idle"} /\ pc'[r] # "idle" /\ UNCHANGED <<op, before>>
<1>1. ASSUME NEW l \in Location \ {"idle"}, Goto(r, l)
      PROVE  pc'[r] # "idle"
  BY <1>1 DEF Goto, IInv, TypeOK
<1>2. CASE HttpsStep(r)
  BY <1>1, <1>2
  DEF HttpsStep, WriteCrt, WriteKey, Validate, Schedule, UndoCrt, UndoKey, UndoRender, Moves,
      Location, End
<1>3. CASE ChannelStep(r)
  BY <1>1, <1>3
  DEF ChannelStep, RenderAlert, CheckAlert, Reload, UndoChannel, UndoAlert, Moves, Location, End
<1>4. CASE WriteEnv(r) \/ Accept(r)
  BY <1>1, <1>4 DEF WriteEnv, AfterWrite, Accept, Location, End
<1>5. CASE Refuse(r) \/ NothingToDo(r) \/ WriteEnvFails(r) \/ RestartAuthelia(r)
  BY <1>1, <1>5
  DEF Refuse, NothingToDo, WriteEnvFails, RestartAuthelia, Moves, Location, End
<1>6. CASE RenderAuth(r) \/ UndoEnv(r)
  BY <1>1, <1>6 DEF RenderAuth, AfterRender, UndoEnv, Moves, Location, End
<1>. QED  BY <1>2, <1>3, <1>4, <1>5, <1>6 DEF Holding

LEMMA StepCommits ==
  ASSUME IInv, IInv', [Next]_vars
  PROVE  Atomic!Next \/ UNCHANGED <<Committed, Wanted>>
<1>1. ASSUME NEW r \in Request, NEW o \in Operation, Begin(r, o)
      PROVE  Atomic!Ask
  <2>1. Committed = env /\ Wanted = None
    BY <1>1, CommittedIdle DEF Begin
  <2>2. lock' = r /\ before'[r] = Now /\ pc'[r] = "check" /\ op'[r] = o
    BY <1>1 DEF Begin, Goto, IInv, TypeOK
  <2>3. Committed' = Now.env /\ Wanted' = o.change
    BY <2>2, SettingsAssumption DEF Committed, Wanted, UnderWay, End
  <2>. QED  BY <2>1, <2>3, OperationType DEF Now, Atomic!Ask
<1>2. ASSUME NEW r \in Request, Answer(r)
      PROVE  UNCHANGED <<Committed, Wanted>>
  <2>1. Committed' = env /\ Wanted' = None
    BY <1>2 DEF Answer, Committed, Wanted, UnderWay, fileVars
  <2>2. Committed = env /\ Wanted = None
    BY <1>2, CommittedBy DEF Answer, End
  <2>. QED  BY <2>1, <2>2
<1>3. ASSUME NEW r \in Request, Holding(r)
      PROVE  Atomic!Next \/ UNCHANGED <<Committed, Wanted>>
  BY <1>2, <1>3, MovesOn, HolderCommits
<1>4. CASE Activate \/ RestartProxy \/ CertExpires \/ UNCHANGED vars
  BY <1>4
  DEF Activate, RestartProxy, CertExpires, vars, requestVars, fileVars, Committed, Wanted, UnderWay
<1>5. CASE Kill
  BY <1>5, KillCommits
<1>. QED  BY <1>1, <1>3, <1>4, <1>5 DEF Next, Atomic!Next

\* "Serialize writes and rollback across backend threads": .env as the last request
\* that came to an end left it changes by the whole change of a request or, but for
\* the keys of the render, not at all (serialized_env_operation, env_store.py).
THEOREM RequestsAreAtomic == Spec => AtomicSpec
<1>1. Init => Atomic!Init
  BY DEF Init, Committed, Wanted, UnderWay, Atomic!Init
<1>2. IInv /\ IInv' /\ [Next]_vars => [Atomic!Next]_<<Committed, Wanted>>
  BY StepCommits
<1>. QED  BY <1>1, <1>2, Invariant, PTL DEF Spec, AtomicSpec, Atomic!Spec
=============================================================================
