--------------------------- MODULE AtomicSettings ---------------------------
(***************************************************************************)
(* What the configuration endpoints promise of .env: every change happens  *)
(* at once and entirely or not at all, and a change that is taken back     *)
(* takes back nothing else ("Serialize writes and rollback across backend  *)
(* threads", docs/maintenance-fixes-2026-09-13.md:15).                     *)
(***************************************************************************)
CONSTANTS
    Env,             \* the contents of .env
    Change,          \* what a request may write: some keys and their new values
    None,            \* no request is being served
    Completions(_)   \* what a render may make of .env: the keys it owns, filled in

VARIABLES
    env,
    asked            \* what the request that is being served wants to write

Changed(e, c) == [k \in DOMAIN e |-> IF k \in DOMAIN c THEN c[k] ELSE e[k]]

Init == env \in Env /\ asked = None

Ask == asked = None /\ asked' \in Change /\ UNCHANGED env

\* All the keys of the request together; every other key keeps its value.
Commit == asked # None /\ env' \in Completions(Changed(env, asked)) /\ asked' = None

\* Nothing of the request; a render may have filled in its own keys.
Drop == asked # None /\ env' \in Completions(env) /\ asked' = None

Next == Ask \/ Commit \/ Drop

Spec == Init /\ [][Next]_<<env, asked>>
=============================================================================
