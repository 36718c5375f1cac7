-------------------------- MODULE AdminParameters ---------------------------
(***************************************************************************)
(* App parameters of the Configure page (screens/Configure.tsx): the        *)
(* configuration the page loads once, and the rows that edit one key each.  *)
(* A save is answered with the whole configuration, which becomes the       *)
(* page's, so that a row's value changes under the rows being edited. The   *)
(* server writes under the lock of .env and reads for the answer after it.  *)
(***************************************************************************)
EXTENDS Naturals, FiniteSets

CONSTANTS Key,         \* keys that are not secret
          Value,
          MaxRequests  \* saves under way together

VARIABLES
    env,      \* .env
    config,   \* the page's configuration
    configErr,\* the error above the page
    expanded, \* the rows are mounted
    rows,     \* editing, draft and saveState of each row
    saves     \* saves under way, and the page's only load

vars == <<env, config, configErr, expanded, rows, saves>>

Loading == [k \in Key |-> "loading"]
Loaded == config # Loading
Row(value) == [editing |-> FALSE, draft |-> value, save |-> "idle"]

\* What is asked for: a key to set, or with Key the load. "row": the row that asked
\* is still mounted. "answer": what the server has read, Loading until then.
Save(k, value) == [keys |-> {k}, value |-> value, at |-> "asked", answer |-> Loading, row |-> TRUE]
OnMount == [keys |-> Key, value |-> "loading", at |-> "written", answer |-> Loading, row |-> FALSE]
IsLoad(r) == r.value = "loading"

Init ==
    /\ env = [k \in Key |-> CHOOSE v \in Value : TRUE]
    /\ config = Loading /\ configErr = FALSE /\ expanded = TRUE
    /\ rows = [k \in Key |-> Row("loading")]
    /\ saves = {OnMount}

\* Mutant: the effect of a row takes the value although the row is being edited.
FollowAlways(row, value) == [row EXCEPT !.draft = value]

\* The effect of a row on [editing, value].
Follow(row, value) == IF row.editing THEN row ELSE [row EXCEPT !.draft = value]

\* The rows once the configuration is "new".
Follows(new) == [k \in Key |-> Follow(rows[k], new[k])]

-----------------------------------------------------------------------------
(* The server.                                                              *)

OthersWrite(k, v) ==
    /\ env' = [env EXCEPT ![k] = v]
    /\ UNCHANGED <<config, configErr, expanded, rows, saves>>

SetConfigValue(r) ==
    /\ r.at = "asked"
    /\ env' = [k \in Key |-> IF k \in r.keys THEN r.value ELSE env[k]]
    /\ saves' = (saves \ {r}) \cup {[r EXCEPT !.at = "written"]}
    /\ UNCHANGED <<config, configErr, expanded, rows>>

GetConfigValues(r) ==
    /\ r.at = "written"
    /\ saves' = (saves \ {r}) \cup {[r EXCEPT !.at = "read", !.answer = env]}
    /\ UNCHANGED <<env, config, configErr, expanded, rows>>

-----------------------------------------------------------------------------
(* The page.                                                                *)

\* onConfigChange with the answer, whatever came since the server read it.
Answered(r) ==
    /\ r.at = "read"
    /\ config' = r.answer
    /\ rows' = [k \in Key |->
         IF r.row /\ k \in r.keys THEN Row(r.answer[k]) ELSE Follows(r.answer)[k]]
    /\ saves' = saves \ {r}
    /\ UNCHANGED <<env, configErr, expanded>>

\* The draft stays for another try; a load that fails is not repeated.
NotAnswered(r) ==
    /\ saves' = saves \ {r}
    /\ rows' = [k \in Key |->
         IF r.row /\ k \in r.keys THEN [rows[k] EXCEPT !.save = "error"] ELSE rows[k]]
    /\ configErr' = (configErr \/ IsLoad(r))
    /\ UNCHANGED <<env, config, expanded>>

Edit(k) ==
    /\ Loaded /\ expanded /\ ~rows[k].editing
    /\ rows' = [rows EXCEPT ![k].editing = TRUE]
    /\ UNCHANGED <<env, config, configErr, expanded, saves>>

Type(k, v) ==
    /\ rows[k].editing /\ rows[k].save # "saving"
    /\ rows' = [rows EXCEPT ![k].draft = v]
    /\ UNCHANGED <<env, config, configErr, expanded, saves>>

\* save
Submit(k) ==
    /\ rows[k].editing /\ rows[k].save # "saving" /\ rows[k].draft # config[k]
    /\ Cardinality(saves) < MaxRequests
    /\ rows' = [rows EXCEPT ![k].save = "saving"]
    /\ saves' = saves \cup {Save(k, rows[k].draft)}
    /\ UNCHANGED <<env, config, configErr, expanded>>

Cancel(k) ==
    /\ rows[k].editing /\ rows[k].save # "saving"
    /\ rows' = [rows EXCEPT ![k] = Row(config[k])]
    /\ UNCHANGED <<env, config, configErr, expanded, saves>>

\* The rows unmount with what was typed in them; their saves go on.
Collapse ==
    /\ Loaded /\ expanded
    /\ expanded' = FALSE
    /\ rows' = [k \in Key |-> Row(config[k])]
    /\ saves' = {[r EXCEPT !.row = FALSE] : r \in saves}
    /\ UNCHANGED <<env, config, configErr>>

Expand ==
    /\ Loaded /\ ~expanded
    /\ expanded' = TRUE
    /\ UNCHANGED <<env, config, configErr, rows, saves>>

Next ==
    \/ \E k \in Key : \/ \E v \in Value : OthersWrite(k, v) \/ Type(k, v)
                      \/ Edit(k) \/ Submit(k) \/ Cancel(k)
    \/ \E r \in saves : \/ SetConfigValue(r) \/ GetConfigValues(r)
                           \/ Answered(r) \/ NotAnswered(r)
    \/ Collapse \/ Expand

Spec == Init /\ [][Next]_vars

-----------------------------------------------------------------------------
(* Properties *)

\* What is being typed into a row is changed by typing only: not by an answer to
\* another row's save, nor by an older answer that comes late.
DraftSurvives ==
    [][\A k \in Key :
         /\ rows[k].editing /\ rows'[k].editing
         /\ rows'[k].draft # rows[k].draft
         => UNCHANGED <<env, config, expanded, saves>>]_vars

\* A row that says it is saving has a save under way, and a section that says
\* "loading" its load; or the load failed, which the page says elsewhere while the
\* section goes on to say "loading" for ever.
WorkIsUnderWay ==
    /\ \A k \in Key : rows[k].save = "saving" => \E r \in saves : r.row /\ k \in r.keys
    /\ ~Loaded => configErr \/ \E r \in saves : IsLoad(r)
=============================================================================
