---------------------------- MODULE AdminBanner -----------------------------
(***************************************************************************)
(* The Banner section of the Configure page (screens/Configure.tsx): a form *)
(* that the page's configuration seeds once, and a save that is two writes, *)
(* one after the other, while other operators write the same keys.          *)
(***************************************************************************)

CONSTANTS Text, Level   \* messages that are not empty, severities

VARIABLES
    bannerEnv,  \* the two keys in .env
    bannerForm, \* text and level of the form, and whether it was seeded
    bannerSave, \* state of the save
    put,        \* the write under way: its key and whether the server made it
    sent,       \* what the save is to write
    written     \* Ghost: the keys the server has written for this save

vars == <<bannerEnv, bannerForm, bannerSave, put, sent, written>>

Field == {"text", "level"}
NoPut == [field |-> "none", made |-> FALSE]
Put(field) == [field |-> field, made |-> FALSE]
Env == [text : Text \cup {""}, level : Level]

Init ==
    /\ bannerEnv = [text |-> "", level |-> CHOOSE l \in Level : TRUE]
    /\ bannerForm = [text |-> "", level |-> bannerEnv.level, seeded |-> FALSE]
    /\ bannerSave = "idle" /\ put = NoPut /\ sent = bannerEnv /\ written = {}

OthersWrite ==
    /\ \E e \in Env : bannerEnv' = e
    /\ UNCHANGED <<bannerForm, bannerSave, put, sent, written>>

\* The configuration arrives; what was typed before is gone.
Seed ==
    /\ ~bannerForm.seeded
    /\ bannerForm' = [text |-> bannerEnv.text, level |-> bannerEnv.level, seeded |-> TRUE]
    /\ UNCHANGED <<bannerEnv, bannerSave, put, sent, written>>

Change ==
    /\ bannerSave # "running"
    /\ \E e \in Env : bannerForm' = [bannerForm EXCEPT !.text = e.text, !.level = e.level]
    /\ UNCHANGED <<bannerEnv, bannerSave, put, sent, written>>

\* apply up to its first request.
Apply(text) ==
    /\ bannerSave # "running" /\ bannerForm.seeded
    /\ bannerSave' = "running" /\ put' = Put("text")
    /\ sent' = [text |-> text, level |-> bannerForm.level]
    /\ written' = {}
    /\ bannerForm' = [bannerForm EXCEPT !.text = text]
    /\ UNCHANGED bannerEnv

SaveBanner == bannerForm.text # "" /\ Apply(bannerForm.text)
ClearBanner == Apply("")

\* The server writes one key.
Writes ==
    /\ put.field \in Field /\ ~put.made
    /\ bannerEnv' = [bannerEnv EXCEPT ![put.field] = sent[put.field]]
    /\ put' = [put EXCEPT !.made = TRUE]
    /\ written' = written \cup {put.field}
    /\ UNCHANGED <<bannerForm, bannerSave, sent>>

\* Mutant: the second write is not waited for.
AnsweredOnce ==
    /\ put.made
    /\ put' = NoPut /\ bannerSave' = "success"
    /\ UNCHANGED <<bannerEnv, bannerForm, sent, written>>

Answered ==
    /\ put.made
    /\ IF put.field = "text" THEN put' = Put("level") /\ UNCHANGED bannerSave
                             ELSE put' = NoPut /\ bannerSave' = "success"
    /\ UNCHANGED <<bannerEnv, bannerForm, sent, written>>

\* Refused or not answered: the second write is not tried, the first one stays.
NotAnswered ==
    /\ put # NoPut
    /\ put' = NoPut /\ bannerSave' = "error"
    /\ UNCHANGED <<bannerEnv, bannerForm, sent, written>>

Next == OthersWrite \/ Seed \/ Change \/ SaveBanner \/ ClearBanner \/ Writes \/ Answered \/ NotAnswered

Spec == Init /\ [][Next]_vars

-----------------------------------------------------------------------------
(* Properties *)

\* "Banner saved" and "Banner cleared" are said when both keys of this save reached
\* .env, with the text and the severity the operator asked for: the form cannot
\* change under the save, and one write of the two is not enough.
BannerSuccessIsSaved == bannerSave = "success" => written = Field

\* While the save runs the form is what the save writes.
FormIsSent == bannerSave = "running" => bannerForm.text = sent.text /\ bannerForm.level = sent.level

\* The form that says it is saving has a write under way.
WorkIsUnderWay == bannerSave = "running" => put # NoPut
=============================================================================
