---------------------------- MODULE AdminBackups ----------------------------
(***************************************************************************)
(* The Backups section of the Operate page (screens/Operate.tsx): the list, *)
(* "create snapshot" and the two dialogs. Recovery.tla has what the server  *)
(* does with a request; here a request is answered when and as it may be,   *)
(* and a list has any of the archives.                                      *)
(***************************************************************************)
EXTENDS Naturals, FiniteSets, ConfirmModal

CONSTANTS Archive,      \* names of archives
          MaxRequests,  \* requests of the page under way together
          MaxTimers     \* timers of the create button running together

VARIABLES
    backups,      \* the list on the page
    listFailed,   \* err, shown instead of the list
    loading,      \* a list is loaded
    create,       \* state of the create button
    createTimers, \* timers that will make it idle
    dialogs,      \* deleteTarget and restoreTarget with their dialogs
    handlers      \* handlers under way

vars == <<backups, listFailed, loading, create, createTimers, dialogs, handlers>>
Kind == {"delete", "restore"}

\* A handler waits for what it asked for ("asked"), then for the list ("listing").
\* "word": it was typed since the dialog opened that asked for this.
Request(kind, archive, word, at) == [kind |-> kind, archive |-> archive, word |-> word, at |-> at]
First == Request("load", NoTarget, FALSE, "listing")
Creation == Request("create", NoTarget, FALSE, "asked")
Listing(r) == [r EXCEPT !.at = "listing"]
Free == Cardinality(handlers) < MaxRequests
Of(kind) == {r \in handlers : r.kind = kind}

Init ==
    /\ backups = {} /\ listFailed = FALSE /\ loading = TRUE /\ create = "idle" /\ createTimers = 0
    /\ dialogs = [k \in Kind |-> Closed]
    /\ handlers = {First}

-----------------------------------------------------------------------------
(* load, alone or as the end of a handler.                                  *)

Loads ==
    /\ loading' = FALSE
    /\ \/ listFailed' = FALSE /\ backups' \in SUBSET Archive
       \/ listFailed' = TRUE /\ UNCHANGED backups

\* "loading" stands for a list that is empty; else the list stays, or the error.
SaysLoading == loading /\ backups = {}
Rows == IF listFailed THEN {} ELSE backups

FirstLoaded ==
    /\ First \in handlers
    /\ handlers' = handlers \ {First}
    /\ Loads
    /\ UNCHANGED <<create, createTimers, dialogs>>

-----------------------------------------------------------------------------
(* Creating. The button waits for "running" only.                           *)

HandleCreate ==
    /\ create # "running" /\ Free /\ createTimers + Cardinality(Of("create")) < MaxTimers
    /\ create' = "running"
    /\ handlers' = handlers \cup {Creation}
    /\ UNCHANGED <<backups, listFailed, loading, createTimers, dialogs>>

CreateAnswered ==
    /\ Creation \in handlers
    /\ create' = "success" /\ loading' = TRUE
    /\ handlers' = (handlers \ {Creation}) \cup {Listing(Creation)}
    /\ UNCHANGED <<backups, listFailed, createTimers, dialogs>>

\* The timer is set when the list has come; no one cancels it.
CreateEnds ==
    /\ Listing(Creation) \in handlers
    /\ handlers' = handlers \ {Listing(Creation)}
    /\ createTimers' = createTimers + 1
    /\ Loads
    /\ UNCHANGED <<create, dialogs>>

CreateFails ==
    /\ Creation \in handlers
    /\ handlers' = handlers \ {Creation}
    /\ create' = "error"
    /\ createTimers' = createTimers + 1
    /\ UNCHANGED <<backups, listFailed, loading, dialogs>>

TimerFires ==
    /\ createTimers > 0
    /\ createTimers' = createTimers - 1
    /\ create' = "idle"
    /\ UNCHANGED <<backups, listFailed, loading, dialogs, handlers>>

-----------------------------------------------------------------------------
(* The dialogs. Both may be open, and the buttons of the rows behind them set *)
(* their targets at any time.                                               *)

OpenDialog(k, a) ==
    /\ a \in Rows
    /\ dialogs' = [dialogs EXCEPT ![k] = IF IsOpen(@) THEN Retarget(@, a) ELSE Open(@, a)]
    /\ UNCHANGED <<backups, listFailed, loading, create, createTimers, handlers>>

Type(k) ==
    /\ Attentive(dialogs[k])
    /\ dialogs' = [dialogs EXCEPT ![k] = TypeWord(@)]
    /\ UNCHANGED <<backups, listFailed, loading, create, createTimers, handlers>>

Cancel(k) ==
    /\ Attentive(dialogs[k])
    /\ dialogs' = [dialogs EXCEPT ![k] = Close(@)]
    /\ UNCHANGED <<backups, listFailed, loading, create, createTimers, handlers>>

\* handleConfirm with handleDelete or handleRestore up to its request.
Handle(k) ==
    /\ MayConfirm(dialogs[k]) /\ Free
    /\ dialogs' = [dialogs EXCEPT ![k] = Confirm(@)]
    /\ handlers' = handlers \cup {Request(k, dialogs[k].target, TypedSince(dialogs[k]), "asked")}
    /\ UNCHANGED <<backups, listFailed, loading, create, createTimers>>

\* The dialog closes, whatever it is open for by now, and the list is loaded.
Answered(r) ==
    /\ r.kind \in Kind /\ r.at = "asked"
    /\ dialogs' = [dialogs EXCEPT ![r.kind] = Close(@)]
    /\ handlers' = (handlers \ {r}) \cup {Listing(r)}
    /\ loading' = TRUE
    /\ UNCHANGED <<backups, listFailed, create, createTimers>>

Refused(r) ==
    /\ r.kind \in Kind /\ r.at = "asked"
    /\ dialogs' = [dialogs EXCEPT ![r.kind] = Finish(@)]
    /\ handlers' = handlers \ {r}
    /\ UNCHANGED <<backups, listFailed, loading, create, createTimers>>

\* Only now is the dialog's handler over.
Ends(r) ==
    /\ r.kind \in Kind /\ r.at = "listing"
    /\ Loads
    /\ dialogs' = [dialogs EXCEPT ![r.kind] = Finish(@)]
    /\ handlers' = handlers \ {r}
    /\ UNCHANGED <<create, createTimers>>

Next ==
    \/ FirstLoaded \/ HandleCreate \/ CreateAnswered \/ CreateEnds \/ CreateFails \/ TimerFires
    \/ \E k \in Kind : \/ \E a \in Archive : OpenDialog(k, a)
                       \/ Type(k) \/ Cancel(k) \/ Handle(k)
    \/ \E r \in handlers : Answered(r) \/ Refused(r) \/ Ends(r)

Spec == Init /\ [][Next]_vars

-----------------------------------------------------------------------------
(* Properties *)

\* Nothing is deleted or restored without the word typed since the dialog last
\* opened, although one dialog serves every archive, closes by itself when an
\* earlier request is answered, and is told that it is idle by a handler of an
\* earlier use. (The archive is the one the dialog names when the operator
\* confirms, which a row may have changed after the word was typed.)
ConfirmedByWord == \A r \in handlers : r.kind \in Kind => r.word

\* What says that it works has a request under way.
WorkIsUnderWay ==
    /\ create = "running" => Of("create") # {}
    /\ SaysLoading => \E r \in handlers : r.at = "listing"
    /\ \A k \in Kind : dialogs[k].running => Of(k) # {}
=============================================================================
