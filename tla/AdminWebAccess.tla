--------------------------- MODULE AdminWebAccess ---------------------------
(***************************************************************************)
(* The web access of the Configure page (screens/Configure.tsx): what the   *)
(* Identity section says of HTTPS, from the configuration the page has, and *)
(* the two ways to generated HTTPS, WebAccessUpgrade and                    *)
(* GeneratedCertificateSwitch, of which at most one is mounted. Settings.tla *)
(* has what the server does with the request (configure_https).             *)
(***************************************************************************)
EXTENDS Naturals, FiniteSets, ConfirmModal

CONSTANT MaxRequests \* requests of the page under way together

VARIABLES
    webMode,     \* TORHOLE_WEB_MODE
    webShown,    \* what the page has of it, "unknown" without a configuration
    webDialog,   \* the dialog
    webState,    \* state of the activation
    activations, \* requests under way, "mine" while the component that asked is mounted
    reached      \* Ghost: the mode was "https-local" since the confirmation

vars == <<webMode, webShown, webDialog, webState, activations, reached>>

Mode == {"http", "https-local", "https-custom"}

\* The section mounts a component for "http", another one for "https-custom".
CanActivate(mode) == mode \in {"http", "https-custom"}
Activation == [mine |-> TRUE, at |-> "asked"]

Init ==
    /\ webMode = "http" /\ webShown = "unknown"
    /\ webDialog = Closed /\ webState = "idle" /\ activations = {}
    /\ reached = FALSE

Reaches(mode) == reached' = (reached \/ mode = "https-local")

OthersConfigure ==
    /\ webMode' \in Mode \ {webMode}
    /\ Reaches(webMode')
    /\ UNCHANGED <<webShown, webDialog, webState, activations>>

\* fetchConfig, or the answer to a save of a parameter: another mode mounts another
\* component, and what the old one waits for reaches no one.
ConfigChanges ==
    /\ webShown' = webMode /\ webShown' # webShown
    /\ webDialog' = Closed /\ webState' = "idle"
    /\ activations' = {[r EXCEPT !.mine = FALSE] : r \in activations}
    /\ UNCHANGED <<webMode, reached>>

OpenDialog ==
    /\ CanActivate(webShown) /\ webState # "running" /\ ~IsOpen(webDialog)
    /\ webShown = "http" => webState # "success"
    /\ webDialog' = Open(webDialog, "https-local")
    /\ UNCHANGED <<webMode, webShown, webState, activations, reached>>

Type ==
    /\ Attentive(webDialog)
    /\ webDialog' = TypeWord(webDialog)
    /\ UNCHANGED <<webMode, webShown, webState, activations, reached>>

Cancel ==
    /\ Attentive(webDialog)
    /\ webDialog' = Close(webDialog)
    /\ UNCHANGED <<webMode, webShown, webState, activations, reached>>

\* The dialog's handler with activate or apply up to its request.
Activate ==
    /\ MayConfirm(webDialog) /\ Cardinality(activations) < MaxRequests
    /\ webDialog' = Finish(Close(Confirm(webDialog)))
    /\ webState' = "running"
    /\ activations' = activations \cup {Activation}
    /\ reached' = (webMode = "https-local")
    /\ UNCHANGED <<webMode, webShown>>

\* configure_https, validated; it restores what it wrote when it fails.
EnableLocalHttps(r) ==
    /\ r.at = "asked"
    /\ webMode' = "https-local" /\ Reaches(webMode')
    /\ activations' = (activations \ {r}) \cup {[r EXCEPT !.at = "applied"]}
    /\ UNCHANGED <<webShown, webDialog, webState>>

\* Only the component that asked takes the answer.
Says(r, kind) ==
    /\ activations' = activations \ {r}
    /\ webState' = IF r.mine THEN kind ELSE webState
    /\ UNCHANGED <<webMode, webShown, webDialog, reached>>

Answered(r) == r.at = "applied" /\ Says(r, "success")

\* Refused, or applied and the answer lost when the proxy restarts.
NotAnswered(r) == Says(r, "error")

Next ==
    \/ OthersConfigure \/ ConfigChanges \/ OpenDialog \/ Type \/ Cancel \/ Activate
    \/ \E r \in activations : EnableLocalHttps(r) \/ Answered(r) \/ NotAnswered(r)

Spec == Init /\ [][Next]_vars

-----------------------------------------------------------------------------
(* Properties *)

\* "HTTPS + Authelia SSO is activating" is said when the server had the mode after
\* the operator confirmed, not of an earlier activation or one of another component.
ActivatingIsWritten == webState = "success" => reached

\* "validating" is shown while the request of this component is under way.
WorkIsUnderWay == webState = "running" => \E r \in activations : r.mine
=============================================================================
