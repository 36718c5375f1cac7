--------------------------- MODULE AdminPassword ----------------------------
(***************************************************************************)
(* AdminPasswordForm of the Configure page (screens/Configure.tsx): three   *)
(* fields, a dialog and one request, whose answer may be lost, while another *)
(* operator changes the same password (Settings.tla has the transaction).   *)
(***************************************************************************)
EXTENDS ConfirmModal

CONSTANTS Password, \* passwords in use
          Good      \* those that the policy allows

VARIABLES
    current,        \* TORHOLE_ADMIN_PASSWORD
    form,           \* the three fields
    passwordDialog, \* the dialog
    formState,      \* state of the form
    change          \* the request under way: what it carries, and where it is

vars == <<current, form, passwordDialog, formState, change>>

Form == [old : Password \cup {""}, new : Password \cup {""}, confirm : Password \cup {""}]
Empty == [old |-> "", new |-> "", confirm |-> ""]
NoRequest == [at |-> "none", form |-> Empty]

Init ==
    /\ current = CHOOSE p \in Good : TRUE
    /\ form = Empty /\ passwordDialog = Closed /\ formState = "idle" /\ change = NoRequest

\* The form; the dialog in front of it does not keep the operator from the fields.
FormShown == formState # "success"

OthersChange ==
    /\ current' \in Good
    /\ UNCHANGED <<form, passwordDialog, formState, change>>

Type ==
    /\ FormShown /\ formState # "running"
    /\ \E f \in Form : form' = f
    /\ UNCHANGED <<current, passwordDialog, formState, change>>

\* canSubmit: validationError, mismatchError and reuseError are all null.
CanSubmit ==
    /\ formState # "running"
    /\ form.old # "" /\ form.new \in Good \ {form.old} /\ form.confirm = form.new

OpenDialog ==
    /\ FormShown /\ CanSubmit /\ ~IsOpen(passwordDialog)
    /\ passwordDialog' = Open(passwordDialog, "update")
    /\ UNCHANGED <<current, form, formState, change>>

TypeUpdate ==
    /\ Attentive(passwordDialog)
    /\ passwordDialog' = TypeWord(passwordDialog)
    /\ UNCHANGED <<current, form, formState, change>>

Cancel ==
    /\ Attentive(passwordDialog)
    /\ passwordDialog' = Close(passwordDialog)
    /\ UNCHANGED <<current, form, formState, change>>

\* submit up to its request, with what the fields have by now; the dialog waits for
\* it, and nothing is checked again.
Submit ==
    /\ MayConfirm(passwordDialog)
    /\ passwordDialog' = Confirm(passwordDialog)
    /\ formState' = "running"
    /\ change' = [at |-> "asked", form |-> form]
    /\ UNCHANGED <<current, form>>

\* Mutant: the server leaves the confirmation to the page.
AcceptedUncompared(f) == f.old = current /\ f.new \in Good

\* The server checks everything the form has checked, but that the new password
\* is another one.
Acceptable(f) == f.old = current /\ f.new \in Good /\ f.confirm = f.new

Writes ==
    /\ change.at = "asked"
    /\ \/ /\ Acceptable(change.form)
          /\ current' = change.form.new
          /\ change' = [change EXCEPT !.at = "written"]
       \/ /\ UNCHANGED current
          /\ change' = [change EXCEPT !.at = "refused"]
    /\ UNCHANGED <<form, passwordDialog, formState>>

Answered ==
    /\ change.at = "written"
    /\ formState' = "success" /\ form' = Empty
    /\ passwordDialog' = Finish(Close(passwordDialog))
    /\ change' = NoRequest
    /\ UNCHANGED current

\* Refused, or written and the answer lost: the form says the same.
NotAnswered ==
    /\ change.at \in {"written", "refused"}
    /\ formState' = "error"
    /\ passwordDialog' = Finish(Close(passwordDialog))
    /\ change' = NoRequest
    /\ UNCHANGED <<current, form>>

\* "reload to sign in again"
Reload ==
    /\ formState = "success"
    /\ formState' = "idle" /\ form' = Empty /\ passwordDialog' = Closed
    /\ UNCHANGED <<current, change>>

Next ==
    \/ OthersChange \/ Type \/ OpenDialog \/ TypeUpdate \/ Cancel \/ Submit
    \/ Writes \/ Answered \/ NotAnswered \/ Reload

Spec == Init /\ [][Next]_vars

-----------------------------------------------------------------------------
(* Properties *)

\* What is under way is what the fields show, and what the server writes was typed
\* twice, although the fields may change between the form's checks and the word in
\* the dialog, which checks nothing again.
PasswordIsTypedTwice ==
    /\ change.at # "none" =>
           form = change.form /\ formState = "running" /\ passwordDialog.running
    /\ change.at = "written" => form.new = form.confirm /\ form.new \in Good

\* The form, or the dialog, that says it is updating has a request under way.
WorkIsUnderWay == formState = "running" \/ passwordDialog.running => change # NoRequest
=============================================================================
