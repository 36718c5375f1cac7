---------------------------- MODULE ConfirmModal ----------------------------
(***************************************************************************)
(* components/ConfirmModal.tsx: the dialog in which a word has to be typed  *)
(* before an irreversible operation. A dialog is a record; what it is about *)
(* (the archive to delete, the password to change) is "target".             *)
(***************************************************************************)

NoTarget == "no target"

\* "opened" is what it was opened for, "typed" what it was opened for when the word
\* was typed, NoTarget while the word does not match.
Closed == [target |-> NoTarget, opened |-> NoTarget, typed |-> NoTarget, running |-> FALSE]

IsOpen(d) == d.target # NoTarget

\* Mutant: the effect on "open" does not forget the word.
OpenKeepsWord(d, target) == [d EXCEPT !.target = target, !.opened = target, !.running = FALSE]

\* The effect on "open" resets what an earlier use of the dialog left.
Open(d, target) == [Closed EXCEPT !.target = target, !.opened = target]

\* The page behind the backdrop stays usable (by keyboard). A dialog that is open
\* is only told that it is about something else; "open" has no new value.
Retarget(d, target) == [d EXCEPT !.target = target]

\* Open and shown, and not under way: what the input and the buttons ask for.
Attentive(d) == IsOpen(d) /\ ~d.running

\* Typing makes the word match, or not any more.
TypeWord(d) == [d EXCEPT !.typed = IF @ = NoTarget THEN d.opened ELSE NoTarget]

\* The word was typed since the dialog opened.
TypedSince(d) == d.typed = d.opened

\* Escape, the backdrop and both ways to cancel; the dialog stays mounted, closed.
Close(d) == [d EXCEPT !.target = NoTarget]

\* handleConfirm up to the caller's operation.
MayConfirm(d) == Attentive(d) /\ d.typed # NoTarget
Confirm(d) == [d EXCEPT !.running = TRUE]

\* Mutant: no finally.
FinishNot(d) == d

\* finally of handleConfirm: of the dialog, not of the use that confirmed.
Finish(d) == [d EXCEPT !.running = FALSE]
=============================================================================
