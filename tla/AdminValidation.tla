-------------------------- MODULE AdminValidation ---------------------------
(***************************************************************************)
(* The Validation section of the Operate page (screens/Operate.tsx): the    *)
(* preview it polls, and the run it asks for, whose answer may be lost,     *)
(* against run_system_validation of the server (server.py), which other     *)
(* sessions ask for as well. A result is its number.                        *)
(***************************************************************************)
EXTENDS Naturals

CONSTANT MaxRuns \* validations that end

VARIABLES
    running, \* who holds VALIDATION_LOCK: "nobody", "other", or "mine"
    last,    \* the last result
    request, \* the page's request, of which at most one has not ended
    lost,    \* no one waits for the request any more
    run,     \* state of the button; "since": the last result when it was pressed
    preview, \* what the page was told last
    failed,  \* previewError
    poll     \* the poll under way

vars == <<running, last, request, lost, run, preview, failed, poll>>

NoRun(kind) == [kind |-> kind, result |-> 0, since |-> 0]
NoRequest == [at |-> "none", result |-> 0]
NoPreview == [loaded |-> FALSE, running |-> FALSE, last |-> 0]
Asked == [read |-> FALSE, told |-> NoPreview]

Init ==
    /\ running = "nobody" /\ last = 0
    /\ request = NoRequest /\ lost = FALSE /\ run = NoRun("idle")
    /\ preview = NoPreview /\ failed = FALSE /\ poll = Asked

-----------------------------------------------------------------------------
(* The server.                                                              *)

OthersRun ==
    /\ running = "nobody" /\ last < MaxRuns
    /\ running' = "other"
    /\ UNCHANGED <<last, request, lost, run, preview, failed, poll>>

OthersEnd ==
    /\ running = "other"
    /\ running' = "nobody" /\ last' = last + 1
    /\ UNCHANGED <<request, lost, run, preview, failed, poll>>

Begins ==
    /\ request.at = "asked" /\ running = "nobody" /\ last < MaxRuns
    /\ running' = "mine"
    /\ request' = [request EXCEPT !.at = "running"]
    /\ UNCHANGED <<last, lost, run, preview, failed, poll>>

\* Mutant: a run under way is answered with the result there is.
BusyAnswers ==
    /\ request.at = "asked"
    /\ request' = [at |-> "done", result |-> last]
    /\ UNCHANGED <<running, last, lost, run, preview, failed, poll>>

\* ValidationBusyError: another validation, or a recovery.
Busy ==
    /\ request.at = "asked"
    /\ request' = [request EXCEPT !.at = "refused"]
    /\ UNCHANGED <<running, last, lost, run, preview, failed, poll>>

RunEnds ==
    /\ running = "mine"
    /\ running' = "nobody" /\ last' = last + 1
    /\ request' = [at |-> "done", result |-> last']
    /\ UNCHANGED <<lost, run, preview, failed, poll>>

-----------------------------------------------------------------------------
(* The poll: one at a time, a second after the last one.                    *)

ReadPreview ==
    /\ ~poll.read
    /\ poll' = [read |-> TRUE,
                told |-> [loaded |-> TRUE, running |-> running # "nobody", last |-> last]]
    /\ UNCHANGED <<running, last, request, lost, run, preview, failed>>

Polled ==
    /\ poll.read
    /\ preview' = poll.told /\ failed' = FALSE /\ poll' = Asked
    /\ UNCHANGED <<running, last, request, lost, run>>

\* What was known stays; "Retry preview" polls at once.
NotPolled ==
    /\ failed' = TRUE /\ poll' = Asked
    /\ UNCHANGED <<running, last, request, lost, run, preview>>

-----------------------------------------------------------------------------
(* The button.                                                              *)

\* running of the section: the page's own run, or one it was told of.
SaysRunning == run.kind = "running" \/ preview.running

\* Bound: an earlier request of the page has ended on the server.
HandleRun ==
    /\ ~SaysRunning /\ preview.loaded /\ ~failed
    /\ request = NoRequest
    /\ request' = [NoRequest EXCEPT !.at = "asked"] /\ lost' = FALSE
    /\ run' = [NoRun("running") EXCEPT !.since = last]
    /\ UNCHANGED <<running, last, preview, failed, poll>>

Answered ==
    /\ request.at = "done" /\ ~lost
    /\ request' = NoRequest
    /\ run' = [run EXCEPT !.kind = "done", !.result = request.result]
    /\ UNCHANGED <<running, last, lost, preview, failed, poll>>

\* "The request was interrupted; validation may still be running."
NotAnswered ==
    /\ request # NoRequest /\ ~lost
    /\ lost' = TRUE
    /\ run' = NoRun("error")
    /\ UNCHANGED <<running, last, request, preview, failed, poll>>

\* A request that no one waits for ends on the server.
Forgotten ==
    /\ lost /\ request.at \in {"done", "refused"}
    /\ request' = NoRequest /\ lost' = FALSE
    /\ UNCHANGED <<running, last, run, preview, failed, poll>>

Next ==
    \/ OthersRun \/ OthersEnd \/ Begins \/ Busy \/ RunEnds
    \/ ReadPreview \/ Polled \/ NotPolled
    \/ HandleRun \/ Answered \/ NotAnswered \/ Forgotten

Spec == Init /\ [][Next]_vars

-----------------------------------------------------------------------------
(* Properties *)

\* What the page calls the result of its run is the result of a validation that
\* ended after the button was pressed, and that the server ran for this request.
RunIsFresh == run.kind = "done" => run.result > run.since

\* The button that says it runs has a request under way that is waited for.
WorkIsUnderWay == run.kind = "running" => request # NoRequest /\ ~lost
=============================================================================
