----------------------------- MODULE AdminLive ------------------------------
(***************************************************************************)
(* useSnapshot (lib/snapshot.ts), which every screen of the admin UI shows,  *)
(* and the buttons that act and ask for a fresh snapshot: the quick actions *)
(* (App.tsx), whose timer an effect cancels, and a container's row          *)
(* (screens/Operate.tsx), the rotation and the leak test                    *)
(* (screens/Privacy.tsx), whose timers nothing cancels. The later refetches *)
(* of these are ticks of the interval, which comes at any time here. A      *)
(* screen that is left unmounts with all of this.                           *)
(***************************************************************************)
EXTENDS Naturals

CONSTANTS Poll,        \* requests for a snapshot
          QuickAction, \* quick actions
          Button,      \* other buttons
          MaxWorld,    \* changes of what is measured
          MaxRequests, \* actions of one button under way together
          MaxTimers    \* timers of one button running together

NoPoll == "no poll"

VARIABLES
    world,  \* what is measured
    served, \* what the server answered last (SnapshotCache.tla)
    up,     \* the server answers
    polls,  \* each request: idle, asked, or answered with a snapshot on its way
    active, \* the request that is waited for
    shown,  \* state of the hook; "version": of the last snapshot that was shown
    quick,  \* state of the quick actions: one for all of them
    button, \* state of each other button
    timers, \* timers that will make a button idle
    acting  \* requests under way of each action, as far as this screen waits for them

live == <<world, served, up, polls, active, shown>>
buttons == <<quick, button, timers, acting>>
vars == <<live, buttons>>

Idle == [at |-> "idle", version |-> 0]
Asked == [at |-> "asked", version |-> 0]

Init ==
    /\ world = 0 /\ served = 0 /\ up = TRUE
    /\ polls = [p \in Poll |-> Idle] /\ active = NoPoll
    /\ shown = [kind |-> "loading", version |-> 0]
    /\ quick = "idle" /\ button = [b \in Button |-> "idle"]
    /\ timers = [b \in Button |-> 0]
    /\ acting = [a \in QuickAction \cup Button |-> 0]

-----------------------------------------------------------------------------
(* The server.                                                              *)

Changes ==
    /\ world < MaxWorld
    /\ world' = world + 1
    /\ UNCHANGED <<served, up, polls, active, shown, buttons>>

GoesSilent ==
    /\ up' = ~up
    /\ UNCHANGED <<world, served, polls, active, shown, buttons>>

\* A snapshot is not older than the last one that was answered.
Answers(p) ==
    /\ up /\ polls[p] = Asked
    /\ served' \in served..world
    /\ polls' = [polls EXCEPT ![p] = [at |-> "answered", version |-> served']]
    /\ UNCHANGED <<world, up, active, shown, buttons>>

-----------------------------------------------------------------------------
(* Polling.                                                                 *)

\* A request that was given up may still be under way when the next one starts.
Starts == \E p \in Poll : polls' = [polls EXCEPT ![p] = Asked] /\ active' = p

\* tick, and refetch at the end of an action: nothing while one is waited for.
Refetch == IF active = NoPoll THEN Starts ELSE UNCHANGED <<polls, active>>

Tick ==
    /\ active = NoPoll /\ Starts
    /\ UNCHANGED <<world, served, up, shown, buttons>>

\* Mutant: an answer counts whether or not it is still waited for.
IsCurrentAlways(p) == p \in Poll

\* The abort of a request that is given up, and active !== controller.
IsCurrent(p) == active = p

Ends(p) ==
    /\ polls' = [polls EXCEPT ![p] = Idle]
    /\ active' = IF active = p THEN NoPoll ELSE active

Arrives(p) ==
    /\ polls[p].at = "answered"
    /\ Ends(p)
    /\ shown' = IF IsCurrent(p) THEN [kind |-> "ready", version |-> polls[p].version] ELSE shown
    /\ UNCHANGED <<world, served, up, buttons>>

Unavailable == shown' = [shown EXCEPT !.kind = "error"]

Fails(p) ==
    /\ up /\ polls[p] # Idle
    /\ Ends(p)
    /\ IF IsCurrent(p) THEN Unavailable ELSE UNCHANGED shown
    /\ UNCHANGED <<world, served, up, buttons>>

\* Mutant: what was shown stays when the time is over.
DeadlineKeeps ==
    /\ active # NoPoll
    /\ active' = NoPoll
    /\ UNCHANGED <<world, served, up, polls, shown, buttons>>

Deadline ==
    /\ active # NoPoll
    /\ active' = NoPoll
    /\ Unavailable
    /\ UNCHANGED <<world, served, up, polls, buttons>>

-----------------------------------------------------------------------------
(* The quick actions: the buttons share one state.                          *)

Run(a) ==
    /\ quick # "running" /\ acting[a] < MaxRequests
    /\ quick' = "running"
    /\ acting' = [acting EXCEPT ![a] = @ + 1]
    /\ UNCHANGED <<live, button, timers>>

RunEnds(a) ==
    /\ acting[a] > 0
    /\ acting' = [acting EXCEPT ![a] = @ - 1]
    /\ quick' = "over"
    /\ Refetch
    /\ UNCHANGED <<world, served, up, shown, button, timers>>

\* Mutant: the effect does not clear the timer of an earlier action.
QuickTimerNotCleared ==
    /\ quick # "idle"
    /\ quick' = "idle"
    /\ UNCHANGED <<live, button, timers, acting>>

\* The timer of the effect: a change of the state clears it.
QuickTimer ==
    /\ quick = "over"
    /\ quick' = "idle"
    /\ UNCHANGED <<live, button, timers, acting>>

-----------------------------------------------------------------------------
(* The other buttons.                                                       *)

Handle(b) ==
    /\ button[b] # "running" /\ acting[b] < MaxRequests /\ timers[b] < MaxTimers
    /\ button' = [button EXCEPT ![b] = "running"]
    /\ acting' = [acting EXCEPT ![b] = @ + 1]
    /\ UNCHANGED <<live, quick, timers>>

\* Each end, good or bad, sets a timer of its own, but a row is idle at once when
\* its action is done. A failed action asks for no snapshot.
HandleEnds(b) ==
    /\ acting[b] > 0
    /\ acting' = [acting EXCEPT ![b] = @ - 1]
    /\ \/ button' = [button EXCEPT ![b] = "idle"] /\ UNCHANGED timers /\ Refetch
       \/ /\ button' = [button EXCEPT ![b] = "over"] /\ timers' = [timers EXCEPT ![b] = @ + 1]
          /\ Refetch \/ UNCHANGED <<polls, active>>
    /\ UNCHANGED <<world, served, up, shown, quick>>

\* Whatever the button does by now.
Timer(b) ==
    /\ timers[b] > 0
    /\ timers' = [timers EXCEPT ![b] = @ - 1]
    /\ button' = [button EXCEPT ![b] = "idle"]
    /\ UNCHANGED <<live, quick, acting>>

-----------------------------------------------------------------------------
(* The screen is left, and opened again later. The hook asks at once; what   *)
(* was under way goes on, but its answers and timers find no one.           *)

Remount ==
    /\ \E p \in Poll : polls' = [q \in Poll |-> IF q = p THEN Asked ELSE Idle] /\ active' = p
    /\ shown' = [shown EXCEPT !.kind = "loading"]
    /\ quick' = "idle" /\ button' = [b \in Button |-> "idle"]
    /\ timers' = [b \in Button |-> 0]
    /\ acting' = [a \in QuickAction \cup Button |-> 0]
    /\ UNCHANGED <<world, served, up>>

Next ==
    \/ Changes \/ GoesSilent \/ Tick \/ Deadline \/ QuickTimer \/ Remount
    \/ \E p \in Poll : Answers(p) \/ Arrives(p) \/ Fails(p)
    \/ \E a \in QuickAction : Run(a) \/ RunEnds(a)
    \/ \E b \in Button : Handle(b) \/ HandleEnds(b) \/ Timer(b)

Spec == Init /\ [][Next]_vars

\* The interval and the deadline come; the server and the operator owe nothing.
Fairness == WF_vars(Tick) /\ WF_vars(Deadline)
FairSpec == Spec /\ Fairness

-----------------------------------------------------------------------------
(* Properties *)

\* What is shown is never followed by something older, although a request that was
\* given up may be answered after the one that replaced it, and the screen may have
\* been left meanwhile.
ShownNeverGoesBack == [][shown'.version >= shown.version]_vars

\* "historical health is never presented as current proof": when the server stays
\* silent, the measurements are unavailable in the end, and remain so.
SilenceIsShown == <>[](~up) => <>[](shown.kind # "ready")

\* "Disable all buttons while any action runs": at most one quick action of those
\* started since the overview was opened is under way, whatever timers earlier ones
\* have left. (To leave the overview and return forgets the action that runs: the
\* next one may overlap it.)
OneQuickAction ==
    \A a, b \in QuickAction : acting[a] > 0 /\ acting[b] > 0 => a = b /\ acting[a] = 1

\* A button that says it works has an action under way, whatever timers come late.
WorkIsUnderWay ==
    /\ quick = "running" => \E a \in QuickAction : acting[a] > 0
    /\ \A b \in Button : button[b] = "running" => acting[b] > 0
=============================================================================
