---------------------------- MODULE AdminAlerts -----------------------------
(***************************************************************************)
(* The alert channels of the Configure page (screens/Configure.tsx): a list *)
(* whose switches are answered with the whole list, one "pending" for all   *)
(* of them, and the test alert. The server sets a channel and reads the     *)
(* list under the lock of .env; other sessions set channels too.            *)
(***************************************************************************)
EXTENDS Naturals, FiniteSets

CONSTANTS Channel,
          Configured,  \* the channels whose keys are in .env
          MaxRequests, \* requests of the page under way together
          MaxTimers    \* timers of the test button running together

VARIABLES
    enabled,       \* the channels that are on
    channels,      \* the list on the page, "unknown" until there is one
    alertsFailed,  \* err, shown instead of the list
    alertsLoading, \* loading
    pending,       \* the row that says it is pending
    toggles,       \* requests under way, the first list among them
    test,          \* state of the test button
    testing,       \* test alerts under way
    testTimers     \* timers that will make the button idle

list == <<channels, alertsFailed, alertsLoading, pending, toggles>>
tests == <<test, testing, testTimers>>
vars == <<enabled, list, tests>>

NoChannel == "no channel"
Unknown == [c \in Channel |-> "unknown"]
Request(c, to) == [channel |-> c, to |-> to, answer |-> Unknown]
First == Request(NoChannel, "unknown")
IsServed(r) == r.answer # Unknown
Switched(state) == IF state = "on" THEN "off" ELSE "on"

Init ==
    /\ enabled = [c \in Channel |-> IF c \in Configured THEN "on" ELSE "off"]
    /\ channels = Unknown /\ alertsFailed = FALSE /\ alertsLoading = TRUE
    /\ pending = NoChannel /\ toggles = {First}
    /\ test = "idle" /\ testing = 0 /\ testTimers = 0

-----------------------------------------------------------------------------
(* The server. A request that it refuses or rolls back changes nothing.     *)

OthersSet(c) ==
    /\ enabled' = [enabled EXCEPT ![c] = Switched(@)]
    /\ UNCHANGED <<list, tests>>

SetNotificationChannel(r) ==
    /\ ~IsServed(r)
    /\ enabled' = [c \in Channel |-> IF c = r.channel THEN r.to ELSE enabled[c]]
    /\ toggles' = (toggles \ {r}) \cup {[r EXCEPT !.answer = enabled']}
    /\ UNCHANGED <<channels, alertsFailed, alertsLoading, pending, tests>>

-----------------------------------------------------------------------------
(* The list.                                                                *)

\* Bound: a switch is not pressed again for a request like one that is under way.
Toggle(c) ==
    /\ channels # Unknown /\ ~alertsFailed
    /\ c \in Configured /\ pending # c
    /\ LET r == Request(c, Switched(channels[c])) IN
         /\ Cardinality(toggles) < MaxRequests /\ r \notin toggles
         /\ toggles' = toggles \cup {r}
    /\ pending' = c
    /\ UNCHANGED <<enabled, channels, alertsFailed, alertsLoading, tests>>

\* The end of load or of toggle; no row is pending after the end of any toggle.
Over(r) ==
    /\ toggles' = toggles \ {r}
    /\ IF r.channel = NoChannel THEN alertsLoading' = FALSE /\ UNCHANGED pending
                                ELSE pending' = NoChannel /\ UNCHANGED alertsLoading
    /\ UNCHANGED <<enabled, tests>>

\* The header says "loading" as long as there is no list.
SaysLoading == channels = Unknown

\* The list of the answer, whatever came since the server read it.
Answered(r) ==
    /\ IsServed(r)
    /\ channels' = r.answer /\ alertsFailed' = FALSE
    /\ Over(r)

\* Refused, or the answer was lost. Without the list no switch is left to press.
NotAnswered(r) ==
    /\ alertsFailed' = TRUE /\ UNCHANGED channels
    /\ Over(r)

-----------------------------------------------------------------------------
(* The test alert.                                                          *)

HandleTest ==
    /\ test # "running" /\ \E c \in Channel : channels[c] = "on"
    /\ testing < MaxRequests /\ testing + testTimers < MaxTimers
    /\ test' = "running" /\ testing' = testing + 1
    /\ UNCHANGED <<enabled, list, testTimers>>

\* Sent or not, a timer is set that nothing cancels.
TestEnds ==
    /\ testing > 0
    /\ test' = "done" /\ testing' = testing - 1 /\ testTimers' = testTimers + 1
    /\ UNCHANGED <<enabled, list>>

TestTimer ==
    /\ testTimers > 0
    /\ test' = "idle" /\ testTimers' = testTimers - 1
    /\ UNCHANGED <<enabled, list, testing>>

Next ==
    \/ \E c \in Configured : OthersSet(c) \/ Toggle(c)
    \/ \E r \in toggles : SetNotificationChannel(r) \/ Answered(r) \/ NotAnswered(r)
    \/ HandleTest \/ TestEnds \/ TestTimer

Spec == Init /\ [][Next]_vars

-----------------------------------------------------------------------------
(* Properties *)

\* What says that it works has a request under way, though rows share one pending
\* and timers of earlier tests come late. After a load that failed the header goes on
\* to say "loading" above the error, with none.
WorkIsUnderWay ==
    /\ pending # NoChannel => \E r \in toggles : r.channel = pending
    /\ alertsLoading => \E r \in toggles : r.channel = NoChannel
    /\ SaysLoading => alertsLoading \/ alertsFailed
    /\ test = "running" => testing > 0
=============================================================================
