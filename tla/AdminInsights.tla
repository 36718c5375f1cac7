--------------------------- MODULE AdminInsights ----------------------------
(***************************************************************************)
(* QueryInsights of the Operate page (screens/Operate.tsx): the rankings,   *)
(* loaded at once and then every minute, whether or not the last load has   *)
(* ended. The server keeps what it collected for a minute.                  *)
(***************************************************************************)
EXTENDS Naturals

CONSTANTS Load,     \* loads under way together
          MaxWorld  \* changes of the rankings

NoData == 0

VARIABLES
    rankings, \* as they are
    loads,    \* each load: idle, asked, or answered with rankings
    data,     \* on the page
    loadErr   \* err, shown above them

vars == <<rankings, loads, data, loadErr>>

IdleLoad == [at |-> "idle", data |-> NoData]
AskedLoad == [at |-> "asked", data |-> NoData]

\* The effect loads at once.
Init ==
    /\ rankings = 1 /\ data = NoData /\ loadErr = FALSE
    /\ loads = [[l \in Load |-> IdleLoad] EXCEPT ![CHOOSE l \in Load : TRUE] = AskedLoad]

RankingsChange ==
    /\ rankings <= MaxWorld
    /\ rankings' = rankings + 1
    /\ UNCHANGED <<loads, data, loadErr>>

\* What was collected now or at most a minute ago.
GetDnsInsights(l) ==
    /\ loads[l] = AskedLoad
    /\ \E d \in 1..rankings : loads' = [loads EXCEPT ![l] = [at |-> "answered", data |-> d]]
    /\ UNCHANGED <<rankings, data, loadErr>>

\* The interval.
Reload(l) ==
    /\ loads[l] = IdleLoad
    /\ loads' = [loads EXCEPT ![l] = AskedLoad]
    /\ UNCHANGED <<rankings, data, loadErr>>

\* The answers come in any order.
Loaded(l) ==
    /\ loads[l].at = "answered"
    /\ loads' = [loads EXCEPT ![l] = IdleLoad]
    /\ data' = loads[l].data /\ loadErr' = FALSE
    /\ UNCHANGED rankings

\* The rankings stay, under the error.
NotLoaded(l) ==
    /\ loads[l] # IdleLoad
    /\ loads' = [loads EXCEPT ![l] = IdleLoad]
    /\ loadErr' = TRUE
    /\ UNCHANGED <<rankings, data>>

Next ==
    \/ RankingsChange
    \/ \E l \in Load : GetDnsInsights(l) \/ Reload(l) \/ Loaded(l) \/ NotLoaded(l)

Spec == Init /\ [][Next]_vars

-----------------------------------------------------------------------------
(* Properties *)

\* "loading query insights" is shown while a load is under way.
WorkIsUnderWay == data = NoData /\ ~loadErr => \E l \in Load : loads[l] # IdleLoad
=============================================================================
