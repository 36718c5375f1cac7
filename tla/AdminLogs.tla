----------------------------- MODULE AdminLogs ------------------------------
(***************************************************************************)
(* components/LogPane.tsx and the stream behind it (_stream_container_logs  *)
(* of server.py): the pane of the Operate page, one for every container. A  *)
(* line is the container that wrote it.                                     *)
(***************************************************************************)
EXTENDS Naturals, Sequences

CONSTANTS Container, \* of the service catalogue
          MaxLines,  \* the buffer
          MaxWire    \* lines sent that have not arrived

NoContainer == "no container"

VARIABLES
    containerName, \* containerName, NoContainer while the pane is closed
    logStatus,     \* "connecting", "open" or "closed"
    source,        \* what the connection streams, NoContainer without one
    wire,          \* lines sent that have not arrived
    lines,         \* the buffer
    logPaused, frozen

vars == <<containerName, logStatus, source, wire, lines, logPaused, frozen>>

Init ==
    /\ containerName = NoContainer /\ logStatus = "connecting"
    /\ source = NoContainer /\ wire = <<>>
    /\ lines = <<>> /\ logPaused = FALSE /\ frozen = <<>>

\* The pane shows the buffer unless it is paused.
Mirrors(new, stopped) == lines' = new /\ frozen' = IF stopped THEN frozen ELSE new

\* A row of the table, which stays usable beside and behind the pane: of a closed one
\* or of one that shows another container. The pause stays as it is.
OpenLogs(c) ==
    /\ containerName # c
    /\ containerName' = c /\ logStatus' = "connecting"
    /\ source' = NoContainer /\ wire' = <<>>
    /\ Mirrors(<<>>, logPaused)
    /\ UNCHANGED logPaused

\* Mutant: a closed pane stays paused.
ClosePaused ==
    /\ containerName # NoContainer
    /\ containerName' = NoContainer /\ logStatus' = "connecting"
    /\ source' = NoContainer /\ wire' = <<>>
    /\ UNCHANGED logPaused
    /\ Mirrors(<<>>, logPaused)

\* Escape, the backdrop or the button. The stream is closed with what it has sent.
Close ==
    /\ containerName # NoContainer
    /\ containerName' = NoContainer /\ logStatus' = "connecting"
    /\ source' = NoContainer /\ wire' = <<>>
    /\ logPaused' = FALSE
    /\ Mirrors(<<>>, FALSE)

\* The first connection and every one that EventSource makes again.
Connect ==
    /\ containerName # NoContainer /\ source = NoContainer
    /\ source' = containerName /\ logStatus' = "open"
    /\ UNCHANGED <<containerName, wire, lines, logPaused, frozen>>

\* docker logs -f: the last lines of the container and then the new ones.
Sends ==
    /\ source # NoContainer /\ Len(wire) < MaxWire
    /\ wire' = Append(wire, source)
    /\ UNCHANGED <<containerName, logStatus, source, lines, logPaused, frozen>>

\* The container stopped, or the connection is lost or cannot be made.
Lost ==
    /\ containerName # NoContainer /\ logStatus # "closed"
    /\ source' = NoContainer /\ wire' = <<>> /\ logStatus' = "closed"
    /\ UNCHANGED <<containerName, lines, logPaused, frozen>>

\* onmessage; nothing tells a line that came before from a new one.
Message ==
    /\ wire # <<>>
    /\ LET next == Append(lines, Head(wire)) IN
         Mirrors(IF Len(next) > MaxLines THEN Tail(next) ELSE next, logPaused)
    /\ wire' = Tail(wire)
    /\ UNCHANGED <<containerName, logStatus, source, logPaused>>

Clear ==
    /\ containerName # NoContainer /\ lines # <<>>
    /\ Mirrors(<<>>, logPaused)
    /\ UNCHANGED <<containerName, logStatus, source, wire, logPaused>>

Pause ==
    /\ containerName # NoContainer
    /\ logPaused' = ~logPaused
    /\ Mirrors(lines, ~logPaused)
    /\ UNCHANGED <<containerName, logStatus, source, wire>>

Next ==
    \/ \E c \in Container : OpenLogs(c)
    \/ Close \/ Connect \/ Sends \/ Lost \/ Message \/ Clear \/ Pause

Spec == Init /\ [][Next]_vars

-----------------------------------------------------------------------------
(* Properties *)

\* A pane that runs shows the lines of the container in its title only, although it
\* outlives its use for another one, and with it the buffer and the pause. One that is
\* paused may show what was frozen under an earlier title, when the container was
\* switched meanwhile, but never lines of two containers; and the buffer, which is
\* shown when it goes on, is of its title. A pane that was closed forgets all of it.
LogIsOfContainer ==
    /\ \A i \in DOMAIN lines : lines[i] = containerName
    /\ ~logPaused \/ containerName = NoContainer => frozen = lines
    /\ \A i, j \in DOMAIN frozen : frozen[i] = frozen[j]
=============================================================================
