----------------------------- MODULE AdminFeed ------------------------------
(***************************************************************************)
(* The live query feed: _stream_query_feed of the server (server.py),       *)
(* useQueryFeed (lib/snapshot.ts) and LiveQueryFeedPanel                    *)
(* (screens/Privacy.tsx), which is mounted while its page is shown. A query *)
(* is its place in the order in which the planes answered queries; its key, *)
(* plane and id, says no more than that.                                    *)
(***************************************************************************)
EXTENDS Naturals, Sequences, SequencesExt, FiniteSetsExt

CONSTANTS Plane,
          MaxQueries, \* queries answered
          Batch,      \* queries of a plane the server asks for
          MaxSize     \* the ring

VARIABLES
    queries,             \* the plane of each query, in order
    feedActive,          \* the page is shown, and the panel mounted
    feedStatus,          \* "connecting", "open" or "closed"
    stream,              \* a connection: what was sent and has not arrived, and last_seen
    events,              \* the ring
    feedPaused, snapshot \* of the panel

vars == <<queries, feedActive, feedStatus, stream, events, feedPaused, snapshot>>

NoStream == [up |-> FALSE, wire |-> <<>>, seen |-> [p \in Plane |-> 0]]

\* _fetch_pihole_queries: the last queries of a plane, the ones after "seen".
Latest(plane, seen) ==
    {i \in DOMAIN queries :
        /\ queries[i] = plane /\ i > seen
        /\ Cardinality({j \in DOMAIN queries : queries[j] = plane /\ j > i}) < Batch}

InOrder(ids) == SetToSortSeq(ids, <)

Init ==
    /\ queries = <<>> /\ feedActive = FALSE /\ feedStatus = "closed" /\ stream = NoStream
    /\ events = <<>> /\ feedPaused = FALSE /\ snapshot = <<>>

-----------------------------------------------------------------------------
(* The server.                                                              *)

Query(plane) ==
    /\ Len(queries) < MaxQueries
    /\ queries' = Append(queries, plane)
    /\ UNCHANGED <<feedActive, feedStatus, stream, events, feedPaused, snapshot>>

\* A new connection: the dump of some planes (one may not answer), in time's order.
Connect ==
    /\ feedActive /\ ~stream.up
    /\ \E planes \in SUBSET Plane :
         stream' = [up |-> TRUE,
                    wire |-> InOrder(UNION {Latest(p, 0) : p \in planes}),
                    seen |-> [p \in Plane |-> IF p \in planes THEN Max(Latest(p, 0) \cup {0}) ELSE 0]]
    /\ feedStatus' = "open"
    /\ UNCHANGED <<queries, feedActive, events, feedPaused, snapshot>>

\* One plane's turn in the live tail.
LiveTail(plane) ==
    LET new == Latest(plane, stream.seen[plane]) IN
    /\ stream.up /\ new # {}
    /\ stream' = [stream EXCEPT !.wire = @ \o InOrder(new), !.seen[plane] = Max(new)]
    /\ UNCHANGED <<queries, feedActive, feedStatus, events, feedPaused, snapshot>>

-----------------------------------------------------------------------------
(* The page.                                                                *)

Activate ==
    /\ ~feedActive
    /\ feedActive' = TRUE /\ feedStatus' = "connecting"
    /\ UNCHANGED <<queries, stream, events, feedPaused, snapshot>>

\* Another page: the stream is closed, and the ring goes with the panel.
Deactivate ==
    /\ feedActive
    /\ feedActive' = FALSE /\ feedStatus' = "closed" /\ stream' = NoStream
    /\ events' = <<>> /\ feedPaused' = FALSE /\ snapshot' = <<>>
    /\ UNCHANGED queries

\* The connection is lost or cannot be made; EventSource tries again.
Lost ==
    /\ feedActive /\ feedStatus # "closed"
    /\ stream' = NoStream /\ feedStatus' = "closed"
    /\ UNCHANGED <<queries, feedActive, events, feedPaused, snapshot>>

Ring(s) == SubSeq(s, Max({1, Len(s) - MaxSize + 1}), Len(s))

\* Mutant: the dump is appended without looking.
AppendedBlindly(event) == Ring(Append(events, event))

\* onmessage: a query that is in the ring already is dropped.
Appended(event) == IF Contains(events, event) THEN events ELSE Ring(Append(events, event))

\* The panel mirrors the ring unless it is paused.
Mirrors(new) == events' = new /\ snapshot' = IF feedPaused THEN snapshot ELSE new

Message ==
    /\ stream.wire # <<>>
    /\ Mirrors(Appended(Head(stream.wire)))
    /\ stream' = [stream EXCEPT !.wire = Tail(@)]
    /\ UNCHANGED <<queries, feedActive, feedStatus, feedPaused>>

Clear ==
    /\ feedActive /\ events # <<>>
    /\ Mirrors(<<>>)
    /\ UNCHANGED <<queries, feedActive, feedStatus, stream, feedPaused>>

Pause ==
    /\ feedActive
    /\ feedPaused' = ~feedPaused
    /\ snapshot' = IF feedPaused THEN events ELSE snapshot
    /\ UNCHANGED <<queries, feedActive, feedStatus, stream, events>>

Next ==
    \/ \E plane \in Plane : Query(plane) \/ LiveTail(plane)
    \/ Connect \/ Activate \/ Deactivate \/ Lost \/ Message \/ Clear \/ Pause

Spec == Init /\ [][Next]_vars

-----------------------------------------------------------------------------
(* Properties *)

\* No query is twice in the ring or on the screen, although every connection sends
\* again what an earlier one has sent: the rows have the key of the query.
FeedHasNoDuplicates == IsInjective(events) /\ IsInjective(snapshot)
=============================================================================
