---------------------------- MODULE AdminVerdict ----------------------------
(***************************************************************************)
(* What the overview (screens/Glance.tsx) and the privacy page              *)
(* (screens/Privacy.tsx) say of the privacy path, from the evidence that    *)
(* the server looks at piece by piece (_build_snapshot_uncached and         *)
(* build_tor_assurance of server.py) while Tor, the planes and the          *)
(* configuration change. The status of the Tor container is collected, too: *)
(* it is shown, but is no evidence.                                         *)
(***************************************************************************)
EXTENDS Naturals, Sequences

CONSTANTS Planes,    \* the planes, in the order they are asked
          MaxChanges \* changes of the evidence

VARIABLES
    facts,   \* what is looked at, as it is
    changes, \* how often it changed
    found,   \* what this collection has found
    looked,  \* how much it has looked at
    met,     \* Ghost: the evidence healthy at some time of this collection
    verdict  \* the snapshot on the page: what was found, and its "met"

vars == <<facts, changes, found, looked, met, verdict>>

Status == {"healthy", "degraded", "offline"}
Assurance == <<"bootstrap", "isolation", "identities", "network_path">>
Containers == <<"tor">>
Looks == Planes \o Containers \o Assurance
Elements(s) == {s[i] : i \in DOMAIN s}
Evidence == Elements(Planes) \cup Elements(Assurance)
Unknown == [e \in Elements(Looks) |-> "unknown"]

\* Without a container there is no bootstrap, whatever its log says; one that is
\* degraded does not matter.
Seen(f, e) == IF e = "bootstrap" /\ f["tor"] = "offline" THEN "offline" ELSE f[e]
Healthy(f) == {e \in Evidence : Seen(f, e) = "healthy"}

Init ==
    /\ facts = [e \in Elements(Looks) |-> "healthy"] /\ changes = 0
    /\ found = Unknown /\ looked = 0 /\ met = Evidence
    /\ verdict = [found |-> Unknown, met |-> {}]

-----------------------------------------------------------------------------
(* The server's verdicts on what was found.                                 *)

Combined(f, signals) ==
    IF \A e \in signals : f[e] = "healthy" THEN "healthy"
    ELSE IF \E e \in signals : f[e] = "offline" THEN "offline" ELSE "degraded"

\* Mutant: the identities of the planes are left out.
PrivacyIntactOfAnyone(f) ==
    Planes # <<>> /\ \A e \in Evidence \ {"identities"} : f[e] = "healthy"

PrivacyIntact(f) == Planes # <<>> /\ \A e \in Evidence : f[e] = "healthy"

-----------------------------------------------------------------------------
(* What the pages make of them.                                             *)

TorTile(f) == Combined(f, Elements(Assurance))
TorUp(f) == TorTile(f) = "healthy"
PlaneRow(f, p) == IF TorUp(f) \/ f[p] = "offline" THEN f[p] ELSE "degraded"
DnsCheck(f) == IF TorUp(f) THEN Combined(f, Elements(Planes)) ELSE "degraded"

\* The tiles, rows and checks that bear a status of the path. The exit tile and the
\* configuration check are of an earlier test, which the verdict leaves out.
GlanceTiles(f) == {TorTile(f), DnsCheck(f), f["bootstrap"]} \cup {PlaneRow(f, p) : p \in Elements(Planes)}
PrivacyTiles(f) == [bootstrap |-> f["bootstrap"], isolation |-> f["isolation"], uptime |-> f["tor"]]

-----------------------------------------------------------------------------
Change(e, s) ==
    /\ changes < MaxChanges /\ facts[e] # s
    /\ facts' = [facts EXCEPT ![e] = s]
    /\ changes' = changes + 1
    /\ met' = met \cup Healthy(facts')
    /\ UNCHANGED <<found, looked, verdict>>

Look ==
    /\ looked < Len(Looks)
    /\ looked' = looked + 1
    /\ found' = [found EXCEPT ![Looks[looked + 1]] = Seen(facts, Looks[looked + 1])]
    /\ UNCHANGED <<facts, changes, met, verdict>>

\* The snapshot is shown, and the next one begun.
Show ==
    /\ looked = Len(Looks)
    /\ verdict' = [found |-> found, met |-> met]
    /\ found' = Unknown /\ looked' = 0
    /\ met' = Healthy(facts)
    /\ UNCHANGED <<facts, changes>>

Next ==
    \/ \E e \in Elements(Looks), s \in Status : Change(e, s)
    \/ Look \/ Show

Spec == Init /\ [][Next]_vars

-----------------------------------------------------------------------------
(* Properties *)

\* "DNS routed through Tor" and "DNS path checks passed" are said when every piece
\* of evidence was healthy during the collection, though perhaps never all at once:
\* Tor's container ran while the bootstrap was looked for. They are said exactly when
\* the tile of Tor, the rows of the planes, their check and the tiles of bootstrap and
\* isolation are all healthy. (The uptime tile is not among them: it may say that Tor
\* is degraded, or offline before the bootstrap was looked for, beside the verdict.)
VerdictIsEvidenced ==
    LET f == verdict.found tiles == PrivacyTiles(f) IN
      /\ PrivacyIntact(f) => verdict.met = Evidence
      /\ PrivacyIntact(f) <=> /\ Planes # <<>>
                              /\ GlanceTiles(f) \cup {tiles.bootstrap, tiles.isolation} = {"healthy"}
=============================================================================
