--------------------------- MODULE SnapshotCache ---------------------------
(***************************************************************************)
(* The cached system snapshot of the backup-manager: build_snapshot and the *)
(* operations that drop the cache (monitoring/backup-manager/server.py).    *)
(*                                                                         *)
(* Every screen of the admin UI polls GET /api/system/snapshot.  A snapshot *)
(* is put together from parts that are read one after the other (the planes, *)
(* the containers, Tor, ..., the leak test), while each of them may change.  *)
(* It is kept for TTL.  POST /api/tor/rotate, /api/tor/rotate-plane and      *)
(* /api/leak-test/run change a part and drop the kept snapshot.              *)
(* build_snapshot(force=True) has no caller and is left out.                 *)
(***************************************************************************)
EXTENDS Integers

CONSTANTS
    Reader,       \* threads that answer a GET
    Operator,     \* threads that answer a POST
    Parts,        \* the parts of a snapshot are read in the order 1..Parts
    TTL,          \* SNAPSHOT_CACHE_TTL_S
    None,
    MaxTime,      \* bound: time
    MaxChanges    \* bound: changes of a part

VARIABLES
    clock,        \* time.monotonic()
    truth,        \* how often each part has changed
    cache,        \* _SNAPSHOT_CACHE: a snapshot and when it expires
    computing,    \* the owner of _SNAPSHOT_COMPUTE_LOCK
    pc,           \* where each reader is
    work,         \* the snapshot each reader computes, or answers with
    acted,        \* the operators that have acted and not dropped the cache yet
    asked,        \* history: the clock, epoch and promise at each reader's request
    epoch,        \* history: how often the cache was dropped
    promise,      \* history: the changes whose operation has been answered
    last          \* history: the last snapshot stored

cacheVars   == <<cache, computing>>
historyVars == <<asked, epoch, promise, last>>
vars == <<clock, truth, cacheVars, pc, work, acted, historyVars>>

Part     == 1..Parts
Versions == [Part -> 0..MaxChanges]

\* The parts read so far, and the clock and epoch when it was stored.
Snapshot == [parts : Versions, read : 0..Parts, at : 0..MaxTime, epoch : Nat]

ASSUME SnapshotAssumption ==
    /\ Parts \in Nat \ {0}
    /\ TTL \in Nat \ {0}
    /\ MaxTime \in Nat
    /\ MaxChanges \in Nat
    /\ None \notin Reader
    /\ None \notin Snapshot

TypeOK ==
    /\ clock \in 0..MaxTime
    /\ truth \in Versions
    /\ cache \in [data : Snapshot \cup {None}, expires : 0..(MaxTime + TTL)]
    /\ computing \in Reader \cup {None}
    /\ pc \in [Reader -> {"idle", "look", "wait", "recheck", "read", "store", "done"}]
    /\ work \in [Reader -> Snapshot \cup {None}]
    /\ acted \in [Operator -> Part \cup {0}]
    /\ asked \in [Reader -> [at : 0..MaxTime, epoch : Nat, promise : Versions]]
    /\ epoch \in Nat
    /\ promise \in Versions
    /\ last \in Snapshot \cup {None}

Nothing  == [p \in Part |-> 0]
Reading(parts, n) == [parts |-> parts, read |-> n, at |-> 0, epoch |-> 0]
NotAsked == [at |-> 0, epoch |-> 0, promise |-> Nothing]

Init ==
    /\ clock = 0
    /\ truth = Nothing
    /\ cache = [data |-> None, expires |-> 0]
    /\ computing = None
    /\ pc = [r \in Reader |-> "idle"]
    /\ work = [r \in Reader |-> None]
    /\ acted = [o \in Operator |-> 0]
    /\ asked = [r \in Reader |-> NotAsked]
    /\ epoch = 0
    /\ promise = Nothing
    /\ last = None

Goto(r, l) == pc' = [pc EXCEPT ![r] = l]

\* The thread ends.
Forget(r) == /\ Goto(r, "idle")
             /\ work' = [work EXCEPT ![r] = None]
             /\ asked' = [asked EXCEPT ![r] = NotAsked]

Usable == cache.data # None /\ cache.expires > clock

-----------------------------------------------------------------------------
(* build_snapshot *)

\* GET /api/system/snapshot.
Request(r) ==
    /\ pc[r] = "idle"
    /\ Goto(r, "look")
    /\ asked' = [asked EXCEPT ![r] = [at |-> clock, epoch |-> epoch, promise |-> promise]]
    /\ UNCHANGED <<clock, truth, cacheVars, work, acted, epoch, promise, last>>

\* Mutant: whatever is cached is good.
LookIgnoresExpiry(r) ==
    /\ pc[r] = "look"
    /\ IF cache.data # None THEN Goto(r, "done") /\ work' = [work EXCEPT ![r] = cache.data]
                            ELSE Goto(r, "wait") /\ UNCHANGED work
    /\ UNCHANGED <<clock, truth, cacheVars, acted, historyVars>>

\* Under _SNAPSHOT_CACHE_LOCK: an unexpired snapshot is the answer.
Look(r) ==
    /\ pc[r] = "look"
    /\ IF Usable THEN Goto(r, "done") /\ work' = [work EXCEPT ![r] = cache.data]
                 ELSE Goto(r, "wait") /\ UNCHANGED work
    /\ UNCHANGED <<clock, truth, cacheVars, acted, historyVars>>

\* Mutant: computations are not serialized.
AcquireAlways(r) ==
    /\ pc[r] = "wait"
    /\ computing' = r
    /\ Goto(r, "recheck")
    /\ UNCHANGED <<clock, truth, cache, work, acted, historyVars>>

Acquire(r) ==
    /\ pc[r] = "wait"
    /\ computing = None
    /\ computing' = r
    /\ Goto(r, "recheck")
    /\ UNCHANGED <<clock, truth, cache, work, acted, historyVars>>

StartReading(r) ==
    /\ Goto(r, "read")
    /\ work' = [work EXCEPT ![r] = Reading(Nothing, 0)]
    /\ UNCHANGED computing

\* Mutant: the cache is not looked at again after the wait.
RecheckNothing(r) ==
    /\ pc[r] = "recheck"
    /\ StartReading(r)
    /\ UNCHANGED <<clock, truth, cache, acted, historyVars>>

\* Another reader may have stored a snapshot while this one waited.
Recheck(r) ==
    /\ pc[r] = "recheck"
    /\ \/ /\ Usable
          /\ computing' = None
          /\ Goto(r, "done")
          /\ work' = [work EXCEPT ![r] = cache.data]
       \/ ~Usable /\ StartReading(r)
    /\ UNCHANGED <<clock, truth, cache, acted, historyVars>>

\* _compute_snapshot reads the next part.
ReadPart(r) ==
    /\ pc[r] = "read"
    /\ LET p == work[r].read + 1 IN
       /\ work' = [work EXCEPT ![r] = Reading([work[r].parts EXCEPT ![p] = truth[p]], p)]
       /\ Goto(r, IF p = Parts THEN "store" ELSE "read")
    /\ UNCHANGED <<clock, truth, cacheVars, acted, historyVars>>

\* Mutant: the compute lock is not given back after an exception.
ReadFailsKeepsLock(r) ==
    /\ pc[r] = "read"
    /\ Forget(r)
    /\ UNCHANGED <<clock, truth, cacheVars, acted, epoch, promise, last>>

\* An exception leaves the compute lock and ends the request.
ReadFails(r) ==
    /\ pc[r] = "read"
    /\ computing' = None
    /\ Forget(r)
    /\ UNCHANGED <<clock, truth, cache, acted, epoch, promise, last>>

\* The snapshot expires TTL after it is stored, however long it took to compute.
Store(r) ==
    /\ pc[r] = "store"
    /\ LET stored == [parts |-> work[r].parts, read |-> Parts, at |-> clock, epoch |-> epoch] IN
       /\ cache' = [data |-> stored, expires |-> clock + TTL]
       /\ work' = [work EXCEPT ![r] = stored]
       /\ last' = stored
    /\ computing' = None
    /\ Goto(r, "done")
    /\ UNCHANGED <<clock, truth, acted, asked, epoch, promise>>

Answer(r) ==
    /\ pc[r] = "done"
    /\ Forget(r)
    /\ UNCHANGED <<clock, truth, cacheVars, acted, epoch, promise, last>>

-----------------------------------------------------------------------------
(* Changes *)

Change(p) ==
    /\ truth[p] < MaxChanges
    /\ truth' = [truth EXCEPT ![p] = @ + 1]

\* A container stops, a circuit is built, the scheduled leak test is stored: the
\* cache stays.
ChangeUnseen(p) ==
    /\ Change(p)
    /\ UNCHANGED <<clock, cacheVars, pc, work, acted, historyVars>>

\* tor_rotate_identity, tor_rotate_plane or store_leak_test_result.
Act(o, p) ==
    /\ acted[o] = 0
    /\ Change(p)
    /\ acted' = [acted EXCEPT ![o] = p]
    /\ UNCHANGED <<clock, cacheVars, pc, work, historyVars>>

Dropped(p) == /\ epoch' = epoch + 1
              /\ promise' = [promise EXCEPT ![p] = truth[p]]

\* Mutant: the operation is answered and the cache kept.
DropCacheForgotten(o) ==
    /\ acted[o] # 0
    /\ acted' = [acted EXCEPT ![o] = 0]
    /\ Dropped(acted[o])
    /\ UNCHANGED <<clock, truth, cacheVars, pc, work, asked, last>>

\* The cache is dropped under _SNAPSHOT_CACHE_LOCK and the POST answered.
DropCache(o) ==
    /\ acted[o] # 0
    /\ acted' = [acted EXCEPT ![o] = 0]
    /\ cache' = [data |-> None, expires |-> 0]
    /\ Dropped(acted[o])
    /\ UNCHANGED <<clock, truth, computing, pc, work, asked, last>>

Tick ==
    /\ clock < MaxTime
    /\ clock' = clock + 1
    /\ UNCHANGED <<truth, cacheVars, pc, work, acted, historyVars>>

-----------------------------------------------------------------------------
Compute(r) == Recheck(r) \/ ReadPart(r) \/ ReadFails(r) \/ Store(r)
Serve(r)   == Look(r) \/ Acquire(r) \/ Compute(r) \/ Answer(r)

Next ==
    \/ \E r \in Reader : Request(r) \/ Serve(r)
    \/ \E p \in Part : ChangeUnseen(p)
    \/ \E o \in Operator, p \in Part : Act(o, p)
    \/ \E o \in Operator : DropCache(o)
    \/ Tick

Spec == Init /\ [][Next]_vars

\* A thread that can go on does.  The compute lock is not fair: a reader gets it
\* because, again and again, it is free while the reader waits.
FairSpec == Spec /\ \A r \in Reader : WF_vars(Look(r) \/ Compute(r) \/ Answer(r))
                                      /\ SF_vars(Acquire(r))

-----------------------------------------------------------------------------
(* Properties *)

Answered(r) == pc[r] = "done"

\* An answer was stored less than TTL before the request arrived, or after it.
BoundedStaleness == \A r \in Reader : Answered(r) => work[r].at + TTL > asked[r].at

\* A request that arrives after the cache was dropped is never answered with a
\* snapshot stored before that.
DroppedIsNotServed ==
    \A r \in Reader : Answered(r) => work[r].epoch >= asked[r].epoch

\* The stored snapshots only move forward: a slow computation never replaces a
\* newer one.
CacheNeverGoesBack ==
    [][last' # last /\ last # None =>
         \A p \in Part : last'.parts[p] >= last.parts[p]]_vars

\* The services behind a snapshot are asked once for all the readers that wait:
\* a computation begins when none was stored less than TTL ago, or when the cache
\* has been dropped since.
HerdComputesOnce ==
    [][\A r \in Reader : pc[r] # "read" /\ pc'[r] = "read" =>
         last = None \/ last.at + TTL <= clock \/ last.epoch < epoch]_vars

\* Every request is answered or fails.
EveryRequestEnds == \A r \in Reader : pc[r] = "look" ~> pc[r] = "idle"

\* The inductive invariant of SnapshotCacheProofs.
Computing(r) == pc[r] \in {"recheck", "read", "store"}

OwnerComputes == \A r \in Reader : Computing(r) => computing = r

\* What is cached is the last snapshot stored, and was not dropped since.
CacheIsLast ==
    IF cache.data = None
    THEN last = None \/ last.epoch < epoch
    ELSE cache.data = last /\ cache.expires = last.at + TTL /\ last.epoch = epoch

LastIsPast ==
    last # None => last.epoch <= epoch /\ \A p \in Part : last.parts[p] <= truth[p]

\* The parts read so far are no older than the last snapshot stored.
WorkIsNewer ==
    \A r \in Reader :
        /\ pc[r] = "read"  => work[r] # None /\ work[r].read < Parts
        /\ pc[r] = "store" => work[r] # None /\ work[r].read = Parts
        /\ pc[r] = "done"  => work[r] # None
        /\ pc[r] \in {"read", "store"} =>
              \A p \in Part : p <= work[r].read =>
                  /\ work[r].parts[p] <= truth[p]
                  /\ last # None => last.parts[p] <= work[r].parts[p]

AskedIsPast == \A r \in Reader : asked[r].at <= clock /\ asked[r].epoch <= epoch

IndInv == /\ TypeOK /\ OwnerComputes /\ CacheIsLast /\ LastIsPast /\ WorkIsNewer
          /\ AskedIsPast /\ BoundedStaleness /\ DroppedIsNotServed

\* "Invalidate the snapshot cache so the next /api/system/snapshot call sees the
\* post-rotation state immediately" (server.py:3406).
NextSnapshotSeesOperation ==
    \A r \in Reader : Answered(r) =>
        \A p \in Part : work[r].parts[p] >= asked[r].promise[p]
=============================================================================
