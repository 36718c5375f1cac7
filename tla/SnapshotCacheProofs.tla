------------------------ MODULE SnapshotCacheProofs ------------------------
(***************************************************************************)
(* Proofs about SnapshotCache, for any number of readers, operators and    *)
(* parts and any TTL: IndInv is inductive and the safety properties follow. *)
(* Each of its parts is one lemma about a step.                             *)
(***************************************************************************)
EXTENDS SnapshotCache, TLAPS

LEMMA Bounds == Parts \in Nat /\ Parts >= 1 /\ TTL \in Nat /\ TTL > 0 /\ MaxTime \in Nat
  BY SnapshotAssumption

LEMMA Below ==
  ASSUME NEW a \in Nat, NEW b \in Nat
  PROVE  /\ (a <= b + 1 /\ a # b + 1) => a <= b
         /\ a <= b => ((a < b /\ a # b) \/ a = b)
  OBVIOUS

LEMMA Fields ==
  ASSUME NEW s \in Snapshot
  PROVE  /\ s.parts \in Versions /\ s.read \in Nat /\ s.read <= Parts
         /\ s.at \in 0..MaxTime /\ s.epoch \in Nat /\ s # None
  BY Bounds, SnapshotAssumption DEF Snapshot

LEMMA ReadingType ==
  ASSUME NEW v \in Versions, NEW n \in Nat, n <= Parts
  PROVE  /\ Reading(v, n) \in Snapshot /\ Reading(v, n) # None
         /\ Reading(v, n).parts = v /\ Reading(v, n).read = n
<1>1. n \in 0..Parts /\ 0 \in 0..MaxTime
  BY Bounds
<1>2. Reading(v, n) \in Snapshot
  BY <1>1 DEF Reading, Snapshot
<1>. QED  BY <1>2, Fields DEF Reading

LEMMA VersionsType ==
    /\ Nothing \in Versions
    /\ NotAsked \in [at : 0..MaxTime, epoch : Nat, promise : Versions]
    /\ \A v \in Versions, p \in Part, n \in 0..MaxChanges : [v EXCEPT ![p] = n] \in Versions
  BY SnapshotAssumption DEF Nothing, NotAsked, Versions

\* What a reader stores.
Stored(r) == [parts |-> work[r].parts, read |-> Parts, at |-> clock, epoch |-> epoch]

LEMMA StoredType ==
  ASSUME TypeOK, WorkIsNewer, NEW r \in Reader, Store(r)
  PROVE  Stored(r) \in Snapshot /\ Stored(r) # None
<1>1. work[r] \in Snapshot
  BY DEF TypeOK, Store, WorkIsNewer
<1>2. work[r].parts \in Versions /\ Parts \in 0..Parts
  BY <1>1, Fields, Bounds
<1>3. Stored(r) \in Snapshot
  BY <1>2 DEF Stored, Snapshot, TypeOK
<1>. QED  BY <1>3, Fields

LEMMA TypeStep ==
  ASSUME TypeOK, WorkIsNewer, [Next]_vars
  PROVE  TypeOK'
<1>. USE SnapshotAssumption DEF TypeOK, cacheVars, historyVars
<1>1. ASSUME NEW r \in Reader, Request(r) PROVE TypeOK'
  BY <1>1 DEF Request, Goto
<1>2. ASSUME NEW r \in Reader, Look(r) PROVE TypeOK'
  BY <1>2 DEF Look, Goto, Usable
<1>3. ASSUME NEW r \in Reader, Acquire(r) PROVE TypeOK'
  BY <1>3 DEF Acquire, Goto
<1>4. ASSUME NEW r \in Reader, Recheck(r) PROVE TypeOK'
  <2>1. Reading(Nothing, 0) \in Snapshot /\ cache.data \in Snapshot \cup {None}
    BY ReadingType, VersionsType, Bounds
  <2>2. work' \in [Reader -> Snapshot \cup {None}]
    BY <1>4, <2>1 DEF Recheck, StartReading
  <2>. QED  BY <1>4, <2>2 DEF Recheck, Goto, StartReading
<1>5. ASSUME NEW r \in Reader, ReadPart(r) PROVE TypeOK'
  <2>. DEFINE p == work[r].read + 1
              parts == [work[r].parts EXCEPT ![p] = truth[p]]
  <2>1. work[r] \in Snapshot /\ p \in Part /\ p \in 0..Parts /\ truth[p] \in 0..MaxChanges
    <3>1. work[r] \in Snapshot /\ work[r].read < Parts
      BY <1>5 DEF ReadPart, WorkIsNewer
    <3>2. work[r].read \in Nat
      BY <3>1, Fields
    <3>3. p \in Part /\ p \in 0..Parts
      BY <3>1, <3>2, Bounds DEF Part
    <3>. QED  BY <3>1, <3>3 DEF Versions
  <2>2. Reading(parts, p) \in Snapshot
    <3>1. parts \in Versions
      BY <2>1, Fields, VersionsType
    <3>. QED  BY <2>1, <3>1, ReadingType, Bounds
  <2>3. work' \in [Reader -> Snapshot \cup {None}]
    BY <1>5, <2>2 DEF ReadPart
  <2>. QED  BY <1>5, <2>3 DEF ReadPart, Goto
<1>6. ASSUME NEW r \in Reader, ReadFails(r) PROVE TypeOK'
  BY <1>6, VersionsType DEF ReadFails, Forget, Goto
<1>7. ASSUME NEW r \in Reader, Store(r) PROVE TypeOK'
  <2>1. Stored(r) \in Snapshot
    BY <1>7, StoredType
  <2>2. clock + TTL \in 0..(MaxTime + TTL)
    OBVIOUS
  <2>. QED  BY <1>7, <2>1, <2>2 DEF Store, Stored, Goto
<1>8. ASSUME NEW r \in Reader, Answer(r) PROVE TypeOK'
  BY <1>8, VersionsType DEF Answer, Forget, Goto
<1>9. ASSUME NEW p \in Part, ChangeUnseen(p) PROVE TypeOK'
  BY <1>9, VersionsType DEF ChangeUnseen, Change, Versions
<1>10. ASSUME NEW o \in Operator, NEW p \in Part, Act(o, p) PROVE TypeOK'
  BY <1>10, VersionsType DEF Act, Change, Versions
<1>11. ASSUME NEW o \in Operator, DropCache(o) PROVE TypeOK'
  BY <1>11, VersionsType DEF DropCache, Dropped, Versions
<1>12. CASE Tick
  BY <1>12 DEF Tick
<1>13. CASE UNCHANGED vars
  BY <1>13 DEF vars
<1>. QED  BY <1>1, <1>2, <1>3, <1>4, <1>5, <1>6, <1>7, <1>8, <1>9, <1>10, <1>11, <1>12, <1>13
          DEF Next, Serve, Compute

LEMMA OwnerStep ==
  ASSUME TypeOK, OwnerComputes, [Next]_vars
  PROVE  OwnerComputes'
<1>. USE DEF TypeOK, OwnerComputes, Computing, cacheVars
<1>1. ASSUME NEW r \in Reader, Request(r) \/ Look(r) \/ Acquire(r) \/ Recheck(r)
      PROVE  OwnerComputes'
  BY <1>1, SnapshotAssumption DEF Request, Look, Acquire, Recheck, StartReading, Goto
<1>2. ASSUME NEW r \in Reader, ReadPart(r) \/ ReadFails(r) \/ Store(r) \/ Answer(r)
      PROVE  OwnerComputes'
  BY <1>2, SnapshotAssumption DEF ReadPart, ReadFails, Store, Answer, Forget, Goto
<1>3. ASSUME UNCHANGED <<pc, computing>> PROVE OwnerComputes'
  BY <1>3
<1>. QED  BY <1>1, <1>2, <1>3 DEF Next, Serve, Compute, ChangeUnseen, Act, DropCache, Tick, vars

\* What is cached is the last snapshot, and only the owner of the lock stores one.
LEMMA LastStep ==
  ASSUME TypeOK, TypeOK', CacheIsLast, LastIsPast, WorkIsNewer, [Next]_vars
  PROVE  CacheIsLast' /\ LastIsPast'
<1>1. ASSUME NEW r \in Reader, Store(r) PROVE CacheIsLast' /\ LastIsPast'
  <2>1. last' = Stored(r) /\ cache' = [data |-> Stored(r), expires |-> clock + TTL]
    BY <1>1 DEF Store, Stored
  <2>2. \A p \in Part : Stored(r).parts[p] <= truth[p]
    BY <1>1 DEF Store, Stored, WorkIsNewer, Part
  <2>3. Stored(r) # None /\ Stored(r).at = clock /\ Stored(r).epoch = epoch
    BY <1>1, StoredType DEF Stored
  <2>. QED  BY <1>1, <2>1, <2>2, <2>3 DEF Store, CacheIsLast, LastIsPast, TypeOK
<1>2. ASSUME NEW o \in Operator, DropCache(o) PROVE CacheIsLast' /\ LastIsPast'
  <2>1. last # None => last.epoch \in Nat
    BY Fields DEF TypeOK
  <2>. QED  BY <1>2, <2>1 DEF DropCache, Dropped, CacheIsLast, LastIsPast, TypeOK
<1>3. ASSUME NEW p \in Part, Change(p), UNCHANGED <<cache, last, epoch>>
      PROVE  CacheIsLast' /\ LastIsPast'
  <2>1. \A q \in Part : truth[q] <= truth'[q] /\ truth[q] \in Nat /\ truth'[q] \in Nat
    BY <1>3 DEF Change, TypeOK, Versions
  <2>2. last # None => last.parts \in Versions
    BY Fields DEF TypeOK
  <2>. QED  BY <1>3, <2>1, <2>2 DEF CacheIsLast, LastIsPast, Versions
<1>4. ASSUME UNCHANGED <<cache, last, epoch, truth>> PROVE CacheIsLast' /\ LastIsPast'
  BY <1>4 DEF CacheIsLast, LastIsPast
<1>. QED
  BY <1>1, <1>2, <1>3, <1>4
     DEF Next, Serve, Compute, Request, Look, Acquire, Recheck, StartReading, ReadPart, ReadFails,
         Answer, ChangeUnseen, Act, Tick, vars, cacheVars, historyVars

LEMMA WorkStep ==
  ASSUME TypeOK, OwnerComputes, LastIsPast, WorkIsNewer, [Next]_vars
  PROVE  WorkIsNewer'
<1>. USE DEF TypeOK, WorkIsNewer, cacheVars, historyVars
<1>1. ASSUME NEW r \in Reader, Request(r) \/ Acquire(r) \/ ReadFails(r) \/ Answer(r)
      PROVE  WorkIsNewer'
  BY <1>1 DEF Request, Acquire, ReadFails, Answer, Forget, Goto
<1>2. ASSUME NEW r \in Reader, Look(r) \/ (Recheck(r) /\ Usable) PROVE WorkIsNewer'
  BY <1>2 DEF Look, Recheck, StartReading, Usable, Goto
<1>3. ASSUME NEW r \in Reader, Recheck(r), ~Usable PROVE WorkIsNewer'
  <2>1. work'[r] = Reading(Nothing, 0) /\ pc'[r] = "read" /\ last' = last /\ truth' = truth
    BY <1>3 DEF Recheck, StartReading, Goto
  <2>2. Reading(Nothing, 0) # None /\ Reading(Nothing, 0).read = 0
    BY ReadingType, VersionsType, Bounds
  <2>3. \A s \in Reader : s # r => work'[s] = work[s] /\ pc'[s] = pc[s]
    BY <1>3 DEF Recheck, StartReading, Goto
  <2>4. \A p \in Part : ~(p <= 0)
    BY DEF Part
  <2>. QED  BY <2>1, <2>2, <2>3, <2>4, SnapshotAssumption
\* The next part is as old as the truth, and the last snapshot is older.
<1>4. ASSUME NEW r \in Reader, ReadPart(r) PROVE WorkIsNewer'
  <2>. DEFINE n == work[r].read + 1
              parts == [work[r].parts EXCEPT ![n] = truth[n]]
  <2>1. /\ work'[r] = Reading(parts, n) /\ last' = last /\ truth' = truth
        /\ pc'[r] = IF n = Parts THEN "store" ELSE "read"
    BY <1>4 DEF ReadPart, Goto
  <2>2. work[r] \in Snapshot /\ work[r].read < Parts
    BY <1>4 DEF ReadPart
  <2>3. n \in Part /\ n \in Nat /\ n <= Parts /\ work[r].parts \in Versions
    BY <2>2, Fields, Bounds DEF Part
  <2>4. Reading(parts, n) # None /\ Reading(parts, n).read = n /\ Reading(parts, n).parts = parts
    <3>1. truth[n] \in 0..MaxChanges
      BY <2>3 DEF Versions
    <3>2. parts \in Versions
      BY <2>3, <3>1, VersionsType
    <3>. QED  BY <2>3, <3>2, ReadingType
  <2>5. \A p \in Part : p <= n =>
           parts[p] <= truth[p] /\ (last # None => last.parts[p] <= parts[p])
    <3>1. SUFFICES ASSUME NEW p \in Part, p <= n
                   PROVE  parts[p] <= truth[p] /\ (last # None => last.parts[p] <= parts[p])
      OBVIOUS
    <3>2. CASE p = n
      BY <3>2, <2>3 DEF LastIsPast, Versions
    <3>3. CASE p # n
      <4>1. work[r].read \in Nat /\ p \in Nat
        BY <2>2, Fields DEF Part
      <4>2. p <= work[r].read
        BY <3>1, <3>3, <4>1, Below
      <4>. QED  BY <4>2, <3>3, <2>3, <1>4 DEF ReadPart, Versions
    <3>. QED  BY <3>2, <3>3
  <2>6. \A s \in Reader : s # r => work'[s] = work[s] /\ pc'[s] = pc[s]
    BY <1>4 DEF ReadPart, Goto
  <2>7. (pc'[r] = "read" /\ n < Parts) \/ (pc'[r] = "store" /\ n = Parts)
    <3>1. (n < Parts /\ n # Parts) \/ n = Parts
      BY <2>3, Bounds, Below
    <3>2. (n = Parts => pc'[r] = "store") /\ (n # Parts => pc'[r] = "read")
      BY <2>1
    <3>3. CASE n = Parts
      BY <3>2, <3>3
    <3>4. CASE n < Parts /\ n # Parts
      BY <3>2, <3>4
    <3>. QED  BY <3>1, <3>3, <3>4
  <2>8. \A s \in Reader : s = r \/ s # r
    OBVIOUS
  <2>. HIDE DEF n, parts
  <2>. QED  BY <2>1, <2>4, <2>5, <2>6, <2>7, <2>8
\* Only the owner of the compute lock has parts to compare with what it stores.
<1>5. ASSUME NEW r \in Reader, Store(r) PROVE WorkIsNewer'
  <2>1. \A s \in Reader : s # r => /\ work'[s] = work[s] /\ pc'[s] = pc[s]
                                   /\ pc[s] \notin {"read", "store"}
    BY <1>5 DEF Store, Goto, OwnerComputes, Computing
  <2>2. work'[r] = Stored(r) /\ pc'[r] = "done"
    BY <1>5 DEF Store, Stored, Goto
  <2>. QED  BY <1>5, <2>1, <2>2, StoredType
<1>6. ASSUME NEW p \in Part, Change(p), UNCHANGED <<pc, work, last>> PROVE WorkIsNewer'
  <2>1. \A q \in Part : truth[q] <= truth'[q] /\ truth[q] \in Nat /\ truth'[q] \in Nat
    BY <1>6 DEF Change, Versions
  <2>2. \A s \in Reader : work[s] # None => work[s].parts \in Versions
    BY Fields
  <2>. QED  BY <1>6, <2>1, <2>2 DEF Versions
<1>7. ASSUME UNCHANGED <<pc, work, last, truth>> PROVE WorkIsNewer'
  BY <1>7
<1>. QED
  BY <1>1, <1>2, <1>3, <1>4, <1>5, <1>6, <1>7
     DEF Next, Serve, Compute, ChangeUnseen, Act, DropCache, Tick, vars

LEMMA AskedStep ==
  ASSUME TypeOK, TypeOK', AskedIsPast, [Next]_vars
  PROVE  AskedIsPast'
<1>. USE DEF TypeOK, AskedIsPast, NotAsked, cacheVars, historyVars
<1>1. ASSUME NEW r \in Reader, Request(r) \/ ReadFails(r) \/ Answer(r) PROVE AskedIsPast'
  BY <1>1 DEF Request, ReadFails, Answer, Forget
<1>2. ASSUME NEW o \in Operator, DropCache(o) PROVE AskedIsPast'
  BY <1>2 DEF DropCache, Dropped
<1>3. CASE Tick
  BY <1>3 DEF Tick
<1>4. ASSUME UNCHANGED <<asked, clock, epoch>> PROVE AskedIsPast'
  BY <1>4
<1>. QED
  BY <1>1, <1>2, <1>3, <1>4
     DEF Next, Serve, Compute, Look, Acquire, Recheck, StartReading, ReadPart, Store,
         ChangeUnseen, Act, vars

\* An answer comes from the cache or from the reader's own computation.
LEMMA AnswerStep ==
  ASSUME TypeOK, CacheIsLast, LastIsPast, AskedIsPast, WorkIsNewer,
         BoundedStaleness, DroppedIsNotServed, [Next]_vars
  PROVE  BoundedStaleness' /\ DroppedIsNotServed'
<1>. USE DEF TypeOK, BoundedStaleness, DroppedIsNotServed, Answered, cacheVars, historyVars
<1>1. ASSUME NEW r \in Reader, Request(r) \/ Acquire(r) \/ ReadPart(r) \/ ReadFails(r) \/ Answer(r)
      PROVE  BoundedStaleness' /\ DroppedIsNotServed'
  BY <1>1 DEF Request, Acquire, ReadPart, ReadFails, Answer, Forget, Goto
<1>2. ASSUME NEW r \in Reader, Look(r) \/ Recheck(r)
      PROVE  BoundedStaleness' /\ DroppedIsNotServed'
  <2>1. Usable => /\ cache.data.epoch >= asked[r].epoch
                  /\ cache.data.at + TTL > asked[r].at
    BY Bounds, Fields DEF Usable, CacheIsLast, AskedIsPast
  <2>. QED  BY <1>2, <2>1 DEF Look, Recheck, StartReading, Goto
<1>3. ASSUME NEW r \in Reader, Store(r) PROVE BoundedStaleness' /\ DroppedIsNotServed'
  <2>1. /\ work'[r] = Stored(r) /\ asked' = asked
        /\ \A s \in Reader : s # r => work'[s] = work[s] /\ pc'[s] = pc[s]
    BY <1>3 DEF Store, Stored, Goto
  <2>2. Stored(r).epoch >= asked[r].epoch /\ Stored(r).at + TTL > asked[r].at
    BY SnapshotAssumption DEF Stored, AskedIsPast
  <2>. QED  BY <2>1, <2>2
<1>4. ASSUME UNCHANGED <<pc, work, asked>> PROVE BoundedStaleness' /\ DroppedIsNotServed'
  BY <1>4
<1>. QED
  BY <1>1, <1>2, <1>3, <1>4 DEF Next, Serve, Compute, ChangeUnseen, Act, DropCache, Tick, vars

-----------------------------------------------------------------------------
(* Theorems *)

LEMMA InitInd == Init => IndInv
<1>. SUFFICES ASSUME Init PROVE IndInv
  OBVIOUS
<1>1. TypeOK
  BY VersionsType, Bounds DEF Init, TypeOK
<1>2. OwnerComputes /\ CacheIsLast /\ LastIsPast /\ WorkIsNewer
  BY DEF Init, OwnerComputes, Computing, CacheIsLast, LastIsPast, WorkIsNewer
<1>3. AskedIsPast /\ BoundedStaleness /\ DroppedIsNotServed
  BY DEF Init, AskedIsPast, NotAsked, BoundedStaleness, DroppedIsNotServed, Answered
<1>. QED  BY <1>1, <1>2, <1>3 DEF IndInv

\* IndInv holds in every state.
LEMMA Inductive == Spec => []IndInv
<1>1. IndInv /\ [Next]_vars => IndInv'
  BY TypeStep, OwnerStep, LastStep, WorkStep, AskedStep, AnswerStep DEF IndInv
<1>. QED  BY InitInd, <1>1, PTL DEF Spec

\* The variables of the cache, its lock and its readers have their types.
THEOREM TypeCorrect == Spec => []TypeOK
<1>1. IndInv => TypeOK
  BY DEF IndInv
<1>. QED  BY Inductive, <1>1, PTL

\* build_snapshot never answers with a snapshot that was TTL old when the request
\* came, for any number of concurrent readers.
THEOREM Staleness == Spec => []BoundedStaleness
<1>1. IndInv => BoundedStaleness
  BY DEF IndInv
<1>. QED  BY Inductive, <1>1, PTL

\* No request that comes after a rotation or a leak test has dropped the cache is
\* answered with a snapshot stored before.
THEOREM DroppedStaysDropped == Spec => []DroppedIsNotServed
<1>1. IndInv => DroppedIsNotServed
  BY DEF IndInv
<1>. QED  BY Inductive, <1>1, PTL

\* _SNAPSHOT_COMPUTE_LOCK orders the stored snapshots: each is at least as new, in
\* every part, as the one before.
THEOREM Monotone == Spec => CacheNeverGoesBack
<1>1. ASSUME IndInv, [Next]_vars, last' # last, last # None
      PROVE  \A p \in Part : last'.parts[p] >= last.parts[p]
  <2>1. PICK r \in Reader : Store(r)
    BY <1>1 DEF Next, Serve, Compute, Request, Look, Acquire, Recheck, StartReading, ReadPart,
                ReadFails, Answer, ChangeUnseen, Act, DropCache, Tick, vars, historyVars
  <2>2. last' = Stored(r) /\ work[r].read = Parts
    BY <1>1, <2>1 DEF Store, Stored, IndInv, WorkIsNewer
  <2>3. \A p \in Part : last.parts[p] <= work[r].parts[p]
    BY <1>1, <2>1, <2>2 DEF Store, IndInv, WorkIsNewer, Part
  <2>4. last.parts \in Versions /\ work[r].parts \in Versions
    BY <1>1, <2>1, Fields DEF Store, IndInv, WorkIsNewer, TypeOK
  <2>. QED  BY <2>2, <2>3, <2>4 DEF Stored, Versions
<1>2. IndInv /\ [Next]_vars =>
        [last' # last /\ last # None => \A p \in Part : last'.parts[p] >= last.parts[p]]_vars
  BY <1>1
<1>. QED  BY Inductive, <1>2, PTL DEF Spec, CacheNeverGoesBack

\* The double check under the lock: readers that waited for a computation share it.
THEOREM HerdShares == Spec => HerdComputesOnce
<1>1. ASSUME IndInv, [Next]_vars, NEW r \in Reader, pc[r] # "read", pc'[r] = "read"
      PROVE  last = None \/ last.at + TTL <= clock \/ last.epoch < epoch
  <2>1. Recheck(r) /\ ~Usable
    <3>1. ASSUME NEW s \in Reader, Request(s) \/ Look(s) \/ Acquire(s) \/ ReadFails(s)
                                   \/ Store(s) \/ Answer(s)
          PROVE  FALSE
      BY <1>1, <3>1 DEF IndInv, TypeOK, Request, Look, Acquire, ReadFails, Store, Answer, Forget, Goto
    <3>2. ASSUME NEW s \in Reader, ReadPart(s) PROVE FALSE
      BY <1>1, <3>2 DEF IndInv, TypeOK, ReadPart, Goto
    <3>3. ASSUME NEW s \in Reader, Recheck(s) PROVE Recheck(r) /\ ~Usable
      BY <1>1, <3>3 DEF IndInv, TypeOK, Recheck, StartReading, Goto
    <3>4. pc' # pc
      BY <1>1
    <3>. QED
      BY <1>1, <3>1, <3>2, <3>3, <3>4
         DEF Next, Serve, Compute, ChangeUnseen, Act, DropCache, Tick, vars
  <2>2. last # None /\ cache.data # None => last.at + TTL <= clock
    BY <1>1, <2>1, Fields, Bounds DEF IndInv, TypeOK, CacheIsLast, Usable
  <2>. QED  BY <1>1, <2>2 DEF IndInv, CacheIsLast
<1>2. IndInv /\ [Next]_vars =>
        [\A r \in Reader : pc[r] # "read" /\ pc'[r] = "read" =>
           last = None \/ last.at + TTL <= clock \/ last.epoch < epoch]_vars
  BY <1>1
<1>. QED  BY Inductive, <1>2, PTL DEF Spec, HerdComputesOnce
=============================================================================
