-------------------------- MODULE HomeScreenProofs --------------------------
(***************************************************************************)
(* Proofs about HomeScreen, for any number of proofs and controls that are  *)
(* under way together: what the hero says was tested, and requests of the   *)
(* page never overlap.                                                      *)
(***************************************************************************)
EXTENDS HomeScreen, TLAPS

ProofRecord ==
    [at : {"none", "exit", "again", "dns", "blocking", "answer"}, ok : BOOLEAN, met : SUBSET {"tor", "pihole", "only-tor"}]

\* What is the case is among what a proof that may still pass has met, and so is
\* everything its probes have seen.
Sound(r) ==
    r.at # "none" /\ r.ok =>
        /\ Case \subseteq r.met
        /\ r.at \in {"dns", "blocking", "answer"} => "tor" \in r.met
        /\ r.at \in {"blocking", "answer"} => "pihole" \in r.met

ProofsType == proofs \in [Proof -> ProofRecord] /\ verifying \in BOOLEAN
ProofsAreSound == \A p \in Proof : Sound(proofs[p])
AskedIsVerifying == \A p \in Proof : proofs[p].at # "none" => verifying

IInv ==
    /\ ProofsType /\ ProofsAreSound /\ AskedIsVerifying
    /\ OneProofAtATime /\ ProtectedWasTested

-----------------------------------------------------------------------------
LEMMA CaseType == Case \subseteq {"tor", "pihole", "only-tor"}
  BY DEF Case

LEMMA CaseSees ==
  ASSUME NEW c \in {"tor", "pihole"}, c \in running
  PROVE  c \in Case
  BY DEF Case

\* The initial states, where nothing was asked for.
LEMMA InitIInv == Init => IInv
<1>. SUFFICES ASSUME Init PROVE IInv
  OBVIOUS
<1>1. NoProof \in ProofRecord /\ NoProof.at = "none"
  BY DEF NoProof, ProofRecord
<1>2. ProofsType /\ \A p \in Proof : proofs[p].at = "none"
  BY <1>1 DEF Init, ProofsType
<1>3. ProofsAreSound /\ AskedIsVerifying /\ OneProofAtATime
  BY <1>2 DEF ProofsAreSound, Sound, AskedIsVerifying, OneProofAtATime
<1>4. ProtectedWasTested
  BY DEF Init, Shows, ProtectedWasTested, ShowsProtected
<1>. QED  BY <1>2, <1>3, <1>4 DEF IInv

\* A step of the page that leaves the proofs, the containers and the hero alone.
LEMMA QuietStep ==
  ASSUME IInv, UNCHANGED <<running, aside, state, verifying, proofs>>
  PROVE  IInv'
  BY DEF IInv, ProofsType, ProofsAreSound, Sound, Case, AskedIsVerifying,
         OneProofAtATime, ProtectedWasTested, ShowsProtected

\* Containers that change are met by every proof that may still pass.
LEMMA BecomesStep ==
  ASSUME IInv, NEW r, NEW a, Becomes(r, a), UNCHANGED <<state, verifying>>
  PROVE  IInv'
<1>. USE DEF IInv
<1>1. ProtectedWasTested'
  BY DEF ProtectedWasTested, ShowsProtected
<1>2. ASSUME NEW p \in Proof
      PROVE  /\ proofs'[p] \in ProofRecord /\ proofs'[p].at = proofs[p].at
             /\ Sound(proofs[p])'
  <2>1. proofs[p] \in ProofRecord /\ Sound(proofs[p])
    BY DEF ProofsType, ProofsAreSound
  <2>2. CASE ~proofs[p].ok
    <3>1. proofs'[p] = proofs[p]
      BY <2>2 DEF Becomes
    <3>. QED  BY <2>1, <2>2, <3>1 DEF Sound
  <2>3. CASE proofs[p].ok
    <3>1. proofs'[p] = [proofs[p] EXCEPT !.met = @ \cup Case']
      BY <2>3 DEF Becomes
    <3>2. Case' \subseteq {"tor", "pihole", "only-tor"}
      BY DEF Case
    <3>3. /\ proofs'[p].at = proofs[p].at /\ proofs'[p].ok = proofs[p].ok
          /\ proofs'[p].met = proofs[p].met \cup Case'
      BY <2>1, <3>1 DEF ProofRecord
    <3>4. proofs'[p] \in ProofRecord
      BY <2>1, <3>1, <3>2 DEF ProofRecord
    <3>5. Sound(proofs[p])'
      BY <2>1, <2>3, <3>3 DEF Sound
    <3>. QED  BY <3>3, <3>4, <3>5
  <2>. QED  BY <2>2, <2>3
<1>3. ProofsType'
  <2>1. proofs' = [p \in Proof |-> proofs'[p]]
    BY DEF Becomes
  <2>. QED  BY <1>2, <2>1 DEF ProofsType
<1>4. ProofsAreSound' /\ AskedIsVerifying' /\ OneProofAtATime'
  BY <1>2 DEF ProofsAreSound, AskedIsVerifying, OneProofAtATime
<1>. QED  BY <1>1, <1>3, <1>4

\* One proof becomes "r", while the page, the containers and the other proofs stay.
LEMMA ProofChanges ==
  ASSUME IInv, UNCHANGED <<running, aside, page>>,
         NEW p \in Proof, NEW r \in ProofRecord, proofs' = [proofs EXCEPT ![p] = r],
         proofs[p].at # "none", Sound(r)
  PROVE  IInv'
<1>. USE DEF IInv, page
<1>1. \A q \in Proof : proofs'[q] = IF q = p THEN r ELSE proofs[q]
  BY DEF ProofsType
<1>2. ProofsType' /\ AskedIsVerifying' /\ OneProofAtATime'
  BY <1>1 DEF ProofsType, AskedIsVerifying, OneProofAtATime
<1>3. ProofsAreSound'
  BY <1>1 DEF ProofsAreSound, Sound, Case
<1>4. ProtectedWasTested'
  BY DEF ProtectedWasTested, ShowsProtected
<1>. QED  BY <1>2, <1>3, <1>4

LEMMA LostStep ==
  ASSUME IInv, NEW p \in Proof, NEW now, NEW next \in {"dns", "blocking", "answer"},
         now # "none", Probing(p, now), Lost(p, next)
  PROVE  IInv'
<1>. DEFINE r == [at |-> next, ok |-> FALSE, met |-> {}]
<1>1. r \in ProofRecord /\ ~r.ok
  BY DEF ProofRecord
<1>2. Sound(r)
  BY <1>1 DEF Sound
<1>3. /\ UNCHANGED <<running, aside, page>> /\ proofs[p].at # "none"
      /\ proofs' = [proofs EXCEPT ![p] = r]
  BY DEF Probing, Lost
<1>. HIDE DEF r
<1>. QED  BY <1>1, <1>2, <1>3, ProofChanges

LEMMA PassedStep ==
  ASSUME IInv, NEW p \in Proof, NEW now, NEW next \in {"again", "dns", "blocking", "answer"},
         now # "none", Probing(p, now), Passed(p, next),
         next \in {"dns", "blocking", "answer"} => now \in {"dns", "blocking"} \/ "tor" \in running,
         next \in {"blocking", "answer"} => now = "blocking" \/ "pihole" \in running
  PROVE  IInv'
<1>. DEFINE r == [proofs[p] EXCEPT !.at = next]
<1>1. /\ proofs[p] \in ProofRecord /\ Sound(proofs[p]) /\ proofs[p].at = now
      /\ proofs' = [proofs EXCEPT ![p] = r]
      /\ UNCHANGED <<running, aside, page>>
  BY DEF IInv, ProofsType, ProofsAreSound, Probing, Passed
<1>2. r \in ProofRecord /\ r.at = next /\ r.ok = proofs[p].ok /\ r.met = proofs[p].met
  BY <1>1 DEF ProofRecord
<1>3. Sound(r)
  BY <1>1, <1>2, CaseSees DEF Sound
<1>. HIDE DEF r
<1>. QED  BY <1>1, <1>2, <1>3, ProofChanges

\* The first line of verify: when it goes on, no proof is under way.
LEMMA VerifyStep ==
  ASSUME IInv, Verify, UNCHANGED <<running, aside>>
  PROVE  IInv'
<1>. USE DEF IInv
<1>1. ~verifying /\ verifying' = TRUE
  BY DEF Verify, MayVerify
<1>2. PICK p \in Proof : proofs' = [proofs EXCEPT ![p] = [at |-> "exit", ok |-> TRUE, met |-> Case]]
  BY DEF Verify
<1>3. [at |-> "exit", ok |-> TRUE, met |-> Case] \in ProofRecord
  BY CaseType DEF ProofRecord
<1>4. \A q \in Proof :
        proofs'[q] = IF q = p THEN [at |-> "exit", ok |-> TRUE, met |-> Case] ELSE proofs[q]
  BY <1>2 DEF ProofsType
<1>5. \A q \in Proof : proofs[q].at = "none"
  BY <1>1 DEF AskedIsVerifying
<1>6. ProofsType' /\ AskedIsVerifying' /\ OneProofAtATime'
  BY <1>1, <1>2, <1>3, <1>4, <1>5 DEF ProofsType, AskedIsVerifying, OneProofAtATime
<1>7. ProofsAreSound'
  BY <1>4, <1>5 DEF ProofsAreSound, Sound, Case
<1>8. ProtectedWasTested'
  BY DEF Verify, Shows, ProtectedWasTested, ShowsProtected
<1>. QED  BY <1>6, <1>7, <1>8

\* A proof that ends was the only one.
LEMMA OverStep ==
  ASSUME IInv, NEW p \in Proof, proofs[p].at # "none",
         proofs' = [proofs EXCEPT ![p] = NoProof], Verified, ProtectedWasTested'
  PROVE  IInv'
<1>. USE DEF IInv
<1>1. NoProof \in ProofRecord /\ NoProof.at = "none"
  BY DEF NoProof, ProofRecord
<1>2. \A q \in Proof : proofs'[q].at = "none"
  BY <1>1 DEF OneProofAtATime, ProofsType
<1>3. ProofsType'
  BY <1>1 DEF ProofsType, Verified
<1>4. ProofsAreSound' /\ AskedIsVerifying' /\ OneProofAtATime'
  BY <1>2 DEF ProofsAreSound, Sound, AskedIsVerifying, OneProofAtATime
<1>. QED  BY <1>3, <1>4

LEMMA AnsweredStep ==
  ASSUME IInv, NEW p \in Proof, Answered(p)
  PROVE  IInv'
<1>1. /\ proofs[p].at = "answer" /\ Sound(proofs[p])
      /\ state' = Shows("ready", proofs[p].ok, proofs[p].met)
  BY DEF IInv, Answered, ProofsAreSound
<1>2. ProtectedWasTested'
  BY <1>1 DEF Sound, Shows, ProtectedWasTested, ShowsProtected
<1>. QED  BY <1>1, <1>2, OverStep DEF Answered

LEMMA NotAnsweredStep ==
  ASSUME IInv, NEW p \in Proof, NotAnswered(p)
  PROVE  IInv'
<1>1. ProtectedWasTested'
  BY DEF NotAnswered, Shows, ProtectedWasTested, ShowsProtected
<1>. QED  BY <1>1, OverStep DEF NotAnswered

LEMMA ProofStepStep ==
  ASSUME IInv, NEW p \in Proof, ProofStep(p)
  PROVE  IInv'
<1>1. CASE ProbeExit(p)
  BY <1>1, PassedStep DEF ProbeExit
<1>2. CASE ProbeExitAgain(p)
  BY <1>2, PassedStep, LostStep DEF ProbeExitAgain
<1>3. CASE ProbeDns(p)
  BY <1>3, PassedStep, LostStep DEF ProbeDns
<1>4. CASE ProbeBlocking(p)
  BY <1>4, PassedStep, LostStep DEF ProbeBlocking
<1>5. CASE Answered(p)
  BY <1>5, AnsweredStep
<1>6. CASE NotAnswered(p)
  BY <1>6, NotAnsweredStep
<1>. QED  BY <1>1, <1>2, <1>3, <1>4, <1>5, <1>6 DEF ProofStep

LEMMA ControlStepStep ==
  ASSUME IInv, NEW c \in Control,
         ControlStep(c) \/ ControlEnds(c) \/ ControlFails(c) \/ DashboardGivesUp(c)
  PROVE  IInv'
<1>1. CASE ControlStep(c)
  <2>1. PICK r : Becomes(r, aside)
    BY <1>1 DEF ControlStep
  <2>2. UNCHANGED <<state, verifying>>
    BY <1>1 DEF ControlStep, page
  <2>. QED  BY <2>1, <2>2, BecomesStep
<1>2. CASE ControlEnds(c) \/ ControlFails(c) \/ DashboardGivesUp(c)
  BY <1>2, QuietStep DEF ControlEnds, ControlFails, DashboardGivesUp
<1>. QED  BY <1>1, <1>2

LEMMA NextIInv == IInv /\ [Next]_vars => IInv'
<1>. SUFFICES ASSUME IInv, [Next]_vars PROVE IInv'
  OBVIOUS
<1>1. CASE Interval
  BY <1>1, VerifyStep DEF Interval
<1>2. CASE AfterControl
  <2>1. CASE MayVerify
    BY <1>2, <2>1, VerifyStep DEF AfterControl
  <2>2. CASE ~MayVerify
    BY <1>2, <2>2, QuietStep DEF AfterControl
  <2>. QED  BY <2>1, <2>2
<1>3. ASSUME NEW p \in Proof, ProofStep(p) PROVE IInv'
  BY <1>3, ProofStepStep
<1>4. ASSUME NEW id \in CONTROL_ACTIONS, RunAction(id) PROVE IInv'
  BY <1>4, QuietStep DEF RunAction
<1>5. ASSUME NEW c \in Control,
             ControlStep(c) \/ ControlEnds(c) \/ ControlFails(c) \/ DashboardGivesUp(c)
      PROVE  IInv'
  BY <1>5, ControlStepStep
<1>6. ASSUME NEW c \in Container, ContainerChanges(c) PROVE IInv'
  <2>1. PICK r : Becomes(r, aside)
    BY <1>6 DEF ContainerChanges
  <2>. QED  BY <1>6, <2>1, BecomesStep DEF ContainerChanges, page
<1>7. CASE GivenANetwork
  BY <1>7, BecomesStep DEF GivenANetwork, page
<1>8. CASE UNCHANGED vars
  BY <1>8, QuietStep DEF vars, page
<1>. QED  BY <1>1, <1>2, <1>3, <1>4, <1>5, <1>6, <1>7, <1>8 DEF Next

\* The page and the dashboard keep IInv: asked proofs are the page's own, one at a
\* time, and have met what they let pass.
THEOREM Invariant == Spec => []IInv
<1>. QED  BY InitIInv, NextIInv, PTL DEF Spec

\* verifyingRef and the first line of verify (Home.tsx): requests never overlap.
THEOREM ProofsNeverOverlap == Spec => []OneProofAtATime
<1>1. IInv => OneProofAtATime
  BY DEF IInv
<1>. QED  BY <1>1, Invariant, PTL

\* The hero (Home.tsx) says "protected" of a path whose ends ran since the proof was
\* asked for (proof of home-dashboard/server.py).
THEOREM ProtectedIsTested == Spec => []ProtectedWasTested
<1>1. IInv => ProtectedWasTested
  BY DEF IInv
<1>. QED  BY <1>1, Invariant, PTL
=============================================================================
