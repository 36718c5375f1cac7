----------------------------- MODULE HomeScreen -----------------------------
(***************************************************************************)
(* The page of Torhole Home: screens/Home.tsx with the dashboard that      *)
(* computes its proof (home-dashboard/server.py) and the helper that turns  *)
(* its controls into Docker calls (control-helper/server.py).               *)
(*                                                                         *)
(* A proof is a sequence of probes, each of which looks at the containers   *)
(* at a moment of its own; a control goes through the containers one by one *)
(* and may fail, or outlive the dashboard's patience, half-way.             *)
(***************************************************************************)
EXTENDS Naturals, Sequences, SequencesExt

CONSTANTS Proof,    \* requests of /api/proof that could be under way together
          Control   \* controls the helper could be running together

VARIABLES
    running,    \* the containers that run
    aside,      \* a container other than Tor has been given another network
    state,      \* state of the page: loading, ready with a proof, or error
    verifying,  \* verifyingRef
    busy,       \* action # null
    scheduled,  \* a verification is due after a control
    proofs,     \* the proofs under way
    controls    \* the controls under way

page == <<state, verifying, busy, scheduled>>
vars == <<running, aside, page, proofs, controls>>

CONTAINERS == <<"tor", "dnscrypt", "pihole">>
Container == Range(CONTAINERS)

\* What is the case; "only-tor" when Tor alone reaches the internet.
Case == (running \cap {"tor", "pihole"}) \cup (IF aside THEN {} ELSE {"only-tor"})

\* A proof under way: its next probe, whether all passed so far, and what has been
\* the case at some time since it was asked for.
NoProof == [at |-> "none", ok |-> FALSE, met |-> {}]
Shows(kind, protected, met) ==
    [kind |-> kind, protected |-> protected, met |-> IF protected THEN met ELSE {}]
NoControl == [todo |-> <<>>, runs |-> FALSE, awaited |-> FALSE]

TypeOK ==
    /\ running \subseteq Container /\ aside \in BOOLEAN
    /\ state.kind \in {"loading", "ready", "error"}
    /\ verifying \in BOOLEAN /\ busy \in BOOLEAN /\ scheduled \in BOOLEAN
    /\ \A p \in Proof : proofs[p].ok \in BOOLEAN
                        /\ proofs[p].at \in {"none", "exit", "again", "dns", "blocking", "answer"}
    /\ busy <=> \E c \in Control : controls[c].awaited

Init ==
    /\ running \in SUBSET Container /\ aside \in BOOLEAN
    /\ state = Shows("loading", FALSE, {})
    /\ verifying = FALSE /\ busy = FALSE /\ scheduled = FALSE
    /\ proofs = [p \in Proof |-> NoProof]
    /\ controls = [c \in Control |-> NoControl]

\* Containers change: every proof under way could still see it.
Becomes(r, a) ==
    /\ running' = r /\ aside' = a
    /\ proofs' = [p \in Proof |-> IF ~proofs[p].ok THEN proofs[p]
                                  ELSE [proofs[p] EXCEPT !.met = @ \cup Case']]

-----------------------------------------------------------------------------
(* The proof.                                                               *)

\* Mutant: only the button waits for the answer, the timers do not.
MayVerifyAlways == TRUE

\* The first line of verify: interval, button, mounting and the timer after a
\* control all end here.
MayVerify == ~verifying

\* verify; what is ready stays on the page meanwhile.
Verify ==
    /\ MayVerify
    /\ verifying' = TRUE
    /\ state' = IF state.kind = "ready" THEN state ELSE Shows("loading", FALSE, {})
    /\ \E p \in Proof :
         /\ proofs[p].at = "none"
         /\ proofs' = [proofs EXCEPT ![p] = [at |-> "exit", ok |-> TRUE, met |-> Case]]

Interval ==
    /\ Verify
    /\ UNCHANGED <<running, aside, busy, scheduled, controls>>

\* The timer after a control: verify returns at once when one is under way.
AfterControl ==
    /\ scheduled
    /\ scheduled' = FALSE
    /\ IF MayVerify THEN Verify ELSE UNCHANGED <<state, verifying, proofs>>
    /\ UNCHANGED <<running, aside, busy, controls>>

\* A probe that does not pass; nothing brings the proof back to "protected".
Lost(p, next) == proofs' = [proofs EXCEPT ![p] = [at |-> next, ok |-> FALSE, met |-> {}]]
Passed(p, next) == proofs' = [proofs EXCEPT ![p].at = next]

Probing(p, now) == proofs[p].at = now /\ UNCHANGED <<running, aside, page, controls>>

\* tor_exit, a second time when it failed.
ProbeExit(p) ==
    /\ Probing(p, "exit")
    /\ \/ "tor" \in running /\ Passed(p, "dns")
       \/ Passed(p, "again")

\* Mutant: the second failure is not kept.
ProbeExitForgets(p) ==
    /\ Probing(p, "again")
    /\ Passed(p, "dns")

ProbeExitAgain(p) ==
    /\ Probing(p, "again")
    /\ \/ "tor" \in running /\ Passed(p, "dns")
       \/ Lost(p, "dns")

\* Pi-hole can answer example.com from its cache with the path behind it down.
ProbeDns(p) ==
    /\ Probing(p, "dns")
    /\ \/ "pihole" \in running /\ Passed(p, "blocking")
       \/ Lost(p, "blocking")

\* doubleclick.net; "protected" is that no probe was lost, and "bypass" the
\* constant True.
ProbeBlocking(p) ==
    /\ Probing(p, "blocking")
    /\ \/ "pihole" \in running /\ Passed(p, "answer")
       \/ Lost(p, "answer")

\* finally of verify.
Verified == verifying' = FALSE

Answered(p) ==
    /\ proofs[p].at = "answer"
    /\ state' = Shows("ready", proofs[p].ok, proofs[p].met)
    /\ proofs' = [proofs EXCEPT ![p] = NoProof]
    /\ Verified
    /\ UNCHANGED <<running, aside, busy, scheduled, controls>>

\* Mutant: a failed request leaves on the page what was there.
NotAnsweredKeeps(p) ==
    /\ proofs[p].at # "none"
    /\ proofs' = [proofs EXCEPT ![p] = NoProof]
    /\ Verified
    /\ UNCHANGED <<running, aside, state, busy, scheduled, controls>>

\* The dashboard does not answer, or not with a proof.
NotAnswered(p) ==
    /\ proofs[p].at # "none"
    /\ state' = Shows("error", FALSE, {})
    /\ proofs' = [proofs EXCEPT ![p] = NoProof]
    /\ Verified
    /\ UNCHANGED <<running, aside, busy, scheduled, controls>>

-----------------------------------------------------------------------------
(* The controls.                                                            *)

Up(c) == <<"up", c>>
Down(c) == <<"down", c>>

\* ALLOWED, and the order of the containers: stopping is the other way round.
Todo(id) ==
    CASE id = "new-identity" -> <<>>
      [] id = "restart-tor" -> <<Down("tor"), Up("tor")>>
      [] id = "restart-dns" -> <<Down("dnscrypt"), Up("dnscrypt")>>
      [] id = "restart-protection" ->
           FlattenSeq([i \in DOMAIN CONTAINERS |-> <<Down(CONTAINERS[i]), Up(CONTAINERS[i])>>])
      [] id = "stop-protection" -> [i \in DOMAIN CONTAINERS |-> Down(Reverse(CONTAINERS)[i])]
      [] id = "start-protection" -> [i \in DOMAIN CONTAINERS |-> Up(CONTAINERS[i])]

CONTROL_ACTIONS == {"new-identity", "restart-tor", "restart-dns", "restart-protection",
                    "stop-protection", "start-protection"}

\* runAction: every control is disabled while one is awaited.
RunAction(id) ==
    /\ ~busy
    /\ busy' = TRUE
    /\ \E c \in Control :
         /\ ~controls[c].runs
         /\ controls' = [controls EXCEPT ![c] = [todo |-> Todo(id), runs |-> TRUE, awaited |-> TRUE]]
    /\ UNCHANGED <<running, aside, state, verifying, scheduled, proofs>>

ControlStep(c) ==
    /\ controls[c].todo # <<>>
    /\ LET step == Head(controls[c].todo) IN
         Becomes(IF step[1] = "up" THEN running \cup {step[2]} ELSE running \ {step[2]}, aside)
    /\ controls' = [controls EXCEPT ![c].todo = Tail(@)]
    /\ UNCHANGED page

\* The helper answers; the page does if it still listens, and verifies later.
ControlEnds(c) ==
    /\ controls[c].runs /\ controls[c].todo = <<>>
    /\ controls' = [controls EXCEPT ![c] = NoControl]
    /\ IF controls[c].awaited THEN busy' = FALSE /\ scheduled' = TRUE
       ELSE UNCHANGED <<busy, scheduled>>
    /\ UNCHANGED <<running, aside, state, verifying, proofs>>

\* A wrong PIN, or Docker refuses a container: what was done stays done.
ControlFails(c) ==
    /\ controls[c].runs
    /\ controls' = [controls EXCEPT ![c] = NoControl]
    /\ busy' = IF controls[c].awaited THEN FALSE ELSE busy
    /\ UNCHANGED <<running, aside, state, verifying, scheduled, proofs>>

\* The dashboard waits thirty seconds; the helper goes on, and the page takes
\* another control.
DashboardGivesUp(c) ==
    /\ controls[c].awaited
    /\ controls' = [controls EXCEPT ![c].awaited = FALSE]
    /\ busy' = FALSE
    /\ UNCHANGED <<running, aside, state, verifying, scheduled, proofs>>

-----------------------------------------------------------------------------
(* Docker and the operator.                                                 *)

ContainerChanges(c) ==
    /\ Becomes(IF c \in running THEN running \ {c} ELSE running \cup {c}, aside)
    /\ UNCHANGED <<page, controls>>

GivenANetwork ==
    /\ Becomes(running, ~aside)
    /\ UNCHANGED <<page, controls>>

ProofStep(p) ==
    \/ ProbeExit(p) \/ ProbeExitAgain(p) \/ ProbeDns(p) \/ ProbeBlocking(p)
    \/ Answered(p) \/ NotAnswered(p)

Next ==
    \/ Interval \/ AfterControl
    \/ \E p \in Proof : ProofStep(p)
    \/ \E id \in CONTROL_ACTIONS : RunAction(id)
    \/ \E c \in Control : \/ ControlStep(c) \/ ControlEnds(c)
                          \/ ControlFails(c) \/ DashboardGivesUp(c)
    \/ \E c \in Container : ContainerChanges(c)
    \/ GivenANetwork

Spec == Init /\ [][Next]_vars

\* The interval of a minute, and every wait of the dashboard has a timeout.
Fairness == WF_vars(Interval) /\ \A p \in Proof : WF_vars(ProofStep(p))

FairSpec == Spec /\ Fairness

-----------------------------------------------------------------------------
(* Properties *)

ShowsProtected == state.kind = "ready" /\ state.protected

\* However probes, controls and failing containers interleave, "Privacy is
\* protected" is said only when Tor and Pi-hole each ran at some time since the
\* proof was asked for: nothing of an older proof is mixed into it.
ProtectedWasTested == ShowsProtected => {"tor", "pihole"} \subseteq state.met

\* Timers, button and mounting share one request: an older proof cannot replace a
\* younger one on the page.
OneProofAtATime ==
    \A p, q \in Proof : proofs[p].at # "none" /\ proofs[q].at # "none" => p = q

\* A protection that is gone and stays gone is seen to be gone, whatever fails on
\* the way: the page does not go on saying "protected".
LossIsSeen ==
    \A c \in {"tor", "pihole"} : <>[](c \notin running) => <>[](~ShowsProtected)

\* Home.tsx:266, "reports protected only when every independent proof passes", and
\* Home.tsx:497 names bypass prevention among what is rerun: that Tor alone reaches
\* the internet was the case at some time since the proof was asked for.
BypassWasTested == ShowsProtected => "only-tor" \in state.met
=============================================================================
