-------------------------- MODULE Submission_proofs --------------------------
(***************************************************************************)
(* For any jobs, documents and verifiers: a job is accepted whole, its     *)
(* owner is told of no fault of an earlier submission, and nothing of a    *)
(* deleted job is left behind.                                             *)
(*                                                                         *)
(* A verifier's HEADs and its transaction are apart, so the proof is about *)
(* what it has found in between: that stays true of the bucket, and of the *)
(* submission it was found for, whatever the owner and cleanup do.         *)
(***************************************************************************)
EXTENDS Submission, TLAPS

USE JobsAssumption, VerificationAssumption

JobStatus    == {"UPLOADING", "VERIFYING", "QUEUED"} \cup Gone
TokenState   == [Jobs -> Verifiers \cup {NoVerifier}]
LeaseState   == [Jobs -> {"none", "live", "expired"}]

\* What SubmissionInv says of one finding of a verifier of job j, generation g.
FindingIsTrue(f, j, g) ==
    /\ f.doc \in DocsOf(j)
    /\ ~Leaving(f.doc) =>
          /\ f.error = "none" => original[f.doc] = "good"
          /\ f.error = "MISSING_UPLOAD" /\ g = generation[j] => f.doc \notin inTime

LEMMA DocsOfJobs ==
  \A j : \A d \in DocsOf(j) : d \in Docs /\ JobOf[d] = j
  BY DEF DocsOf

LEMMA InitInv == Init => SubmissionInv
<1> SUFFICES ASSUME Init PROVE SubmissionInv
  OBVIOUS
<1> USE DEF Init, VerificationInit
<1>1. NewRow \in DocRow /\ NewRow.verified = -1 /\ NewRow.status = "UPLOADING" /\ NewRow.error = "none"
  BY DEF NewRow, DocRow, Errors
<1>2. TypeOK
  BY <1>1 DEF TypeOK
<1>3. AcceptedWhole /\ NothingLeftBehind
  BY <1>1 DEF AcceptedWhole, AcceptedIsComplete, NoPartialBatch, NothingLeftBehind
<1>4. VerifiersKeepToTheirJob /\ FindingsAreTrue
  <2>1. Idle \in VerifierState /\ Idle.pc = "idle"
    BY DEF Idle, VerifierState
  <2> QED
    BY <2>1 DEF VerifiersKeepToTheirJob, FindingsAreTrue, At
<1>5. RowsAreTrue /\ RejectionsAreWhole /\ SweepsAreLate
  BY <1>1 DEF RowsAreTrue, RejectionsAreWhole, SweepsAreLate
<1> QED
  BY <1>2, <1>3, <1>4, <1>5 DEF SubmissionInv

-----------------------------------------------------------------------------
(* Verifiers, as long as they save nothing.                                *)

LEMMA TablesStay ==
  ASSUME SubmissionInv,
         UNCHANGED <<job, generation, doc, outbox, original, inTime, graceOver, swept>>,
         urls' \subseteq urls, aged' \subseteq Jobs,
         token' \in TokenState, lease' \in LeaseState,
         VerifiersKeepToTheirJob', FindingsAreTrue'
  PROVE  SubmissionInv'
<1> USE DEF SubmissionInv
<1>1. TypeOK'
  BY DEF TypeOK, TokenState, LeaseState
<1>2. AcceptedWhole' /\ NothingLeftBehind'
  BY DEF AcceptedWhole, AcceptedIsComplete, NoPartialBatch, NothingLeftBehind
<1>3. RowsAreTrue' /\ RejectionsAreWhole'
  BY DEF RowsAreTrue, RejectionsAreWhole, Leaving
<1>4. SweepsAreLate'
  BY DEF SweepsAreLate
<1> QED
  BY <1>1, <1>2, <1>3, <1>4

LEMMA FindingsStay ==
  ASSUME SubmissionInv, UNCHANGED <<verifier, job, generation, original, inTime>>
  PROVE  VerifiersKeepToTheirJob' /\ FindingsAreTrue'
  BY DEF SubmissionInv, VerifiersKeepToTheirJob, FindingsAreTrue, At, Leaving

\* A verifier goes on to a state whose findings are true.
LEMMA VerifierGoesOn ==
  ASSUME SubmissionInv, NEW v \in Verifiers, NEW state \in VerifierState,
         verifier' = [verifier EXCEPT ![v] = state],
         UNCHANGED <<job, generation, original, inTime>>,
         state.pc # "idle" =>
            /\ state.job \in Jobs /\ state.generation <= generation[state.job]
            /\ state.todo \subseteq DocsOf(state.job)
            /\ \A f \in state.found : FindingIsTrue(f, state.job, state.generation)
  PROVE  VerifiersKeepToTheirJob' /\ FindingsAreTrue'
<1> USE DEF SubmissionInv
<1>1. verifier' \in [Verifiers -> VerifierState]
  BY DEF VerifiersKeepToTheirJob
<1>2. verifier'[v] = state /\ \A u \in Verifiers \ {v} : verifier'[u] = verifier[u]
  BY DEF VerifiersKeepToTheirJob
<1>3. VerifiersKeepToTheirJob'
  BY <1>1, <1>2 DEF VerifiersKeepToTheirJob, At, FindingIsTrue
<1>4. FindingsAreTrue'
  BY <1>2 DEF FindingsAreTrue, At, FindingIsTrue, Leaving
<1> QED
  BY <1>3, <1>4

LEMMA BusyVerifier ==
  ASSUME SubmissionInv, NEW v \in Verifiers
  PROVE  /\ verifier[v] \in VerifierState
         /\ ~At(v, "idle") =>
              /\ verifier[v].job \in Jobs /\ verifier[v].generation <= generation[verifier[v].job]
              /\ verifier[v].todo \subseteq DocsOf(verifier[v].job)
              /\ \A f \in verifier[v].found :
                    FindingIsTrue(f, verifier[v].job, verifier[v].generation)
  BY DEF SubmissionInv, VerifiersKeepToTheirJob, FindingsAreTrue, FindingIsTrue

\* Only the verifier, the token and the lease change.
OnlyVerifiers == UNCHANGED <<job, generation, doc, outbox, original, ownerVars, cleanupVars>>

LEMMA ClaimKeepsInv ==
  ASSUME SubmissionInv, NEW v \in Verifiers, NEW j \in Jobs, ClaimJob(v, j), OnlyVerifiers
  PROVE  SubmissionInv'
<1> USE DEF OnlyVerifiers, ownerVars, cleanupVars
<1> DEFINE state == [Idle EXCEPT !.pc = "selecting", !.job = j, !.generation = generation[j]]
<1>1. TypeOK
  BY DEF SubmissionInv
<1>2. /\ state \in VerifierState /\ state.job = j /\ state.generation = generation[j]
      /\ state.todo = {} /\ state.found = {}
  <2>1. generation[j] \in Nat
    BY <1>1 DEF TypeOK
  <2> QED
    BY <2>1 DEF Idle, VerifierState
<1>3. verifier' = [verifier EXCEPT ![v] = state]
  BY DEF ClaimJob
<1>4. token' \in TokenState /\ lease' \in LeaseState
  BY <1>1 DEF ClaimJob, TypeOK, TokenState, LeaseState
<1>5. generation[j] <= generation[j]
  BY <1>1 DEF TypeOK
<1>6. VerifiersKeepToTheirJob' /\ FindingsAreTrue'
  <2> HIDE DEF state
  <2> QED
    BY <1>2, <1>3, <1>5, VerifierGoesOn
<1> QED
  BY <1>1, <1>4, <1>6, TablesStay DEF TypeOK

LEMMA SelectKeepsInv ==
  ASSUME SubmissionInv, NEW v \in Verifiers, SelectDocs(v), OnlyVerifiers, UNCHANGED <<token, lease>>
  PROVE  SubmissionInv'
<1> USE DEF OnlyVerifiers, ownerVars, cleanupVars
<1>1. TypeOK /\ token \in TokenState /\ lease \in LeaseState
  BY DEF SubmissionInv, TypeOK, TokenState, LeaseState
<1>2. PICK S \in SUBSET Unverified(verifier[v].job, verifier[v].generation, doc) :
         verifier' = [verifier EXCEPT ![v].pc = "heading", ![v].todo = S]
  BY DEF SelectDocs
<1> DEFINE state == [verifier[v] EXCEPT !.pc = "heading", !.todo = S]
<1>3. S \subseteq DocsOf(verifier[v].job) /\ S \subseteq Docs
  BY DEF Unverified, DocsOf
<1>4. /\ state \in VerifierState /\ state.job = verifier[v].job
      /\ state.generation = verifier[v].generation /\ state.todo = S
      /\ state.found = verifier[v].found
  BY <1>3, BusyVerifier DEF VerifierState
<1>5. verifier' = [verifier EXCEPT ![v] = state]
  BY <1>2 DEF SubmissionInv, VerifiersKeepToTheirJob
<1>6. VerifiersKeepToTheirJob' /\ FindingsAreTrue'
  <2>1. ~At(v, "idle")
    BY DEF SelectDocs, At
  <2> HIDE DEF state
  <2> QED
    BY <1>3, <1>4, <1>5, <2>1, BusyVerifier, VerifierGoesOn
<1> QED
  BY <1>1, <1>6, TablesStay DEF TypeOK

\* A HEAD finds what is in the bucket now.
LEMMA HeadKeepsInv ==
  ASSUME SubmissionInv, NEW v \in Verifiers, Head(v), OnlyVerifiers, UNCHANGED <<token, lease>>
  PROVE  SubmissionInv'
<1> USE DEF OnlyVerifiers, ownerVars, cleanupVars
<1>1. TypeOK /\ token \in TokenState /\ lease \in LeaseState
  BY DEF SubmissionInv, TypeOK, TokenState, LeaseState
<1>2. PICK d \in verifier[v].todo :
         verifier' = [verifier EXCEPT ![v].todo = @ \ {d},
                                      ![v].found = @ \cup {[doc |-> d, error |-> ErrorOf(d)]}]
  BY DEF Head
<1> DEFINE f     == [doc |-> d, error |-> ErrorOf(d)]
           state == [verifier[v] EXCEPT !.todo = @ \ {d}, !.found = @ \cup {f}]
<1>3. ~At(v, "idle")
  BY DEF Head, At
<1>4. d \in DocsOf(verifier[v].job) /\ d \in Docs
  BY <1>3, BusyVerifier DEF DocsOf
<1>5. ErrorOf(d) \in Errors
  BY DEF ErrorOf, Errors
<1>6. /\ state \in VerifierState /\ state.job = verifier[v].job
      /\ state.generation = verifier[v].generation /\ state.todo = verifier[v].todo \ {d}
      /\ state.found = verifier[v].found \cup {f} /\ f.doc = d /\ f.error = ErrorOf(d)
  <2>1. f \in [doc: Docs, error: Errors]
    BY <1>4, <1>5
  <2>2. f.doc = d /\ f.error = ErrorOf(d)
    OBVIOUS
  <2> HIDE DEF f
  <2> QED
    BY <2>1, <2>2, BusyVerifier DEF VerifierState
<1>7. verifier' = [verifier EXCEPT ![v] = state]
  BY <1>2 DEF SubmissionInv, VerifiersKeepToTheirJob
<1>8. FindingIsTrue(f, verifier[v].job, verifier[v].generation)
  <2>1. ErrorOf(d) = "none" => original[d] = "good"
    BY <1>1, <1>4 DEF ErrorOf, TypeOK
  <2>2. ErrorOf(d) = "MISSING_UPLOAD" => original[d] = "none"
    BY DEF ErrorOf
  <2>3. original[d] = "none" /\ ~Leaving(d) => d \notin inTime
    BY <1>4 DEF SubmissionInv, RowsAreTrue
  <2> QED
    BY <1>4, <1>6, <2>1, <2>2, <2>3 DEF FindingIsTrue
<1>9. VerifiersKeepToTheirJob' /\ FindingsAreTrue'
  <2> HIDE DEF state, f
  <2>1. \A x \in state.found : FindingIsTrue(x, state.job, state.generation)
    BY <1>3, <1>6, <1>8, BusyVerifier
  <2>2. state.job \in Jobs /\ state.generation <= generation[state.job] /\ state.todo \subseteq DocsOf(state.job)
    BY <1>3, <1>6, BusyVerifier
  <2> QED
    BY <1>6, <1>7, <2>1, <2>2, VerifierGoesOn
<1> QED
  BY <1>1, <1>9, TablesStay DEF TypeOK

\* The verifier is on its way out: it releases its claim, fails or dies.
LEMMA LeavingKeepsInv ==
  ASSUME SubmissionInv, NEW v \in Verifiers, OnlyVerifiers,
         Release(v) \/ ChunkFails(v) \/ VerifierDies(v)
  PROVE  SubmissionInv'
<1> USE DEF OnlyVerifiers, ownerVars, cleanupVars
<1>1. TypeOK /\ token \in TokenState /\ lease \in LeaseState
  BY DEF SubmissionInv, TypeOK, TokenState, LeaseState
<1>2. token' \in TokenState /\ lease' \in LeaseState
  BY <1>1 DEF Release, ChunkFails, VerifierDies, jobVars, TokenState, LeaseState
<1>3. CASE verifier' = [verifier EXCEPT ![v] = Idle]
  <2>1. Idle \in VerifierState /\ Idle.pc = "idle"
    BY DEF Idle, VerifierState
  <2>2. VerifiersKeepToTheirJob' /\ FindingsAreTrue'
    BY <1>3, <2>1, VerifierGoesOn
  <2> QED
    BY <1>1, <1>2, <2>2, TablesStay DEF TypeOK
<1>4. CASE ChunkFails(v)
  <2> DEFINE state == [verifier[v] EXCEPT !.pc = "releasing"]
  <2>1. /\ state \in VerifierState /\ state.job = verifier[v].job
        /\ state.generation = verifier[v].generation /\ state.todo = verifier[v].todo
        /\ state.found = verifier[v].found
    BY BusyVerifier DEF VerifierState
  <2>2. verifier' = [verifier EXCEPT ![v] = state] /\ ~At(v, "idle")
    BY <1>4 DEF ChunkFails, At, SubmissionInv, VerifiersKeepToTheirJob
  <2>3. VerifiersKeepToTheirJob' /\ FindingsAreTrue'
    <3> HIDE DEF state
    <3> QED
      BY <2>1, <2>2, BusyVerifier, VerifierGoesOn
  <2> QED
    BY <1>1, <1>2, <2>3, TablesStay DEF TypeOK
<1> QED
  BY <1>3, <1>4 DEF Release, VerifierDies

-----------------------------------------------------------------------------
(* The owner, cleanup and time.                                            *)

LEMMA IssueUrlKeepsInv ==
  ASSUME SubmissionInv, NEW d \in Docs, IssueUrl(d)
  PROVE  SubmissionInv'
<1> USE JobsAssumption, DocsOfJobs DEF SubmissionInv, verifyVars, jobVars, ownerVars, cleanupVars
<1>1. TypeOK /\ TypeOK'
  BY DEF TypeOK, IssueUrl, Gone
<1>2. AcceptedWhole'
  BY <1>1 DEF TypeOK, AcceptedWhole, AcceptedIsComplete, NoPartialBatch, SweepsAreLate, IssueUrl, Gone
<1>3. NothingLeftBehind'
  BY <1>1 DEF TypeOK, NothingLeftBehind, SweepsAreLate, IssueUrl, Gone
<1>4. VerifiersKeepToTheirJob' /\ FindingsAreTrue'
  BY <1>1 DEF TypeOK, VerifiersKeepToTheirJob, FindingsAreTrue, At, Leaving, IssueUrl, Gone
<1>5. RowsAreTrue' /\ RejectionsAreWhole'
  BY <1>1 DEF TypeOK, RowsAreTrue, RejectionsAreWhole, Leaving, IssueUrl, Gone
<1>6. SweepsAreLate'
  BY <1>1 DEF TypeOK, SweepsAreLate, IssueUrl, Gone
<1> QED
  BY <1>1, <1>2, <1>3, <1>4, <1>5, <1>6

LEMMA PutOriginalKeepsInv ==
  ASSUME SubmissionInv, NEW d \in Docs, PutOriginal(d)
  PROVE  SubmissionInv'
<1> USE JobsAssumption, DocsOfJobs DEF SubmissionInv, verifyVars, jobVars, ownerVars, cleanupVars
<1>1. TypeOK /\ TypeOK'
  BY DEF TypeOK, PutOriginal, Gone
<1>2. AcceptedWhole'
  BY <1>1 DEF TypeOK, AcceptedWhole, AcceptedIsComplete, NoPartialBatch, SweepsAreLate, PutOriginal, Gone
<1>3. NothingLeftBehind'
  BY <1>1 DEF TypeOK, NothingLeftBehind, SweepsAreLate, PutOriginal, Gone
<1>4. VerifiersKeepToTheirJob' /\ FindingsAreTrue'
  BY <1>1 DEF TypeOK, VerifiersKeepToTheirJob, FindingsAreTrue, At, Leaving, PutOriginal, Gone
<1>5. RowsAreTrue' /\ RejectionsAreWhole'
  BY <1>1 DEF TypeOK, RowsAreTrue, RejectionsAreWhole, Leaving, PutOriginal, Gone
<1>6. SweepsAreLate'
  BY <1>1 DEF TypeOK, SweepsAreLate, PutOriginal, Gone
<1> QED
  BY <1>1, <1>2, <1>3, <1>4, <1>5, <1>6

\* What was found for the last submission is not about this one.
LEMMA SubmitKeepsInv ==
  ASSUME SubmissionInv, NEW j \in Jobs, Submit(j)
  PROVE  SubmissionInv'
<1> USE JobsAssumption, DocsOfJobs DEF SubmissionInv, verifyVars, jobVars, ownerVars, cleanupVars
<1>1. TypeOK /\ TypeOK'
  BY DEF TypeOK, Submit, Gone
<1>2. AcceptedWhole'
  BY <1>1 DEF TypeOK, AcceptedWhole, AcceptedIsComplete, NoPartialBatch, SweepsAreLate, Submit, Gone
<1>3. NothingLeftBehind'
  BY <1>1 DEF TypeOK, NothingLeftBehind, SweepsAreLate, Submit, Gone
<1>4. /\ \A k \in Jobs : /\ generation[k] \in Nat
                         /\ generation'[k] = IF k = j THEN generation[k] + 1 ELSE generation[k]
                         /\ job'[k] = IF k = j THEN "VERIFYING" ELSE job[k]
      /\ job[j] = "UPLOADING" /\ UNCHANGED <<verifier, doc, original>>
      /\ \A d \in Docs : JobOf[d] # j => (d \in inTime' <=> d \in inTime)
      /\ \A d \in Docs : JobOf[d] = j => (d \in inTime' => original[d] # "none")
  BY <1>1 DEF TypeOK, Submit, DocsOf
<1>5. \A d \in Docs : Leaving(d)' <=> Leaving(d)
  BY <1>4 DEF Leaving, Gone
<1>6. VerifiersKeepToTheirJob'
  <2>1. ASSUME NEW k \in Jobs, NEW g \in Nat, g <= generation[k]
        PROVE  g <= generation'[k] /\ (g = generation'[k] => k # j)
    BY <1>4, <2>1
  <2> QED
    BY <1>4, <2>1 DEF VerifiersKeepToTheirJob, VerifierState, At
<1>7. FindingsAreTrue'
  <2> SUFFICES ASSUME NEW v \in Verifiers, ~At(v, "idle"), NEW f \in verifier[v].found, ~Leaving(f.doc)
               PROVE  /\ f.error = "none" => original[f.doc] = "good"
                      /\ /\ f.error = "MISSING_UPLOAD"
                         /\ verifier[v].generation = generation'[verifier[v].job]
                         => f.doc \notin inTime'
    BY <1>4, <1>5, BusyVerifier DEF FindingsAreTrue, At, FindingIsTrue
  <2>1. /\ verifier[v].job \in Jobs /\ verifier[v].generation <= generation[verifier[v].job]
        /\ verifier[v].generation \in Nat
        /\ f.doc \in Docs /\ JobOf[f.doc] = verifier[v].job
        /\ FindingIsTrue(f, verifier[v].job, verifier[v].generation)
    BY BusyVerifier DEF FindingIsTrue, VerifierState
  <2>2. CASE verifier[v].job = j
    <3>1. verifier[v].generation # generation'[verifier[v].job]
      BY <1>4, <2>1, <2>2
    <3> QED
      BY <2>1, <3>1 DEF FindingIsTrue
  <2>3. CASE verifier[v].job # j
    <3>1. generation'[verifier[v].job] = generation[verifier[v].job] /\ (f.doc \in inTime' <=> f.doc \in inTime)
      BY <1>4, <2>1, <2>3
    <3> QED
      BY <2>1, <3>1 DEF FindingIsTrue
  <2> QED
    BY <2>2, <2>3
<1>8. RowsAreTrue' /\ RejectionsAreWhole'
  <2>1. \A d \in Docs : JobOf[d] \in Jobs /\ doc[d].verified \in {-1} \cup Nat
    BY <1>1 DEF TypeOK, DocRow
  <2>2. ASSUME NEW d \in Docs, JobOf[d] = j
        PROVE  doc[d].verified < generation'[j] /\ doc[d].verified # generation'[j]
    BY <1>4, <2>1, <2>2 DEF RowsAreTrue
  <2>3. RowsAreTrue'
    <3> SUFFICES ASSUME NEW d \in Docs
                 PROVE  /\ doc[d].verified <= generation'[JobOf[d]]
                        /\ /\ ~Leaving(d) /\ doc[d].error = "MISSING_UPLOAD"
                           /\ doc[d].verified = generation'[JobOf[d]]
                           => d \notin inTime'
                        /\ ~Leaving(d) /\ d \in inTime' => original[d] # "none"
      BY <1>4, <1>5 DEF RowsAreTrue
    <3>1. CASE JobOf[d] = j
      BY <1>4, <2>1, <2>2, <3>1
    <3>2. CASE JobOf[d] # j
      BY <1>4, <2>1, <3>2 DEF RowsAreTrue
    <3> QED
      BY <3>1, <3>2
  <2>4. RejectionsAreWhole'
    BY <1>4, <2>1 DEF RejectionsAreWhole
  <2> QED
    BY <2>3, <2>4
<1>9. SweepsAreLate'
  BY <1>1 DEF TypeOK, SweepsAreLate, Submit, Gone
<1> QED
  BY <1>1, <1>2, <1>3, <1>6, <1>7, <1>8, <1>9

LEMMA DeleteJobKeepsInv ==
  ASSUME SubmissionInv, NEW j \in Jobs, DeleteJob(j)
  PROVE  SubmissionInv'
<1> USE JobsAssumption, DocsOfJobs DEF SubmissionInv, verifyVars, jobVars, ownerVars, cleanupVars
<1>1. TypeOK /\ TypeOK'
  BY DEF TypeOK, DeleteJob, Gone
<1>2. AcceptedWhole'
  BY <1>1 DEF TypeOK, AcceptedWhole, AcceptedIsComplete, NoPartialBatch, SweepsAreLate, DeleteJob, Gone
<1>3. NothingLeftBehind'
  BY <1>1 DEF TypeOK, NothingLeftBehind, SweepsAreLate, DeleteJob, Gone
<1>4. VerifiersKeepToTheirJob' /\ FindingsAreTrue'
  BY <1>1 DEF TypeOK, VerifiersKeepToTheirJob, FindingsAreTrue, At, Leaving, DeleteJob, Gone
<1>5. RowsAreTrue' /\ RejectionsAreWhole'
  BY <1>1 DEF TypeOK, RowsAreTrue, RejectionsAreWhole, Leaving, DeleteJob, Gone
<1>6. SweepsAreLate'
  BY <1>1 DEF TypeOK, SweepsAreLate, DeleteJob, Gone
<1> QED
  BY <1>1, <1>2, <1>3, <1>4, <1>5, <1>6

LEMMA AbandonKeepsInv ==
  ASSUME SubmissionInv, AbandonJobs
  PROVE  SubmissionInv'
<1> USE JobsAssumption, DocsOfJobs DEF SubmissionInv, verifyVars, jobVars, ownerVars, cleanupVars
<1>1. TypeOK /\ TypeOK'
  BY DEF TypeOK, AbandonJobs, Gone
<1>2. AcceptedWhole'
  BY <1>1 DEF TypeOK, AcceptedWhole, AcceptedIsComplete, NoPartialBatch, SweepsAreLate, AbandonJobs, Gone
<1>3. NothingLeftBehind'
  BY <1>1 DEF TypeOK, NothingLeftBehind, SweepsAreLate, AbandonJobs, Gone
<1>4. VerifiersKeepToTheirJob' /\ FindingsAreTrue'
  BY <1>1 DEF TypeOK, VerifiersKeepToTheirJob, FindingsAreTrue, At, Leaving, AbandonJobs, Gone
<1>5. RowsAreTrue' /\ RejectionsAreWhole'
  BY <1>1 DEF TypeOK, RowsAreTrue, RejectionsAreWhole, Leaving, AbandonJobs, Gone
<1>6. SweepsAreLate'
  BY <1>1 DEF TypeOK, SweepsAreLate, AbandonJobs, Gone
<1> QED
  BY <1>1, <1>2, <1>3, <1>4, <1>5, <1>6

LEMMA SweepJobKeepsInv ==
  ASSUME SubmissionInv, NEW j \in Jobs, SweepJob(j)
  PROVE  SubmissionInv'
<1> USE JobsAssumption, DocsOfJobs DEF SubmissionInv, verifyVars, jobVars, ownerVars, cleanupVars
<1>1. TypeOK /\ TypeOK'
  BY DEF TypeOK, SweepJob, Gone
<1>2. AcceptedWhole'
  BY <1>1 DEF TypeOK, AcceptedWhole, AcceptedIsComplete, NoPartialBatch, SweepsAreLate, SweepJob, Gone
<1>3. NothingLeftBehind'
  BY <1>1 DEF TypeOK, NothingLeftBehind, SweepsAreLate, SweepJob, Gone
<1>4. /\ \A d \in Docs : original'[d] = IF JobOf[d] = j THEN "none" ELSE original[d]
      /\ UNCHANGED <<job, generation, doc, verifier, urls, inTime, graceOver>>
      /\ swept = {} /\ swept' = {j} /\ j \in graceOver /\ job[j] \in Gone
  BY DEF SweepJob, DocsOf, SweepsAreLate, Gone
<1>5. \A d \in Docs : /\ Leaving(d)' <=> Leaving(d)
                      /\ ~Leaving(d) => original'[d] = original[d]
  BY <1>4 DEF Leaving
<1>6. VerifiersKeepToTheirJob' /\ FindingsAreTrue'
  <2>1. \A v \in Verifiers : ~At(v, "idle") => \A f \in verifier[v].found : f.doc \in Docs
    BY BusyVerifier DEF FindingIsTrue
  <2> QED
    BY <1>4, <1>5, <2>1 DEF VerifiersKeepToTheirJob, FindingsAreTrue, At
<1>7. RowsAreTrue' /\ RejectionsAreWhole'
  BY <1>4, <1>5 DEF RowsAreTrue, RejectionsAreWhole
<1>8. SweepsAreLate'
  BY <1>4 DEF SweepsAreLate
<1> QED
  BY <1>1, <1>2, <1>3, <1>6, <1>7, <1>8

LEMMA DeleteRowKeepsInv ==
  ASSUME SubmissionInv, NEW j \in Jobs, DeleteRow(j)
  PROVE  SubmissionInv'
<1> USE JobsAssumption, DocsOfJobs DEF SubmissionInv, verifyVars, jobVars, ownerVars, cleanupVars
<1>1. TypeOK /\ TypeOK'
  BY DEF TypeOK, DeleteRow, Gone, NewRow, DocRow, Errors
<1>2. AcceptedWhole'
  BY <1>1 DEF TypeOK, AcceptedWhole, AcceptedIsComplete, NoPartialBatch, SweepsAreLate, DeleteRow, Gone, NewRow
<1>3. NothingLeftBehind'
  <2>1. /\ j \in swept /\ j \in graceOver /\ UNCHANGED <<original, urls>>
        /\ outbox' = outbox \ DocsOf(j)
        /\ \A k \in Jobs \ {j} : job'[k] = job[k]
    BY <1>1 DEF TypeOK, SweepsAreLate, DeleteRow
  <2>2. \A d \in Docs : JobOf[d] \in Jobs /\ (JobOf[d] = j => d \in DocsOf(j))
    BY DEF DocsOf
  <2> QED
    BY <2>1, <2>2 DEF NothingLeftBehind, SweepsAreLate
<1>4. VerifiersKeepToTheirJob' /\ FindingsAreTrue'
  <2>1. \A v \in Verifiers : ~At(v, "idle") => \A f \in verifier[v].found : f.doc \in Docs
    BY BusyVerifier DEF FindingIsTrue
  <2>2. UNCHANGED <<verifier, generation, original, inTime>>
    BY DEF DeleteRow
  <2>3. \A d \in Docs : ~Leaving(d)' => ~Leaving(d)
    BY <1>1 DEF TypeOK, DeleteRow, Leaving, Gone
  <2> QED
    BY <2>1, <2>2, <2>3 DEF VerifiersKeepToTheirJob, FindingsAreTrue, At
<1>5. RowsAreTrue' /\ RejectionsAreWhole'
  BY <1>1 DEF TypeOK, RowsAreTrue, RejectionsAreWhole, Leaving, DeleteRow, Gone, NewRow
<1>6. SweepsAreLate'
  BY <1>1 DEF TypeOK, SweepsAreLate, DeleteRow, Gone, NewRow
<1> QED
  BY <1>1, <1>2, <1>3, <1>4, <1>5, <1>6

\* A lease that expires, a job that ages, a URL that expires and an aborted
\* cleanup leave the tables, the bucket and the findings as they are.
LEMMA TimeKeepsInv ==
  ASSUME SubmissionInv,
         \/ \E d \in Docs : UrlExpires(d)
         \/ \E j \in Jobs : JobAges(j) \/ LeaseExpires(j)
         \/ UNCHANGED vars
  PROVE  SubmissionInv'
<1> USE DEF verifyVars, jobVars, ownerVars, cleanupVars, vars
<1>1. TypeOK /\ token \in TokenState /\ lease \in LeaseState
  BY DEF SubmissionInv, TypeOK, TokenState, LeaseState
<1>2. /\ UNCHANGED <<verifier, job, generation, doc, outbox, original, inTime, graceOver, swept>>
      /\ urls' \subseteq urls /\ aged' \subseteq Jobs /\ token' \in TokenState
  BY <1>1 DEF UrlExpires, JobAges, LeaseExpires, TypeOK
<1>3. lease' \in LeaseState
  BY <1>1 DEF UrlExpires, JobAges, LeaseExpires, LeaseState
<1> QED
  BY <1>2, <1>3, FindingsStay, TablesStay

LEMMA GraceKeepsInv ==
  ASSUME SubmissionInv, (\E j \in Jobs : GraceEnds(j)) \/ CleanupAborts
  PROVE  SubmissionInv'
<1> USE DEF SubmissionInv, verifyVars, jobVars, ownerVars, cleanupVars
<1>1. /\ UNCHANGED <<job, generation, token, lease, doc, outbox, original, verifier, urls, inTime, aged>>
      /\ swept' \subseteq swept
      /\ \A j \in graceOver' \ graceOver :
            j \in Jobs /\ job[j] = "DELETING" /\ urls \cap DocsOf(j) = {}
      /\ graceOver \subseteq graceOver'
  BY DEF GraceEnds, CleanupAborts
<1>2. TypeOK'
  BY <1>1 DEF TypeOK
<1>3. AcceptedWhole' /\ NothingLeftBehind'
  BY <1>1 DEF AcceptedWhole, AcceptedIsComplete, NoPartialBatch, NothingLeftBehind
<1>4. VerifiersKeepToTheirJob' /\ FindingsAreTrue' /\ RowsAreTrue' /\ RejectionsAreWhole'
  BY <1>1, FindingsStay DEF RowsAreTrue, RejectionsAreWhole, Leaving
<1>5. SweepsAreLate'
  BY <1>1 DEF SweepsAreLate, DocsOf
<1> QED
  BY <1>2, <1>3, <1>4, <1>5

-----------------------------------------------------------------------------
(* The transaction of a verifier that still owns the job.                  *)

\* The rows after the first UPDATE, as SaveFindings computes them.
RowsOf(v) ==
    [d \in Docs |->
       IF \E f \in verifier[v].found : f.doc = d
       THEN LET f == CHOOSE x \in verifier[v].found : x.doc = d IN
            [doc[d] EXCEPT !.versioned = (f.error = "none"),
                           !.error = f.error, !.verified = verifier[v].generation]
       ELSE doc[d]]

\* A row is as it was, or it is a finding's about a document of the job.
LEMMA SavedRows ==
  ASSUME SubmissionInv, NEW v \in Verifiers, ~At(v, "idle"), NEW d \in Docs
  PROVE  /\ RowsOf(v)[d] \in DocRow
         /\ RowsOf(v)[d].status = doc[d].status
         /\ \/ RowsOf(v)[d] = doc[d]
            \/ \E f \in verifier[v].found :
                  /\ f.doc = d /\ d \in DocsOf(verifier[v].job)
                  /\ f.error = "none" => RowsOf(v)[d].versioned
                  /\ RowsOf(v)[d].error = f.error
                  /\ RowsOf(v)[d].verified = verifier[v].generation
                  /\ FindingIsTrue(f, verifier[v].job, verifier[v].generation)
<1>1. doc[d] \in DocRow
  BY DEF SubmissionInv, TypeOK
<1>2. CASE \E f \in verifier[v].found : f.doc = d
  <2> DEFINE f == CHOOSE x \in verifier[v].found : x.doc = d
  <2>1. f \in verifier[v].found /\ f.doc = d
    BY <1>2
  <2>2. RowsOf(v)[d] = [doc[d] EXCEPT !.versioned = (f.error = "none"),
                                      !.error = f.error, !.verified = verifier[v].generation]
    BY <1>2 DEF RowsOf
  <2> HIDE DEF f
  <2>3. f.error \in Errors /\ verifier[v].generation \in Nat
        /\ FindingIsTrue(f, verifier[v].job, verifier[v].generation)
    BY <2>1, BusyVerifier DEF VerifierState
  <2>4. (f.error = "none") \in BOOLEAN
    OBVIOUS
  <2>5. /\ RowsOf(v)[d] \in DocRow /\ RowsOf(v)[d].status = doc[d].status
        /\ RowsOf(v)[d].versioned = (f.error = "none") /\ RowsOf(v)[d].error = f.error
        /\ RowsOf(v)[d].verified = verifier[v].generation
    BY <1>1, <2>2, <2>3, <2>4 DEF DocRow
  <2> QED
    BY <2>1, <2>3, <2>5 DEF FindingIsTrue
<1>3. CASE ~\E f \in verifier[v].found : f.doc = d
  BY <1>1, <1>3 DEF RowsOf
<1> QED
  BY <1>2, <1>3

\* What the transaction writes, field by field.
LEMMA SavedTables ==
  ASSUME SubmissionInv, NEW v \in Verifiers, ~At(v, "idle"), Owner(v), SaveFindings(v),
         NEW j, j = verifier[v].job, NEW g, g = verifier[v].generation
  PROVE  /\ j \in Jobs /\ g = generation[j] /\ g \in Nat /\ job[j] = "VERIFYING"
         /\ UNCHANGED <<generation, token, lease, original>>
         /\ doc' \in [Docs -> DocRow] /\ outbox' \subseteq Docs
         /\ \A k \in Jobs : k # j => job'[k] = job[k]
         /\ job' \in [Jobs -> JobStatus]
         /\ \A d \in Docs : /\ doc'[d].verified = RowsOf(v)[d].verified
                            /\ doc'[d].error = RowsOf(v)[d].error
                            /\ doc'[d].versioned = RowsOf(v)[d].versioned
         /\ \A d \in Docs : JobOf[d] # j => /\ doc'[d].status = doc[d].status
                                            /\ d \in outbox' <=> d \in outbox
         /\ \/ /\ job'[j] = "QUEUED"
               /\ \A d \in DocsOf(j) : /\ doc'[d].status = "QUEUED" /\ d \in outbox'
                                       /\ doc'[d].verified = g /\ doc'[d].error = "none"
            \/ /\ job'[j] = "UPLOADING" /\ outbox' = outbox
               /\ \A d \in DocsOf(j) : doc'[d].status = doc[d].status /\ doc'[d].verified = g
            \/ /\ job'[j] = "VERIFYING" /\ outbox' = outbox
               /\ \A d \in DocsOf(j) : doc'[d].status = doc[d].status
<1> USE DocsOfJobs
<1> DEFINE rows   == RowsOf(v)
           accept == Accepts(j, g, rows)
           done   == Unverified(j, g, rows) = {}
<1>1. TypeOK /\ j \in Jobs /\ g = generation[j] /\ g \in Nat /\ job[j] = "VERIFYING"
  BY BusyVerifier DEF SubmissionInv, Owner, VerifierState
<1>2. /\ doc' = [d \in Docs |-> IF accept /\ d \in DocsOf(j)
                                THEN [rows[d] EXCEPT !.status = "QUEUED"] ELSE rows[d]]
      /\ outbox' = IF accept THEN outbox \cup DocsOf(j) ELSE outbox
      /\ job' = IF done THEN [job EXCEPT ![j] = IF accept THEN "QUEUED" ELSE "UPLOADING"] ELSE job
      /\ UNCHANGED <<generation, token, lease, original>>
  BY DEF SaveFindings, RowsOf
<1>3. \A d \in Docs : rows[d] \in DocRow /\ rows[d].status = doc[d].status
  BY SavedRows
<1>4. accept => done
  BY DEF Accepts
<1>5. accept => \A d \in DocsOf(j) : rows[d].error = "none"
  BY DEF Accepts
<1>6. done => \A d \in DocsOf(j) : rows[d].verified = g
  BY DEF Unverified
<1> HIDE DEF rows, accept, done
<1>7. \A d \in Docs : /\ doc'[d] \in DocRow
                      /\ doc'[d].verified = rows[d].verified
                      /\ doc'[d].error = rows[d].error
                      /\ doc'[d].versioned = rows[d].versioned
                      /\ doc'[d].status = IF accept /\ d \in DocsOf(j) THEN "QUEUED" ELSE doc[d].status
  BY <1>2, <1>3 DEF DocRow
<1>8. doc' \in [Docs -> DocRow]
  BY <1>2, <1>7
<1>9. outbox' \subseteq Docs /\ job' \in [Jobs -> JobStatus]
  BY <1>1, <1>2 DEF TypeOK, JobStatus
<1>10. /\ job'[j] = IF done THEN IF accept THEN "QUEUED" ELSE "UPLOADING" ELSE "VERIFYING"
       /\ \A k \in Jobs : k # j => job'[k] = job[k]
  BY <1>1, <1>2 DEF TypeOK
<1>11. \A d \in Docs : JobOf[d] # j => doc'[d].status = doc[d].status /\ (d \in outbox' <=> d \in outbox)
  BY <1>2, <1>7
<1>12. CASE accept
  BY <1>1, <1>2, <1>4, <1>5, <1>6, <1>7, <1>8, <1>9, <1>10, <1>11, <1>12 DEF rows
<1>13. CASE ~accept
  BY <1>1, <1>2, <1>6, <1>7, <1>8, <1>9, <1>10, <1>11, <1>13 DEF rows
<1> QED
  BY <1>12, <1>13

LEMMA SaveKeepsInv ==
  ASSUME SubmissionInv, NEW v \in Verifiers, Save(v), UNCHANGED <<ownerVars, cleanupVars>>
  PROVE  SubmissionInv'
<1> USE DocsOfJobs DEF ownerVars, cleanupVars, jobVars
<1> DEFINE state == [verifier[v] EXCEPT !.pc = "releasing"]
<1>1. ~At(v, "idle") /\ verifier' = [verifier EXCEPT ![v] = state]
  BY DEF Save, At, SubmissionInv, VerifiersKeepToTheirJob
<1>2. /\ state \in VerifierState /\ state.job = verifier[v].job
      /\ state.generation = verifier[v].generation /\ state.todo = verifier[v].todo
      /\ state.found = verifier[v].found
  BY BusyVerifier DEF VerifierState
<1>3. TypeOK
  BY DEF SubmissionInv
<1> HIDE DEF state
<1>4. CASE ~Owner(v)
  <2>1. UNCHANGED <<job, generation, token, lease, doc, outbox, original>>
    BY <1>4 DEF Save
  <2>2. VerifiersKeepToTheirJob' /\ FindingsAreTrue'
    BY <1>1, <1>2, <2>1, BusyVerifier, VerifierGoesOn
  <2>3. token \in TokenState /\ lease \in LeaseState
    BY <1>3 DEF TypeOK, TokenState, LeaseState
  <2> QED
    BY <1>3, <2>1, <2>2, <2>3, TablesStay DEF TypeOK
<1>5. CASE Owner(v)
  <2> DEFINE j == verifier[v].job
             g == verifier[v].generation
  <2>0. SaveFindings(v)
    BY <1>5 DEF Save
  <2>1. /\ j \in Jobs /\ g = generation[j] /\ g \in Nat /\ job[j] = "VERIFYING"
        /\ UNCHANGED <<generation, token, lease, original>>
        /\ doc' \in [Docs -> DocRow] /\ outbox' \subseteq Docs
        /\ \A k \in Jobs : k # j => job'[k] = job[k]
        /\ job' \in [Jobs -> JobStatus]
    BY <1>1, <1>5, <2>0, SavedTables
  <2>2. /\ \A d \in Docs : JobOf[d] # j => /\ doc'[d].status = doc[d].status
                                           /\ d \in outbox' <=> d \in outbox
        /\ \/ /\ job'[j] = "QUEUED"
              /\ \A d \in DocsOf(j) : /\ doc'[d].status = "QUEUED" /\ d \in outbox'
                                      /\ doc'[d].verified = g /\ doc'[d].error = "none"
           \/ /\ job'[j] = "UPLOADING" /\ outbox' = outbox
              /\ \A d \in DocsOf(j) : doc'[d].status = doc[d].status /\ doc'[d].verified = g
           \/ /\ job'[j] = "VERIFYING" /\ outbox' = outbox
              /\ \A d \in DocsOf(j) : doc'[d].status = doc[d].status
    BY <1>1, <1>5, <2>0, SavedTables
  <2>3. \A d \in Docs :
           \/ /\ doc'[d].verified = doc[d].verified /\ doc'[d].error = doc[d].error
              /\ doc[d].versioned => doc'[d].versioned
           \/ \E f \in verifier[v].found :
                 /\ f.doc = d /\ d \in DocsOf(j)
                 /\ f.error = "none" => doc'[d].versioned
                 /\ doc'[d].error = f.error /\ doc'[d].verified = g
                 /\ FindingIsTrue(f, j, g)
    <3> TAKE d \in Docs
    <3>1. /\ doc'[d].verified = RowsOf(v)[d].verified
          /\ doc'[d].error = RowsOf(v)[d].error
          /\ doc'[d].versioned = RowsOf(v)[d].versioned
      BY <1>1, <1>5, <2>0, SavedTables
    <3> QED
      BY <1>1, <3>1, SavedRows
  <2> HIDE DEF j, g
  <2>4. \A d \in Docs : Leaving(d)' <=> Leaving(d)
    BY <2>1, <2>2 DEF Leaving, Gone
  <2>5. TypeOK'
    BY <1>3, <2>1 DEF TypeOK, JobStatus
  <2>6. VerifiersKeepToTheirJob' /\ FindingsAreTrue'
    <3>1. verifier'[v] = state /\ \A u \in Verifiers \ {v} : verifier'[u] = verifier[u]
      BY <1>1 DEF SubmissionInv, VerifiersKeepToTheirJob
    <3>2. verifier' \in [Verifiers -> VerifierState]
      BY <1>1, <1>2 DEF SubmissionInv, VerifiersKeepToTheirJob
    <3>3. ASSUME NEW u \in Verifiers, ~At(u, "idle")'
          PROVE  /\ ~At(u, "idle") /\ verifier'[u].job = verifier[u].job
                 /\ verifier'[u].generation = verifier[u].generation
                 /\ verifier'[u].todo = verifier[u].todo /\ verifier'[u].found = verifier[u].found
      BY <1>1, <1>2, <3>1, <3>3 DEF At
    <3>4. VerifiersKeepToTheirJob'
      BY <2>1, <3>2, <3>3, BusyVerifier DEF VerifiersKeepToTheirJob, FindingIsTrue
    <3>5. FindingsAreTrue'
      <4> SUFFICES ASSUME NEW u \in Verifiers, ~At(u, "idle")', NEW f \in verifier'[u].found, ~Leaving(f.doc)'
                   PROVE  /\ f.error = "none" => original'[f.doc] = "good"
                          /\ /\ f.error = "MISSING_UPLOAD"
                             /\ verifier'[u].generation = generation'[verifier'[u].job]
                             => f.doc \notin inTime'
        BY DEF FindingsAreTrue
      <4>1. FindingIsTrue(f, verifier[u].job, verifier[u].generation)
        BY <3>3, BusyVerifier
      <4>2. ~Leaving(f.doc)
        BY <2>4, <4>1 DEF FindingIsTrue
      <4> QED
        BY <2>1, <3>3, <4>1, <4>2 DEF FindingIsTrue
    <3> QED
      BY <3>4, <3>5
  <2>7. AcceptedWhole'
    <3>1. ASSUME NEW d \in Docs, job'[JobOf[d]] = "QUEUED", JobOf[d] = j
          PROVE  original'[d] = "good" /\ doc'[d].versioned /\ doc'[d].status = "QUEUED" /\ d \in outbox'
      <4>1. /\ doc'[d].status = "QUEUED" /\ d \in outbox' /\ doc'[d].verified = g /\ doc'[d].error = "none"
        BY <2>2, <3>1 DEF DocsOf
      <4>2. ~Leaving(d)
        BY <2>1, <3>1 DEF Leaving, Gone
      <4>3. doc'[d].versioned /\ original[d] = "good"
        <5>1. g # -1
          BY <2>1
        <5> QED
          BY <2>3, <4>1, <4>2, <5>1 DEF SubmissionInv, RowsAreTrue, FindingIsTrue
      <4> QED
        BY <2>1, <4>1, <4>3
    <3>2. ASSUME NEW d \in Docs, job'[JobOf[d]] = "QUEUED", JobOf[d] # j
          PROVE  original'[d] = "good" /\ doc'[d].versioned /\ doc'[d].status = "QUEUED" /\ d \in outbox'
      <4>1. job[JobOf[d]] = "QUEUED"
        BY <2>1, <3>2
      <4>2. doc[d].versioned => doc'[d].versioned
        BY <2>3, <3>2
      <4> QED
        BY <2>1, <2>2, <3>2, <4>1, <4>2 DEF SubmissionInv, AcceptedWhole, AcceptedIsComplete
    <3>3. ASSUME NEW d \in Docs, doc'[d].status = "QUEUED" \/ d \in outbox'
          PROVE  job'[JobOf[d]] \in {"QUEUED"} \cup Gone
      <4>1. CASE JobOf[d] = j
        BY <2>1, <2>2, <3>3, <4>1 DEF DocsOf, Gone, SubmissionInv, AcceptedWhole, NoPartialBatch
      <4>2. CASE JobOf[d] # j
        BY <2>1, <2>2, <3>3, <4>2 DEF SubmissionInv, AcceptedWhole, NoPartialBatch
      <4> QED
        BY <4>1, <4>2
    <3> QED
      BY <3>1, <3>2, <3>3 DEF AcceptedWhole, AcceptedIsComplete, NoPartialBatch
  <2>8. NothingLeftBehind'
    BY <2>1, <2>2 DEF SubmissionInv, NothingLeftBehind
  <2>9. RowsAreTrue'
    <3> SUFFICES ASSUME NEW d \in Docs
                 PROVE  /\ doc'[d].verified <= generation[JobOf[d]]
                        /\ ~Leaving(d) /\ doc'[d].verified # -1 /\ doc'[d].error = "none" =>
                              doc'[d].versioned /\ original[d] = "good"
                        /\ /\ ~Leaving(d) /\ doc'[d].error = "MISSING_UPLOAD"
                           /\ doc'[d].verified = generation[JobOf[d]]
                           => d \notin inTime
                        /\ ~Leaving(d) /\ d \in inTime => original[d] # "none"
      BY <2>1, <2>4 DEF RowsAreTrue
    <3>1. RowsAreTrue
      BY DEF SubmissionInv
    <3>2. CASE /\ doc'[d].verified = doc[d].verified /\ doc'[d].error = doc[d].error
               /\ doc[d].versioned => doc'[d].versioned
      BY <3>1, <3>2 DEF RowsAreTrue
    <3>3. CASE \E f \in verifier[v].found :
                 /\ f.doc = d /\ d \in DocsOf(j)
                 /\ f.error = "none" => doc'[d].versioned
                 /\ doc'[d].error = f.error /\ doc'[d].verified = g
                 /\ FindingIsTrue(f, j, g)
      BY <2>1, <3>1, <3>3 DEF RowsAreTrue, FindingIsTrue
    <3> QED
      BY <2>3, <3>2, <3>3
  <2>10. RejectionsAreWhole'
    <3> SUFFICES ASSUME NEW d \in Docs, job'[JobOf[d]] = "UPLOADING", generation[JobOf[d]] > 0
                 PROVE  doc'[d].verified = generation[JobOf[d]]
      BY <2>1 DEF RejectionsAreWhole
    <3>1. CASE JobOf[d] = j
      BY <2>1, <2>2, <3>1 DEF DocsOf
    <3>2. CASE JobOf[d] # j
      BY <2>1, <2>3, <3>2 DEF SubmissionInv, RejectionsAreWhole
    <3> QED
      BY <3>1, <3>2
  <2>11. SweepsAreLate'
    BY <1>3, <2>1 DEF TypeOK, SubmissionInv, SweepsAreLate
  <2> QED
    BY <2>5, <2>6, <2>7, <2>8, <2>9, <2>10, <2>11 DEF SubmissionInv
<1> QED
  BY <1>4, <1>5

-----------------------------------------------------------------------------
LEMMA NextInv == SubmissionInv /\ [Next]_vars => SubmissionInv'
<1> SUFFICES ASSUME SubmissionInv, [Next]_vars PROVE SubmissionInv'
  OBVIOUS
<1>1. ASSUME NEW v \in Verifiers, VerifierMoves(v) PROVE SubmissionInv'
  <2>1. ASSUME NEW j \in Jobs, ClaimJob(v, j) PROVE SubmissionInv'
    BY <1>1, <2>1, ClaimKeepsInv DEF VerifierMoves, OnlyVerifiers, ClaimJob
  <2>2. CASE SelectDocs(v)
    BY <1>1, <2>2, SelectKeepsInv DEF VerifierMoves, OnlyVerifiers, SelectDocs, jobVars
  <2>3. CASE Head(v)
    BY <1>1, <2>3, HeadKeepsInv DEF VerifierMoves, OnlyVerifiers, Head, jobVars
  <2>4. CASE Save(v)
    BY <1>1, <2>4, SaveKeepsInv DEF VerifierMoves
  <2>5. CASE Release(v)
    BY <1>1, <2>5, LeavingKeepsInv DEF VerifierMoves, OnlyVerifiers, Release
  <2> QED
    BY <1>1, <2>1, <2>2, <2>3, <2>4, <2>5 DEF VerifierMoves, VerifierStep
<1>2. ASSUME NEW v \in Verifiers, VerifierBreaks(v) PROVE SubmissionInv'
  BY <1>2, LeavingKeepsInv
     DEF VerifierBreaks, VerifierFault, OnlyVerifiers, ChunkFails, VerifierDies, jobVars
<1>3. ASSUME NEW d \in Docs, IssueUrl(d) \/ PutOriginal(d) \/ UrlExpires(d) PROVE SubmissionInv'
  BY <1>3, IssueUrlKeepsInv, PutOriginalKeepsInv, TimeKeepsInv
<1>4. ASSUME NEW j \in Jobs, Submit(j) \/ DeleteJob(j) \/ SweepJob(j) \/ DeleteRow(j)
      PROVE SubmissionInv'
  BY <1>4, SubmitKeepsInv, DeleteJobKeepsInv, SweepJobKeepsInv, DeleteRowKeepsInv
<1>5. ASSUME NEW j \in Jobs, JobAges(j) \/ GraceEnds(j) \/ LeaseExpires(j) PROVE SubmissionInv'
  BY <1>5, TimeKeepsInv, GraceKeepsInv
<1>6. CASE AbandonJobs \/ CleanupAborts \/ UNCHANGED vars
  BY <1>6, AbandonKeepsInv, GraceKeepsInv, TimeKeepsInv
<1> QED
  BY <1>1, <1>2, <1>3, <1>4, <1>5, <1>6 DEF Next

\* The inductive invariant: what verifiers have found and saved is true of the
\* bucket and of the submission it is about, and sweeps come after the uploads.
THEOREM SubmissionIsConsistent == Spec => []SubmissionInv
  BY InitInv, NextInv, PTL DEF Spec

\* Every variable holds a value of its column's kind.
THEOREM TypeCorrect == Spec => []TypeOK
<1>1. SubmissionInv => TypeOK
  BY DEF SubmissionInv
<1> QED
  BY <1>1, SubmissionIsConsistent, PTL

\* Verification.chunk: a job is queued with every document present, versioned
\* and queued, and until then none of its documents is on its way to a worker.
THEOREM JobsAreAcceptedWhole == Spec => []AcceptedWhole
<1>1. SubmissionInv => AcceptedWhole
  BY DEF SubmissionInv
<1> QED
  BY <1>1, SubmissionIsConsistent, PTL

\* Verification.chunk: no document that was in the bucket when its job was
\* submitted is reported missing by the verdict on that submission.
THEOREM RejectionsAreCurrent == Spec => []NoStaleRejection
<1>1. SubmissionInv => NoStaleRejection
  BY JobsAssumption DEF SubmissionInv, RowsAreTrue, RejectionsAreWhole, NoStaleRejection, Leaving, Gone
<1> QED
  BY <1>1, SubmissionIsConsistent, PTL

\* Controller.cleanup: no object, URL or outbox row outlives its job.
THEOREM DeletionLeavesNothing == Spec => []NothingLeftBehind
<1>1. SubmissionInv => NothingLeftBehind
  BY DEF SubmissionInv
<1> QED
  BY <1>1, SubmissionIsConsistent, PTL

\* ResultsController.delete: no step of a verifier, the owner or cleanup takes a
\* job out of its deletion.
THEOREM DeletionsAreFinal == Spec => DeletionIsFinal
<1> DEFINE Stays == \A j \in Jobs : /\ job[j] = "DELETING" => job'[j] \in Gone
                                    /\ job[j] = "DELETED" => job'[j] = "DELETED"
<1>1. SubmissionInv /\ [Next]_vars => [Stays]_vars
  <2> SUFFICES ASSUME SubmissionInv, Next PROVE Stays
    BY DEF vars, verifyVars, jobVars
  <2>1. TypeOK
    BY DEF SubmissionInv
  <2>2. ASSUME NEW v \in Verifiers, Save(v), Owner(v) PROVE Stays
    <3>1. ~At(v, "idle") /\ SaveFindings(v)
      BY <2>2 DEF Save, At
    <3>2. /\ job[verifier[v].job] = "VERIFYING"
          /\ \A k \in Jobs : k # verifier[v].job => job'[k] = job[k]
      BY <2>2, <3>1, SavedTables
    <3> QED
      BY <3>2 DEF Gone
  <2>3. ASSUME NEW v \in Verifiers, VerifierMoves(v) \/ VerifierBreaks(v) PROVE Stays
    <3>1. CASE Save(v) /\ Owner(v)
      BY <2>2, <3>1
    <3>2. CASE ~(Save(v) /\ Owner(v))
      <4>1. job' = job
        BY <2>3, <3>2 DEF VerifierMoves, VerifierBreaks, VerifierStep, VerifierFault, ClaimJob,
           SelectDocs, Head, Save, Release, ChunkFails, VerifierDies, jobVars
      <4> QED
        BY <4>1 DEF Gone
    <3> QED
      BY <3>1, <3>2
  <2>4. ASSUME NEW d \in Docs, IssueUrl(d) \/ PutOriginal(d) \/ UrlExpires(d) PROVE Stays
    BY <2>4 DEF IssueUrl, PutOriginal, UrlExpires, verifyVars, jobVars, Gone
  <2>5. ASSUME NEW j \in Jobs, \/ Submit(j) \/ DeleteJob(j) \/ SweepJob(j) \/ DeleteRow(j)
                               \/ JobAges(j) \/ GraceEnds(j) \/ LeaseExpires(j)
        PROVE  Stays
    BY <2>1, <2>5 DEF TypeOK, Submit, DeleteJob, SweepJob, DeleteRow, JobAges, GraceEnds,
       LeaseExpires, verifyVars, jobVars, Gone
  <2>6. CASE AbandonJobs \/ CleanupAborts
    BY <2>1, <2>6 DEF TypeOK, AbandonJobs, CleanupAborts, verifyVars, jobVars, Gone
  <2> QED
    BY <2>3, <2>4, <2>5, <2>6 DEF Next
<1> QED
  BY <1>1, SubmissionIsConsistent, PTL DEF Spec, DeletionIsFinal
=============================================================================
