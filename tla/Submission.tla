----------------------------- MODULE Submission -----------------------------
(***************************************************************************)
(* From a job's manifest to its acceptance: the owner (BatchService,       *)
(* ResultsController.delete), the verifiers, and the controller's cleanup  *)
(* of abandoned and deleted jobs, over one database and one bucket.        *)
(***************************************************************************)
EXTENDS Verification

VARIABLES
    urls,        \* documents whose upload URL has been issued and is valid
    aged,        \* jobs created more than 24 h ago
    graceOver,   \* DELETING jobs whose updated_at is more than 1200 s ago
    swept,       \* the job whose objects cleanup has deleted, but not its row
    faulty,      \* may calls fail and processes die?
    inTime       \* history: documents uploaded when their job was submitted

ownerVars   == <<urls, inTime>>
cleanupVars == <<aged, graceOver, swept>>
verifyVars  == <<jobVars, doc, outbox, original, verifier>>
vars        == <<verifyVars, ownerVars, cleanupVars, faulty>>

Init ==
    /\ VerificationInit
    /\ urls = {} /\ inTime = {}
    /\ aged = {} /\ graceOver = {} /\ swept = {}
    /\ faulty = MayFail

-----------------------------------------------------------------------------
(* The owner.                                                              *)

\* create() and uploads(): a URL for 15 minutes, while the job is UPLOADING.
IssueUrl(d) ==
    /\ job[JobOf[d]] = "UPLOADING"
    /\ urls' = urls \cup {d}
    /\ UNCHANGED <<verifyVars, inTime, cleanupVars, faulty>>

\* A PUT with If-None-Match: an object that is there is never replaced.
PutOriginal(d) ==
    /\ d \in urls
    /\ original[d] = "none"
    /\ \E content \in {"good", "bad"} : original' = [original EXCEPT ![d] = content]
    /\ UNCHANGED <<jobVars, doc, outbox, verifier, ownerVars, cleanupVars, faulty>>

\* submit(): a job that is not UPLOADING is left as it is.
Submit(j) ==
    /\ generation[j] < MaxSubmits   \* bound
    /\ job[j] = "UPLOADING"
    /\ job' = [job EXCEPT ![j] = "VERIFYING"]
    /\ generation' = [generation EXCEPT ![j] = @ + 1]
    /\ token' = [token EXCEPT ![j] = NoVerifier]
    /\ lease' = [lease EXCEPT ![j] = "none"]
    /\ inTime' = (inTime \ DocsOf(j)) \cup {d \in DocsOf(j) : original[d] # "none"}
    /\ UNCHANGED <<doc, outbox, original, verifier, urls, cleanupVars, faulty>>

\* A mistaken deletion: repeating it restarts the grace period.
DeleteJobAfresh(j) ==
    /\ job[j] # "DELETED"
    /\ job' = [job EXCEPT ![j] = "DELETING"]
    /\ outbox' = outbox \ DocsOf(j)
    /\ graceOver' = graceOver \ {j}
    /\ UNCHANGED <<generation, token, lease, doc, original, verifier, ownerVars,
                   aged, swept, faulty>>

\* ResultsController.delete.
DeleteJob(j) ==
    /\ job[j] # "DELETED"
    /\ job' = [job EXCEPT ![j] = "DELETING"]
    /\ outbox' = outbox \ DocsOf(j)
    /\ UNCHANGED <<generation, token, lease, doc, original, verifier, ownerVars,
                   cleanupVars, faulty>>

-----------------------------------------------------------------------------
(* Controller.cleanup.                                                     *)

\* Two mistaken cleanups of abandoned jobs: a status the schema does not have,
\* and jobs of the wrong status.
AbandonAsExpired ==
    /\ job' = [j \in Jobs |-> IF job[j] = "UPLOADING" /\ j \in aged
                              THEN "EXPIRED" ELSE job[j]]
    /\ UNCHANGED <<generation, token, lease, doc, outbox, original, verifier, ownerVars,
                   cleanupVars, faulty>>

AbandonSubmitted ==
    /\ job' = [j \in Jobs |-> IF job[j] = "VERIFYING" /\ j \in aged
                              THEN "DELETING" ELSE job[j]]
    /\ UNCHANGED <<generation, token, lease, doc, outbox, original, verifier, ownerVars,
                   cleanupVars, faulty>>

AbandonJobs ==
    /\ job' = [j \in Jobs |-> IF job[j] = "UPLOADING" /\ j \in aged
                              THEN "DELETING" ELSE job[j]]
    /\ UNCHANGED <<generation, token, lease, doc, outbox, original, verifier, ownerVars,
                   cleanupVars, faulty>>

SweepJob(j) ==
    /\ swept = {}
    /\ j \in graceOver
    /\ original' = [d \in Docs |-> IF d \in DocsOf(j) THEN "none" ELSE original[d]]
    /\ swept' = {j}
    /\ UNCHANGED <<jobVars, doc, outbox, verifier, ownerVars, aged, graceOver, faulty>>

DeleteRow(j) ==
    /\ j \in swept
    /\ swept' = {}
    /\ job' = [job EXCEPT ![j] = "DELETED"]
    /\ token' = [token EXCEPT ![j] = NoVerifier]
    /\ lease' = [lease EXCEPT ![j] = "none"]
    /\ doc' = [d \in Docs |-> IF d \in DocsOf(j)
                              THEN [NewRow EXCEPT !.status = "DELETED"] ELSE doc[d]]
    /\ outbox' = outbox \ DocsOf(j)
    /\ graceOver' = graceOver \ {j}
    /\ UNCHANGED <<generation, original, verifier, ownerVars, aged, faulty>>

\* The run ends between the two steps.
CleanupAborts ==
    /\ faulty
    /\ swept' = {}
    /\ UNCHANGED <<verifyVars, ownerVars, aged, graceOver, faulty>>

-----------------------------------------------------------------------------
(* Time.  A URL is valid for 900 s, the grace period is 1200 s, and no URL *)
(* is issued once it has begun: GraceEnds finds them all expired.  A chunk *)
(* is a matter of seconds: for its lease of 90 s to lapse under a verifier *)
(* at work is one of the faults.                                           *)

UrlExpires(d) ==
    /\ d \in urls
    /\ urls' = urls \ {d}
    /\ UNCHANGED <<verifyVars, inTime, cleanupVars, faulty>>

JobAges(j) ==
    /\ j \notin aged
    /\ aged' = aged \cup {j}
    /\ UNCHANGED <<verifyVars, ownerVars, graceOver, swept, faulty>>

\* A mistaken grace period, shorter than a URL is valid.
GraceEndsEarly(j) ==
    /\ job[j] = "DELETING"
    /\ graceOver' = graceOver \cup {j}
    /\ UNCHANGED <<verifyVars, ownerVars, aged, swept, faulty>>

GraceEnds(j) ==
    /\ job[j] = "DELETING"
    /\ urls \cap DocsOf(j) = {}
    /\ graceOver' = graceOver \cup {j}
    /\ UNCHANGED <<verifyVars, ownerVars, aged, swept, faulty>>

LeaseExpires(j) ==
    /\ lease[j] = "live"
    /\ faulty \/ \A v \in Verifiers : At(v, "idle") \/ token[j] # v \/ verifier[v].job # j
    /\ lease' = [lease EXCEPT ![j] = "expired"]
    /\ UNCHANGED <<job, generation, token, doc, outbox, original, verifier, ownerVars,
                   cleanupVars, faulty>>

-----------------------------------------------------------------------------
VerifierMoves(v) ==
    /\ VerifierStep(v)
    /\ UNCHANGED <<ownerVars, cleanupVars, faulty>>

VerifierBreaks(v) ==
    /\ faulty
    /\ VerifierFault(v)
    /\ UNCHANGED <<ownerVars, cleanupVars, faulty>>

Next ==
    \/ \E v \in Verifiers : VerifierMoves(v) \/ VerifierBreaks(v)
    \/ \E d \in Docs : IssueUrl(d) \/ PutOriginal(d) \/ UrlExpires(d)
    \/ \E j \in Jobs : \/ Submit(j) \/ DeleteJob(j)
                       \/ SweepJob(j) \/ DeleteRow(j)
                       \/ JobAges(j) \/ GraceEnds(j) \/ LeaseExpires(j)
    \/ AbandonJobs \/ CleanupAborts

Spec == Init /\ [][Next]_vars

\* The controller invokes a verifier every minute for a job that has none, and
\* comes round to its cleanup; the faults end at a moment left open.
Stabilise ==
    /\ faulty
    /\ faulty' = FALSE
    /\ UNCHANGED <<verifyVars, ownerVars, cleanupVars>>

Fairness ==
    /\ WF_vars(Stabilise)
    /\ \A v \in Verifiers : WF_vars(VerifierMoves(v))
    /\ \A d \in Docs : WF_vars(UrlExpires(d))
    /\ \A j \in Jobs : /\ WF_vars(LeaseExpires(j)) /\ WF_vars(GraceEnds(j))
                       /\ WF_vars(SweepJob(j)) /\ WF_vars(DeleteRow(j))
                       /\ WF_vars(JobAges(j))
    /\ WF_vars(AbandonJobs)

FairSpec == Init /\ [][Next \/ Stabilise]_vars /\ Fairness

-----------------------------------------------------------------------------
(* Properties.                                                             *)

\* Every variable holds a value of its column or object's kind.
TypeOK ==
    /\ job \in [Jobs -> {"UPLOADING", "VERIFYING", "QUEUED"} \cup Gone]
    /\ generation \in [Jobs -> 0 .. MaxSubmits]
    /\ token \in [Jobs -> Verifiers \cup {NoVerifier}]
    /\ lease \in [Jobs -> {"none", "live", "expired"}]
    /\ doc \in [Docs -> DocRow]
    /\ original \in [Docs -> {"none", "good", "bad"}]
    /\ outbox \cup urls \cup inTime \subseteq Docs
    /\ aged \cup graceOver \cup swept \subseteq Jobs

\* A job is accepted only whole: when it is QUEUED, every document's original
\* is in the bucket with a version, and every document is queued once.
AcceptedIsComplete ==
    \A d \in Docs : job[JobOf[d]] = "QUEUED" =>
        /\ original[d] = "good" /\ doc[d].versioned
        /\ doc[d].status = "QUEUED" /\ d \in outbox

\* "A failure does not enqueue a partial batch": until the verdict is in, no
\* document of the job is on its way to a worker.
NoPartialBatch ==
    \A d \in Docs : doc[d].status = "QUEUED" \/ d \in outbox
                       => job[JobOf[d]] \in {"QUEUED"} \cup Gone

\* A batch is queued as a whole or not at all, whichever chunk ends last.
AcceptedWhole == AcceptedIsComplete /\ NoPartialBatch

\* The findings of one submission never count for the next: a document that
\* was there when the job was submitted is not reported missing for it, however
\* late a verifier of the previous submission saves.
NoStaleRejection ==
    \A d \in Docs : LET j == JobOf[d] IN
        /\ job[j] = "UPLOADING" /\ generation[j] > 0
        /\ doc[d].error = "MISSING_UPLOAD"
        => d \notin inTime

\* The sweep of a deleted job is final: no upload still under way, no verifier
\* and no repeated request leaves an object or a row of it behind.
NothingLeftBehind ==
    \A d \in Docs : job[JobOf[d]] = "DELETED" =>
        original[d] = "none" /\ d \notin urls /\ d \notin outbox

\* A deleted job stays deleted, whatever a verifier at work on it finds.
DeletionIsFinal ==
    [][\A j \in Jobs : /\ job[j] = "DELETING" => job'[j] \in Gone
                       /\ job[j] = "DELETED" => job'[j] = "DELETED"]_vars

\* No job stays on its way in for ever: it is accepted, or given up after 24 h
\* or deleted by its owner, and then removed.
UploadsExpire == \A j \in Jobs : <>(job[j] \in {"QUEUED", "DELETED"})

\* A submitted job gets its verdict: no lost invocation, crash or stale claim
\* leaves it VERIFYING.
VerificationEnds == \A j \in Jobs : job[j] = "VERIFYING" ~> job[j] # "VERIFYING"

\* A deleted job's originals and rows are removed.
DeletionCompletes == \A j \in Jobs : job[j] = "DELETING" ~> job[j] = "DELETED"

-----------------------------------------------------------------------------
(* The inductive invariant behind the safety properties: what verifiers    *)
(* have found, and the rows they have saved, is true of the bucket and of  *)
(* the submission it is about, until the job is on its way out.            *)

Leaving(d) == job[JobOf[d]] \in Gone

\* A busy verifier works on one job; what it has found is about that job.
VerifierState ==
    [pc: {"idle", "selecting", "heading", "releasing"}, job: Jobs \cup {"none"}, generation: Nat,
     todo: SUBSET Docs, found: SUBSET [doc: Docs, error: Errors]]
VerifiersKeepToTheirJob ==
    /\ verifier \in [Verifiers -> VerifierState]
    /\ \A v \in Verifiers : ~At(v, "idle") =>
          /\ verifier[v].job \in Jobs
          /\ verifier[v].generation <= generation[verifier[v].job]
          /\ verifier[v].todo \subseteq DocsOf(verifier[v].job)
          /\ \A f \in verifier[v].found : f.doc \in DocsOf(verifier[v].job)

\* No finding without a fault but for a good original; for a submission, none
\* misses a document that was there when it was made.
FindingsAreTrue ==
    \A v \in Verifiers : ~At(v, "idle") =>
        \A f \in verifier[v].found : ~Leaving(f.doc) =>
            /\ f.error = "none" => original[f.doc] = "good"
            /\ /\ f.error = "MISSING_UPLOAD"
               /\ verifier[v].generation = generation[verifier[v].job]
               => f.doc \notin inTime

RowsAreTrue ==
    \A d \in Docs :
        /\ doc[d].verified <= generation[JobOf[d]]
        /\ ~Leaving(d) /\ doc[d].verified # -1 /\ doc[d].error = "none" =>
              doc[d].versioned /\ original[d] = "good"
        /\ /\ ~Leaving(d) /\ doc[d].error = "MISSING_UPLOAD"
           /\ doc[d].verified = generation[JobOf[d]]
           => d \notin inTime
        /\ ~Leaving(d) /\ d \in inTime => original[d] # "none"

\* A job returns to its owner with every document looked at.
RejectionsAreWhole ==
    \A d \in Docs : job[JobOf[d]] = "UPLOADING" /\ generation[JobOf[d]] > 0 =>
        doc[d].verified = generation[JobOf[d]]

\* Only jobs in deletion are swept, when their URLs have expired.
SweepsAreLate ==
    /\ \A j \in graceOver : job[j] = "DELETING"
    /\ swept \subseteq graceOver
    /\ \A d \in Docs : /\ JobOf[d] \in graceOver => d \notin urls
                       /\ JobOf[d] \in swept => original[d] = "none"

SubmissionInv ==
    /\ TypeOK /\ AcceptedWhole /\ NothingLeftBehind
    /\ VerifiersKeepToTheirJob /\ FindingsAreTrue /\ RowsAreTrue /\ RejectionsAreWhole
    /\ SweepsAreLate
=============================================================================
