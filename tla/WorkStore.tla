----------------------------- MODULE WorkStore -----------------------------
(***************************************************************************)
(* The database side of document processing: the jobs, documents, outbox,  *)
(* processing_attempts and orphan_results tables (V1.sql) and the          *)
(* transactions of common/WorkStore.java, ResultsController.delete and     *)
(* Controller.cleanup over them.  Every operator below is one transaction  *)
(* (or one autocommitted statement); who calls it, and what happens when   *)
(* the call fails, is in WorkerMain and Controller.                        *)
(*                                                                         *)
(* Time.  No timestamp is compared with anything but "now", so a timestamp *)
(* is kept as the answer to that comparison and time passes by the actions *)
(* at the end of the module.                                               *)
(***************************************************************************)
EXTENDS BlobStore

VARIABLES
    job,        \* jobs.status; "DELETED" once the row is gone
    graceOver,  \* DELETING jobs whose updated_at is more than 1200 s ago
    doc,        \* the documents table
    outbox,     \* the outbox row of each document
    ledger,     \* processing_attempts: is the attempt's finished_at set?
    orphan      \* orphan_results: the row of each key

storeVars == <<job, graceOver, doc, outbox, ledger, orphan>>

(***************************************************************************)
(* A document row.  lease_until is "live" or "expired" against now, "none" *)
(* for NULL; available_at <= now is "due"; last_enqueued_at is "never"     *)
(* (NULL), "recent" or "stale" (more than 120 s ago); result is the        *)
(* attempt whose token is in result_key, 0 for NULL.                       *)
(***************************************************************************)
QueuedRow == [status |-> "QUEUED", attempts |-> 0, lease |-> "none",
              due |-> TRUE, enqueued |-> "never", result |-> 0]
\* What the model keeps of a row that is deleted with its job.
NoRow     == [QueuedRow EXCEPT !.status = "DELETED", !.due = FALSE]

\* The outbox row is "read" while a dispatch that selected it is under way
\* and its available_at is still the one selected.
RowStates == {"none", "waiting", "due", "read"}

\* Verification has just accepted the jobs (Verification.chunk).
StoreInit ==
    /\ job = [j \in Jobs |-> "QUEUED"]
    /\ graceOver = {}
    /\ doc = [d \in Docs |-> QueuedRow]
    /\ outbox = [d \in Docs |-> "due"]
    /\ ledger = [k \in Key |-> "none"]
    /\ orphan = [k \in Key |-> "none"]

DocRow == [status: {"QUEUED", "PROCESSING", "RETRY_WAIT", "SUCCEEDED", "FAILED", "DELETED"},
           attempts: 0 .. MaxAttempts,
           lease: {"none", "live", "expired"},
           due: BOOLEAN,
           enqueued: {"never", "recent", "stale"},
           result: 0 .. MaxAttempts]

StoreTypeOK ==
    /\ job \in [Jobs -> Live \cup Settled \cup Gone]
    /\ graceOver \subseteq Jobs
    /\ doc \in [Docs -> DocRow]
    /\ outbox \in [Docs -> RowStates]
    /\ ledger \in [Key -> {"none", "open", "closed"}]
    /\ orphan \in [Key -> {"none", "young", "old"}]

-----------------------------------------------------------------------------
(* Helpers shared by the transactions.                                     *)

\* A mistaken summary that gives the job the status its documents share.
SummaryIfShared(S) == IF \E s \in S : S = {s} THEN CHOOSE s \in S : TRUE
                      ELSE IF S \subseteq Terminal THEN "PARTIAL_SUCCESS" ELSE "PROCESSING"

\* refresh(job): the job's status from its documents' statuses (rows is the
\* documents table as the transaction leaves it); a DELETING job keeps its own.
Summary(S) == IF ~(S \subseteq Terminal) THEN "PROCESSING"
              ELSE IF S \subseteq {"SUCCEEDED"} THEN "SUCCEEDED"
              ELSE IF S \subseteq {"FAILED"} THEN "FAILED"
              ELSE "PARTIAL_SUCCESS"

\* A mistaken refresh that sums up the rows as they were before the update.
RefreshedFromOldRows(j, rows) ==
    IF job[j] \in Gone THEN job[j] ELSE Summary({doc[d].status : d \in DocsOf(j)})

Refreshed(j, rows) ==
    IF job[j] \in Gone THEN job[j] ELSE Summary({rows[d].status : d \in DocsOf(j)})

Refresh(j, rows) == job' = [job EXCEPT ![j] = Refreshed(j, rows)]

\* Two mistaken locks: one that does not look at the token, one that does not
\* look at the job.
LockWithoutToken(d, a) ==
    /\ job[JobOf[d]] \notin Gone
    /\ doc[d].status = "PROCESSING"
    /\ doc[d].lease = "live"

LockWithoutJob(d, a) ==
    /\ doc[d].attempts = a
    /\ doc[d].status = "PROCESSING"
    /\ doc[d].lease = "live"

\* lock(claim): the claim still owns the document.
Lock(d, a) ==
    /\ job[JobOf[d]] \notin Gone
    /\ doc[d].attempts = a
    /\ doc[d].status = "PROCESSING"
    /\ doc[d].lease = "live"

-----------------------------------------------------------------------------
(* Claims, heartbeats and outcomes (called by a worker).                   *)

Claimable(d) ==
    /\ job[JobOf[d]] \in Live
    /\ doc[d].status \in {"QUEUED", "RETRY_WAIT"}
    /\ doc[d].due
    /\ doc[d].attempts < MaxAttempts

\* claim(document), when the UPDATE hits a row.
Claim(d) ==
    /\ doc' = [doc EXCEPT ![d].status = "PROCESSING",
                          ![d].attempts = @ + 1,
                          ![d].lease = "live"]
    /\ job' = [job EXCEPT ![JobOf[d]] = "PROCESSING"]
    /\ ledger' = [ledger EXCEPT ![<<d, doc[d].attempts + 1>>] = "open"]
    /\ UNCHANGED <<graceOver, outbox, orphan>>

\* A mistaken complete() that records no orphan row.
TrackNothing(k) == UNCHANGED storeVars

\* complete(): the row inserted before the upload, ON CONFLICT DO NOTHING.
TrackOrphan(k) ==
    /\ orphan' = [orphan EXCEPT ![k] = IF @ = "none" THEN "young" ELSE @]
    /\ UNCHANGED <<job, graceOver, doc, outbox, ledger>>

\* complete(): the transaction after the upload, when lock holds.
Publish(d, a) ==
    LET rows == [doc EXCEPT ![d].status = "SUCCEEDED",
                            ![d].result = a,
                            ![d].lease = "none"]
    IN  /\ doc' = rows
        /\ ledger' = [ledger EXCEPT ![<<d, a>>] = "closed"]
        /\ Refresh(JobOf[d], rows)
        /\ orphan' = [orphan EXCEPT ![<<d, a>>] = "none"]
        /\ UNCHANGED <<graceOver, outbox>>

\* fail(): whether the failure is final (the value fail returns).
FailsForGood(a, retryable) == ~(retryable /\ a < MaxAttempts)

\* fail(claim, code, retryable), when lock holds.  The row and its outbox row
\* become available after the same delay of 30 or 120 s.
Fail(d, a, retryable) ==
    LET final == FailsForGood(a, retryable)
        rows  == [doc EXCEPT ![d].status = IF final THEN "FAILED" ELSE "RETRY_WAIT",
                             ![d].lease = "none",
                             ![d].due = FALSE]
    IN  /\ doc' = rows
        /\ ledger' = [ledger EXCEPT ![<<d, a>>] = "closed"]
        /\ outbox' = IF final THEN outbox ELSE [outbox EXCEPT ![d] = "waiting"]
        /\ Refresh(JobOf[d], rows)
        /\ UNCHANGED <<graceOver, orphan>>

-----------------------------------------------------------------------------
(* Recovery and dispatch (called by the controller).                       *)

Lapsed(d) == doc[d].status = "PROCESSING" /\ doc[d].lease = "expired"

\* recover(): one transaction for each of the jobs S, leaving alone those that
\* are being deleted.
RecoverJobs(S) ==
    LET lost == {d \in Docs : JobOf[d] \in S /\ job[JobOf[d]] \notin Gone /\ Lapsed(d)}
        rows == [d \in Docs |->
                    IF d \in lost
                    THEN [doc[d] EXCEPT
                            !.status = IF doc[d].attempts >= MaxAttempts
                                       THEN "FAILED" ELSE "RETRY_WAIT",
                            !.lease = "none",
                            !.due = TRUE]
                    ELSE doc[d]]
    IN  /\ doc' = rows
        /\ ledger' = [k \in Key |->
              IF k[1] \in lost /\ k[2] = doc[k[1]].attempts THEN "closed" ELSE ledger[k]]
        /\ job' = [j \in Jobs |-> IF j \in S THEN Refreshed(j, rows) ELSE job[j]]
        /\ UNCHANGED <<graceOver, outbox, orphan>>

\* A mistaken recovery that queues again only what was never queued.
RequeueNew ==
    /\ outbox' = [d \in Docs |->
            IF /\ job[JobOf[d]] \in Live
               /\ doc[d].status \in {"QUEUED", "RETRY_WAIT"}
               /\ doc[d].enqueued = "never"
               /\ outbox[d] = "none"
            THEN IF doc[d].due THEN "due" ELSE "waiting"
            ELSE outbox[d]]
    /\ UNCHANGED <<job, graceOver, doc, ledger, orphan>>

\* recover(): outbox rows for claimable documents not enqueued lately,
\* ON CONFLICT DO NOTHING.
Requeue ==
    /\ outbox' = [d \in Docs |->
            IF /\ job[JobOf[d]] \in Live
               /\ doc[d].status \in {"QUEUED", "RETRY_WAIT"}
               /\ doc[d].enqueued \in {"never", "stale"}
               /\ outbox[d] = "none"
            THEN IF doc[d].due THEN "due" ELSE "waiting"
            ELSE outbox[d]]
    /\ UNCHANGED <<job, graceOver, doc, ledger, orphan>>

\* Controller.handleRequest: the documents that keep it dispatching.
Outstanding == {d \in Docs : /\ job[JobOf[d]] \in Live
                             /\ doc[d].status \in {"QUEUED", "RETRY_WAIT", "PROCESSING"}}

\* dispatch(): the outbox rows that are due.
DueRows == {d \in Docs : outbox[d] = "due"}

\* dispatch(): the rows selected, marked as the ones this dispatch has read.
ReadRows(D) ==
    /\ outbox' = [d \in Docs |-> IF d \in D THEN "read" ELSE outbox[d]]
    /\ UNCHANGED <<job, graceOver, doc, ledger, orphan>>

\* dispatch(): the transaction after publishing the documents D.  A row whose
\* available_at is no longer the selected one stays.
Enqueued(D) ==
    /\ doc' = [d \in Docs |-> IF d \in D /\ doc[d] # NoRow
                              THEN [doc[d] EXCEPT !.enqueued = "recent"] ELSE doc[d]]
    /\ outbox' = [d \in Docs |-> IF outbox[d] = "read" THEN "none" ELSE outbox[d]]
    /\ UNCHANGED <<job, graceOver, ledger, orphan>>

\* The dispatch ends without that transaction: its rows are ordinary again.
ForgetRead ==
    /\ outbox' = [d \in Docs |-> IF outbox[d] = "read" THEN "due" ELSE outbox[d]]
    /\ UNCHANGED <<job, graceOver, doc, ledger, orphan>>

-----------------------------------------------------------------------------
(* Deletion and cleanup.                                                   *)

\* ResultsController.delete: repeating it does not restart the grace period.
Delete(j) ==
    /\ job[j] # "DELETED"
    /\ job' = [job EXCEPT ![j] = "DELETING"]
    /\ outbox' = [d \in Docs |-> IF d \in DocsOf(j) THEN "none" ELSE outbox[d]]
    /\ UNCHANGED <<graceOver, doc, ledger, orphan>>

\* Controller.cleanup: DELETE FROM jobs, cascading to documents, outbox and
\* processing_attempts; orphan_results does not refer to the job and stays.
DeleteRow(j) ==
    /\ job' = [job EXCEPT ![j] = "DELETED"]
    /\ graceOver' = graceOver \ {j}
    /\ doc' = [d \in Docs |-> IF d \in DocsOf(j) THEN NoRow ELSE doc[d]]
    /\ outbox' = [d \in Docs |-> IF d \in DocsOf(j) THEN "none" ELSE outbox[d]]
    /\ ledger' = [k \in Key |-> IF k[1] \in DocsOf(j) THEN "none" ELSE ledger[k]]
    /\ UNCHANGED orphan

\* Controller.cleanup: SELECT count(*) FROM documents WHERE result_key = key.
Referenced(k) == doc[k[1]].result = k[2]

\* Controller.cleanup: DELETE FROM orphan_results.
Untrack(k) ==
    /\ orphan' = [orphan EXCEPT ![k] = "none"]
    /\ UNCHANGED <<job, graceOver, doc, outbox, ledger>>

-----------------------------------------------------------------------------
(* Time passes.                                                            *)

LeaseExpires(d) ==
    /\ doc[d].lease = "live"
    /\ doc' = [doc EXCEPT ![d].lease = "expired"]
    /\ UNCHANGED <<job, graceOver, outbox, ledger, orphan>>

\* available_at of a document is reached.
DelayEnds(d) ==
    /\ doc[d] # NoRow
    /\ ~doc[d].due
    /\ doc' = [doc EXCEPT ![d].due = TRUE]
    /\ UNCHANGED <<job, graceOver, outbox, ledger, orphan>>

\* available_at of an outbox row is reached: at the same second as its
\* document's, or the one after it when the clock ticks inside fail().
RowComesDue(d) ==
    /\ outbox[d] = "waiting"
    /\ doc[d].due
    /\ outbox' = [outbox EXCEPT ![d] = "due"]
    /\ UNCHANGED <<job, graceOver, doc, ledger, orphan>>

\* last_enqueued_at becomes older than 120 s.
EnqueueGoesStale(d) ==
    /\ doc[d].enqueued = "recent"
    /\ doc' = [doc EXCEPT ![d].enqueued = "stale"]
    /\ UNCHANGED <<job, graceOver, outbox, ledger, orphan>>

\* created_at of an orphan row becomes older than 1200 s.
OrphanAges(k) ==
    /\ orphan[k] = "young"
    /\ orphan' = [orphan EXCEPT ![k] = "old"]
    /\ UNCHANGED <<job, graceOver, doc, outbox, ledger>>

\* updated_at of a DELETING job becomes older than 1200 s.
GraceEnds(j) ==
    /\ job[j] = "DELETING"
    /\ j \notin graceOver
    /\ graceOver' = graceOver \cup {j}
    /\ UNCHANGED <<job, doc, outbox, ledger, orphan>>
=============================================================================
