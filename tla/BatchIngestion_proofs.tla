----------------------- MODULE BatchIngestion_proofs -----------------------
(***************************************************************************)
(* Proofs about BatchIngestion for every number of jobs, documents,        *)
(* workers and attempts: its types, the safety of its results, the         *)
(* agreement of its tables, and that it implements BatchPromise.           *)
(***************************************************************************)
EXTENDS BatchIngestion, TLAPS

USE JobsAssumption, AttemptsAssumption

-----------------------------------------------------------------------------
(* Type correctness of each transaction of the store.                      *)

JobStatus == Live \cup Settled \cup Gone

LEMMA SummaryType == \A S : Summary(S) \in Live \cup Settled
  BY DEF Summary, Live, Settled

LEMMA RefreshedType ==
  ASSUME StoreTypeOK, NEW j \in Jobs, NEW rows
  PROVE  Refreshed(j, rows) \in JobStatus
  BY SummaryType DEF Refreshed, StoreTypeOK, JobStatus

LEMMA StoreInitType == StoreInit => StoreTypeOK
<1> SUFFICES ASSUME StoreInit PROVE StoreTypeOK
  OBVIOUS
<1> USE DEF StoreInit
<1>1. job \in [Jobs -> JobStatus] /\ graceOver \subseteq Jobs
  BY DEF JobStatus, Live
<1>2. QueuedRow \in DocRow
  BY DEF QueuedRow, DocRow
<1>3. doc \in [Docs -> DocRow] /\ outbox \in [Docs -> RowStates]
  BY <1>2 DEF RowStates
<1>4. ledger \in [Key -> {"none", "open", "closed"}] /\ orphan \in [Key -> {"none", "young", "old"}]
  OBVIOUS
<1> QED
  BY <1>1, <1>3, <1>4 DEF StoreTypeOK, JobStatus

LEMMA ClaimType ==
  ASSUME StoreTypeOK, NEW d \in Docs, Claimable(d), Claim(d)
  PROVE  StoreTypeOK'
<1> USE DEF Claim, StoreTypeOK
<1>1. doc[d] \in DocRow /\ doc[d].attempts \in 0 .. MaxAttempts /\ doc[d].attempts + 1 \in Attempts
  BY DEF Claimable, DocRow, Attempts
<1>2. [doc[d] EXCEPT !.status = "PROCESSING", !.attempts = @ + 1, !.lease = "live"] \in DocRow
  BY <1>1 DEF DocRow, Attempts
<1>3. doc' \in [Docs -> DocRow]
  BY <1>2
<1>4. job' \in [Jobs -> JobStatus]
  BY DEF JobStatus, Live
<1>5. ledger' \in [Key -> {"none", "open", "closed"}]
  OBVIOUS
<1> QED
  BY <1>3, <1>4, <1>5 DEF JobStatus

LEMMA TrackOrphanType ==
  ASSUME StoreTypeOK, NEW k \in Key, TrackOrphan(k)
  PROVE  StoreTypeOK'
  BY DEF TrackOrphan, StoreTypeOK

LEMMA PublishType ==
  ASSUME StoreTypeOK, NEW d \in Docs, NEW a \in Attempts, Publish(d, a)
  PROVE  StoreTypeOK'
<1> USE DEF StoreTypeOK
<1>1. doc' \in [Docs -> DocRow]
  BY DEF Publish, DocRow, Attempts
<1>2. job' \in [Jobs -> JobStatus]
  BY RefreshedType DEF Publish, Refresh, JobStatus
<1>3. /\ ledger' \in [Key -> {"none", "open", "closed"}]
      /\ orphan' \in [Key -> {"none", "young", "old"}]
  BY DEF Publish
<1> QED
  BY <1>1, <1>2, <1>3 DEF Publish, JobStatus

LEMMA FailType ==
  ASSUME StoreTypeOK, NEW d \in Docs, NEW a \in Attempts, NEW retryable, Fail(d, a, retryable)
  PROVE  StoreTypeOK'
<1> USE DEF StoreTypeOK
<1>1. doc' \in [Docs -> DocRow]
  <2>1. ASSUME NEW s \in {"FAILED", "RETRY_WAIT"}
        PROVE  [doc[d] EXCEPT !.status = s, !.lease = "none", !.due = FALSE] \in DocRow
    <3>1. doc[d] \in DocRow
      OBVIOUS
    <3> QED
      BY <3>1 DEF DocRow
  <2>2. \E s \in {"FAILED", "RETRY_WAIT"} :
           doc' = [doc EXCEPT ![d] = [doc[d] EXCEPT !.status = s, !.lease = "none", !.due = FALSE]]
    BY DEF Fail
  <2> QED
    BY <2>1, <2>2
<1>2. job' \in [Jobs -> JobStatus]
  BY RefreshedType DEF Fail, Refresh, JobStatus
<1>3. ledger' \in [Key -> {"none", "open", "closed"}] /\ outbox' \in [Docs -> RowStates]
  BY DEF Fail, RowStates
<1> QED
  BY <1>1, <1>2, <1>3 DEF Fail, JobStatus

LEMMA RecoverJobsType ==
  ASSUME StoreTypeOK, NEW S, RecoverJobs(S)
  PROVE  StoreTypeOK'
<1> USE DEF StoreTypeOK
<1>1. doc' \in [Docs -> DocRow]
  <2> DEFINE freed(d) == [doc[d] EXCEPT
                            !.status = IF doc[d].attempts >= MaxAttempts
                                       THEN "FAILED" ELSE "RETRY_WAIT",
                            !.lease = "none",
                            !.due = TRUE]
             lost == {d \in Docs : JobOf[d] \in S /\ job[JobOf[d]] \notin Gone /\ Lapsed(d)}
  <2>1. ASSUME NEW d \in Docs PROVE freed(d) \in DocRow
    <3>1. doc[d] \in DocRow
      OBVIOUS
    <3> QED
      BY <3>1 DEF DocRow
  <2>2. doc' = [d \in Docs |-> IF d \in lost THEN freed(d) ELSE doc[d]]
    BY DEF RecoverJobs
  <2> HIDE DEF freed, lost
  <2> QED
    BY <2>1, <2>2
<1>2. job' \in [Jobs -> JobStatus]
  BY RefreshedType DEF RecoverJobs, JobStatus
<1>3. ledger' \in [Key -> {"none", "open", "closed"}]
  BY DEF RecoverJobs
<1> QED
  BY <1>1, <1>2, <1>3 DEF RecoverJobs, JobStatus

\* What recovery does to the documents: those it frees were being processed and are
\* given up or wait to be tried again, and nothing else about them changes.
LEMMA RecoveryFrees ==
  ASSUME StoreTypeOK, NEW S, RecoverJobs(S),
         NEW d \in Docs, NEW lost \in BOOLEAN,
         lost <=> (JobOf[d] \in S /\ job[JobOf[d]] \notin Gone /\ Lapsed(d))
  PROVE  /\ doc'[d].attempts = doc[d].attempts /\ doc'[d].result = doc[d].result
         /\ ~lost => doc'[d] = doc[d]
         /\ lost => /\ doc[d].status = "PROCESSING" /\ doc'[d].lease = "none" /\ doc'[d].due
                    /\ doc'[d].status = IF doc[d].attempts >= MaxAttempts
                                        THEN "FAILED" ELSE "RETRY_WAIT"
<1>1. doc'[d] = IF lost
                THEN [doc[d] EXCEPT !.status = IF doc[d].attempts >= MaxAttempts
                                               THEN "FAILED" ELSE "RETRY_WAIT",
                                    !.lease = "none", !.due = TRUE]
                ELSE doc[d]
  BY DEF RecoverJobs
<1>2. doc[d] \in DocRow
  BY DEF StoreTypeOK
<1>3. lost => doc[d].status = "PROCESSING"
  BY DEF Lapsed
<1> QED
  BY <1>1, <1>2, <1>3 DEF DocRow

\* The transactions that touch the outbox, and the enqueue time with it.
LEMMA OutboxType ==
  ASSUME StoreTypeOK, NEW D,
         Requeue \/ ReadRows(D) \/ Enqueued(D) \/ ForgetRead
  PROVE  StoreTypeOK'
<1> USE DEF StoreTypeOK, RowStates
<1>1. CASE Requeue
  BY <1>1 DEF Requeue
<1>2. CASE ReadRows(D)
  BY <1>2 DEF ReadRows
<1>3. CASE Enqueued(D)
  <2>1. ASSUME NEW d \in Docs PROVE [doc[d] EXCEPT !.enqueued = "recent"] \in DocRow
    <3>1. doc[d] \in DocRow
      OBVIOUS
    <3> QED
      BY <3>1 DEF DocRow
  <2>2. doc' \in [Docs -> DocRow]
    BY <1>3, <2>1 DEF Enqueued
  <2> QED
    BY <1>3, <2>2 DEF Enqueued
<1>4. CASE ForgetRead
  BY <1>4 DEF ForgetRead
<1> QED
  BY <1>1, <1>2, <1>3, <1>4

LEMMA DeletionType ==
  ASSUME StoreTypeOK, NEW j \in Jobs, Delete(j) \/ DeleteRow(j)
  PROVE  StoreTypeOK'
<1> USE DEF StoreTypeOK, RowStates
<1>1. CASE Delete(j)
  BY <1>1 DEF Delete, Gone
<1>2. CASE DeleteRow(j)
  <2>1. NoRow \in DocRow
    <3>1. QueuedRow \in DocRow
      BY DEF QueuedRow, DocRow
    <3> QED
      BY <3>1 DEF NoRow, DocRow
  <2>2. doc' \in [Docs -> DocRow]
    BY <1>2, <2>1 DEF DeleteRow
  <2> QED
    BY <1>2, <2>2 DEF DeleteRow, Gone
<1> QED
  BY <1>1, <1>2

LEMMA UntrackType ==
  ASSUME StoreTypeOK, NEW k, Untrack(k)
  PROVE  StoreTypeOK'
  BY DEF Untrack, StoreTypeOK

LEMMA TimeType ==
  ASSUME StoreTypeOK,
         \/ \E d \in Docs : \/ LeaseExpires(d) \/ DelayEnds(d)
                            \/ RowComesDue(d) \/ EnqueueGoesStale(d)
         \/ \E k \in Key : OrphanAges(k)
         \/ \E j \in Jobs : GraceEnds(j)
  PROVE  StoreTypeOK'
<1> USE DEF StoreTypeOK
<1>1. ASSUME NEW d \in Docs, LeaseExpires(d) \/ DelayEnds(d) \/ EnqueueGoesStale(d)
      PROVE  StoreTypeOK'
  <2>1. CASE LeaseExpires(d)
    BY <2>1 DEF LeaseExpires, DocRow
  <2>2. CASE DelayEnds(d)
    <3>1. doc[d] \in DocRow
      OBVIOUS
    <3>2. [doc[d] EXCEPT !.due = TRUE] \in DocRow
      BY <3>1 DEF DocRow
    <3> QED
      BY <2>2, <3>2 DEF DelayEnds
  <2>3. CASE EnqueueGoesStale(d)
    BY <2>3 DEF EnqueueGoesStale, DocRow
  <2> QED
    BY <1>1, <2>1, <2>2, <2>3
<1>2. ASSUME NEW d \in Docs, RowComesDue(d) PROVE StoreTypeOK'
  BY <1>2 DEF RowComesDue, RowStates
<1>3. ASSUME NEW k \in Key, OrphanAges(k) PROVE StoreTypeOK'
  BY <1>3 DEF OrphanAges
<1>4. ASSUME NEW j \in Jobs, GraceEnds(j) PROVE StoreTypeOK'
  BY <1>4 DEF GraceEnds
<1> QED
  BY <1>1, <1>2, <1>3, <1>4

-----------------------------------------------------------------------------
(* Type correctness of the service.                                        *)

USE QueueAssumption, MayFailAssumption

LEMMA InitType == Init => TypeOK
<1> SUFFICES ASSUME Init PROVE TypeOK
  OBVIOUS
<1>1. StoreTypeOK
  BY StoreInitType DEF Init
<1>2. entries \subseteq Entry /\ objects \subseteq Key /\ faulty \in BOOLEAN
  BY DEF Init, QueueInit, BlobInit, WorkerInit
<1>3. worker \in [Workers -> WorkerState]
  BY DEF Init, WorkerInit, WorkerState, Idle
<1>4. ctl \in [pc: ControllerPC, batch: SUBSET Docs, erased: SUBSET Jobs,
               key: Key \cup {NoKey}]
  BY DEF Init, ControllerInit, AtRest, ControllerPC
<1> QED
  BY <1>1, <1>2, <1>3, <1>4 DEF TypeOK

\* What a busy worker holds.
LEMMA HeldType ==
  ASSUME TypeOK, NEW w \in Workers
  PROVE  /\ ~At(w, "idle") => worker[w].entry \in Entry /\ DocOf(w) \in Docs
         /\ Working(w) => worker[w].attempt \in Attempts /\ KeyOf(w) \in Key
<1>1. worker[w] \in WorkerState
  BY DEF TypeOK
<1>2. ~At(w, "idle") => worker[w].entry \in Entry
  BY <1>1 DEF WorkerState, At
<1>3. worker[w].entry \in Entry => DocOf(w) \in Docs
  BY DEF Entry, DocOf
<1>4. Working(w) => worker[w].attempt \in Attempts
  BY <1>1 DEF WorkerState, Working, WorkingPC
<1>5. Working(w) => ~At(w, "idle")
  BY DEF Working, WorkingPC, At
<1> QED
  BY <1>2, <1>3, <1>4, <1>5 DEF KeyOf, Key

LEMMA FinishType ==
  ASSUME TypeOK, NEW w \in Workers, Stop(w)
  PROVE  worker' \in [Workers -> WorkerState]
  BY DEF TypeOK, Stop, Idle, WorkerState

LEMMA AcknowledgeType ==
  ASSUME TypeOK, NEW e, Acknowledge(e)
  PROVE  entries' \subseteq Entry
  BY DEF TypeOK, Acknowledge

\* ReportFailure is fail() under its lock.
LEMMA ReportFailureType ==
  ASSUME TypeOK, NEW w \in Workers, Working(w), NEW retryable, ReportFailure(w, retryable)
  PROVE  StoreTypeOK'
<1>1. DocOf(w) \in Docs /\ worker[w].attempt \in Attempts
  BY HeldType DEF Working, WorkingPC, At
<1>2. StoreTypeOK
  BY DEF TypeOK
<1>3. CASE Owns(w)
  BY <1>1, <1>2, <1>3, FailType DEF ReportFailure
<1>4. CASE ~Owns(w)
  BY <1>2, <1>4 DEF ReportFailure, StoreTypeOK, storeVars
<1> QED
  BY <1>3, <1>4

LEMMA StoreUnchanged ==
  ASSUME TypeOK, UNCHANGED storeVars
  PROVE  StoreTypeOK'
  BY DEF TypeOK, StoreTypeOK, storeVars

LEMMA WorkerType ==
  ASSUME TypeOK, NEW w \in Workers, WorkerMoves(w) \/ WorkerBreaks(w)
  PROVE  TypeOK'
<1>a. StoreTypeOK /\ worker[w] \in WorkerState
  BY DEF TypeOK
<1>b. faulty' \in BOOLEAN /\ ctl' = ctl
  BY DEF TypeOK, WorkerMoves, WorkerBreaks
<1>1. StoreTypeOK' /\ entries' \subseteq Entry /\ objects' \subseteq Key
      /\ worker' \in [Workers -> WorkerState]
  <2>1. CASE Receive(w)
    <3>1. PICK e \in entries :
             worker' = [worker EXCEPT ![w] = [Idle EXCEPT !.pc = "claiming", !.entry = e]]
      BY <2>1 DEF Receive
    <3>2. [Idle EXCEPT !.pc = "claiming", !.entry = e] \in WorkerState
      BY DEF Idle, WorkerState, TypeOK
    <3> QED
      BY <2>1, <3>1, <3>2, StoreUnchanged DEF Receive, TypeOK
  <2>2. CASE ClaimDocument(w)
    <3>1. DocOf(w) \in Docs /\ worker[w].entry \in Entry
      BY <2>2, HeldType DEF ClaimDocument, At
    <3>2. doc[DocOf(w)].attempts + 1 \in Attempts
      BY <2>2, <3>1 DEF ClaimDocument, Claimable, TypeOK, StoreTypeOK, DocRow, Attempts
    <3>3. [worker[w] EXCEPT !.pc = "parsing", !.attempt = doc[DocOf(w)].attempts + 1]
             \in WorkerState
      BY <1>a, <3>1, <3>2 DEF WorkerState, WorkingPC
    <3>4. worker' \in [Workers -> WorkerState]
      BY <2>2, <3>3 DEF ClaimDocument, TypeOK
    <3> QED
      BY <1>a, <2>2, <3>1, <3>4, ClaimType DEF ClaimDocument, TypeOK
  <2>3. CASE NothingToClaim(w) \/ Abandon(w)
    BY <2>3, StoreUnchanged, FinishType, AcknowledgeType
       DEF NothingToClaim, Abandon, Finish, TypeOK
  <2>4. CASE ParseFails(w)
    BY <2>4, ReportFailureType, FinishType, AcknowledgeType
       DEF ParseFails, Finish, Working, WorkingPC, At, TypeOK
  <2>5. CASE ParseSucceeds(w)
    <3>1. KeyOf(w) \in Key
      BY <2>5, HeldType DEF ParseSucceeds, At, Working, WorkingPC
    <3>2. CASE Owns(w)
      <4>1. StoreTypeOK'
        BY <1>a, <2>5, <3>1, <3>2, TrackOrphanType DEF ParseSucceeds
      <4>2. [worker[w] EXCEPT !.pc = "uploading"] \in WorkerState
        BY <1>a, <2>5 DEF ParseSucceeds, At, WorkerState, WorkingPC
      <4> QED
        BY <2>5, <3>2, <4>1, <4>2 DEF ParseSucceeds, Goto, TypeOK
    <3>3. CASE ~Owns(w)
      BY <2>5, <3>3, StoreUnchanged, FinishType, AcknowledgeType
         DEF ParseSucceeds, Finish, TypeOK
    <3> QED
      BY <3>2, <3>3
  <2>6. CASE Upload(w)
    <3>1. KeyOf(w) \in Key
      BY <2>6, HeldType DEF Upload, At, Working, WorkingPC
    <3>2. [worker[w] EXCEPT !.pc = "publishing"] \in WorkerState
      BY <1>a, <2>6 DEF Upload, At, WorkerState, WorkingPC
    <3> QED
      BY <2>6, <3>1, <3>2, StoreUnchanged DEF Upload, Goto, PutJson, TypeOK
  <2>7. CASE PublishResult(w)
    <3>1. DocOf(w) \in Docs /\ worker[w].attempt \in Attempts
      BY <2>7, HeldType DEF PublishResult, At, Working, WorkingPC
    <3>2. StoreTypeOK'
      BY <1>a, <2>7, <3>1, PublishType, StoreUnchanged DEF PublishResult
    <3> QED
      BY <2>7, <3>2, FinishType, AcknowledgeType DEF PublishResult, Finish, TypeOK
  <2>8. CASE CompleteThrows(w)
    BY <2>8, ReportFailureType, FinishType, AcknowledgeType
       DEF CompleteThrows, Finish, Working, WorkingPC, TypeOK
  <2>9. CASE Crash(w)
    <3>1. At(w, "uploading") => KeyOf(w) \in Key
      BY HeldType DEF At, Working, WorkingPC
    <3> QED
      BY <2>9, <3>1, StoreUnchanged, FinishType DEF Crash, PutJson, TypeOK
  <2>10. CASE DiesAfterCommit(w)
    <3>1. StoreTypeOK'
      <4>1. CASE At(w, "claiming") /\ Claimable(DocOf(w)) /\ Claim(DocOf(w))
        BY <1>a, <4>1, HeldType, ClaimType DEF At
      <4>2. CASE Working(w) /\ Publish(DocOf(w), worker[w].attempt)
        BY <1>a, <4>2, HeldType, PublishType DEF At, Working, WorkingPC
      <4>3. CASE Working(w) /\ \E r \in BOOLEAN : Fail(DocOf(w), worker[w].attempt, r)
        BY <1>a, <4>3, HeldType, FailType DEF At, Working, WorkingPC
      <4> QED
        BY <2>10, <4>1, <4>2, <4>3 DEF DiesAfterCommit, At, Working, WorkingPC
    <3> QED
      BY <2>10, <3>1, FinishType DEF DiesAfterCommit, TypeOK
  <2> QED
    BY <2>1, <2>2, <2>3, <2>4, <2>5, <2>6, <2>7, <2>8, <2>9, <2>10
       DEF WorkerMoves, WorkerBreaks, WorkerStep, WorkerFault
<1> QED
  BY <1>b, <1>1 DEF TypeOK

LEMMA ControllerType ==
  ASSUME TypeOK, ControllerStep \/ ControllerFault
  PROVE  TypeOK'
<1> DEFINE CtlState == [pc: ControllerPC, batch: SUBSET Docs, erased: SUBSET Jobs,
                        key: Key \cup {NoKey}]
<1>a. StoreTypeOK /\ ctl \in CtlState /\ AtRest \in CtlState
  BY DEF TypeOK, AtRest, ControllerPC
<1>b. ASSUME NEW pc \in ControllerPC, CtlGoto(pc) PROVE ctl' \in CtlState
  BY <1>a, <1>b DEF CtlGoto
<1>c. ASSUME NEW D, NEW held, PublishMany(D, held) PROVE entries' \subseteq Entry
  BY <1>c DEF PublishMany, TypeOK
<1>d. ASSUME NEW K, DeletePrefix(K) PROVE objects' \subseteq Key
  BY <1>d DEF DeletePrefix, TypeOK
<1>1. StoreTypeOK' /\ entries' \subseteq Entry /\ objects' \subseteq Key
      /\ ctl' \in CtlState /\ worker' = worker /\ faulty' = faulty
  <2>1. CASE Recover \/ RecoverIncomplete
    BY <1>a, <1>b, <2>1, RecoverJobsType DEF Recover, RecoverIncomplete, ControllerPC, TypeOK
  <2>2. CASE RequeueStale
    BY <1>a, <1>b, <2>2, OutboxType DEF RequeueStale, ControllerPC, TypeOK
  <2>3. CASE NothingToDispatch \/ JobsSwept
    BY <1>b, <2>3, StoreUnchanged DEF NothingToDispatch, JobsSwept, ControllerPC, TypeOK
  <2>4. CASE PublishDue
    <3>1. ctl' \in CtlState
      BY <1>a, <2>4 DEF PublishDue, DueRows, ControllerPC
    <3> QED
      BY <1>a, <1>c, <2>4, <3>1, OutboxType DEF PublishDue, TypeOK
  <2>5. CASE CommitDispatch
    <3>1. ctl' \in CtlState
      BY <1>a, <2>5 DEF CommitDispatch, ControllerPC
    <3> QED
      BY <1>a, <2>5, <3>1, OutboxType DEF CommitDispatch, TypeOK
  <2>6. CASE EraseJob
    <3>1. PICK j \in graceOver : ctl' = [ctl EXCEPT !.pc = "erased", !.erased = {j}]
      BY <2>6 DEF EraseJob
    <3>2. ctl' \in CtlState
      BY <1>a, <3>1 DEF ControllerPC, StoreTypeOK
    <3> QED
      BY <1>d, <2>6, <3>2, StoreUnchanged DEF EraseJob, TypeOK
  <2>7. CASE DeleteJobRow
    <3>1. ctl' \in CtlState
      BY <1>a, <2>7 DEF DeleteJobRow, ControllerPC
    <3>2. PICK j \in Jobs : DeleteRow(j)
      BY <1>a, <2>7 DEF DeleteJobRow
    <3> QED
      BY <1>a, <2>7, <3>1, <3>2, DeletionType DEF DeleteJobRow, TypeOK
  <2>8. CASE CheckOrphan
    <3>1. PICK k \in Key : ctl' = [ctl EXCEPT !.pc = IF Referenced(k) THEN "untrack" ELSE "purge",
                                              !.key = k]
      BY <2>8 DEF CheckOrphan
    <3>2. ctl' \in CtlState
      BY <1>a, <3>1 DEF ControllerPC
    <3> QED
      BY <2>8, <3>2, StoreUnchanged DEF CheckOrphan, TypeOK
  <2>9. CASE PurgeOrphan
    BY <1>b, <1>d, <2>9, StoreUnchanged DEF PurgeOrphan, ControllerPC, TypeOK
  <2>10. CASE UntrackOrphan
    <3>1. ctl' \in CtlState
      BY <1>a, <2>10 DEF UntrackOrphan, ControllerPC
    <3> QED
      BY <1>a, <2>10, <3>1, UntrackType DEF UntrackOrphan, TypeOK
  <2>11. CASE CleanupDone
    BY <1>a, <2>11, StoreUnchanged DEF CleanupDone, TypeOK
  <2>12. CASE RunAborts
    BY <1>a, <2>12, OutboxType DEF RunAborts, TypeOK
  <2>13. CASE PublishIncomplete
    BY <1>a, <1>c, <2>13, StoreUnchanged DEF PublishIncomplete, TypeOK
  <2>14. CASE EraseIncomplete
    BY <1>a, <1>d, <2>14, StoreUnchanged DEF EraseIncomplete, TypeOK
  <2> QED
    BY <2>1, <2>2, <2>3, <2>4, <2>5, <2>6, <2>7, <2>8, <2>9, <2>10, <2>11, <2>12, <2>13, <2>14
       DEF ControllerStep, ControllerFault
<1> QED
  BY <1>1 DEF TypeOK

LEMMA EnvironmentType ==
  ASSUME TypeOK, TimePasses \/ UserDeletes \/ RedisLoses
  PROVE  TypeOK'
<1>a. StoreTypeOK
  BY DEF TypeOK
<1>1. CASE TimePasses
  <2>1. StoreTypeOK'
    <3>1. CASE \E d \in Docs : DocTime(d) \/ LeaseTime(d)
      BY <1>a, <3>1, TimeType DEF DocTime, LeaseTime, Clock
    <3>2. CASE \E k \in Key : KeyTime(k)
      BY <1>a, <3>2, TimeType DEF KeyTime, Clock
    <3>3. CASE \E j \in Jobs : JobTime(j)
      BY <1>a, <3>3, TimeType DEF JobTime, Clock
    <3> QED
      BY <1>1, <3>1, <3>2, <3>3 DEF TimePasses
  <2> QED
    BY <1>1, <2>1 DEF TimePasses, DocTime, LeaseTime, KeyTime, JobTime, Clock, TypeOK
<1>2. CASE UserDeletes
  BY <1>a, <1>2, DeletionType DEF UserDeletes, TypeOK
<1>3. CASE RedisLoses
  BY <1>3, StoreUnchanged DEF RedisLoses, LoseEntries, TypeOK
<1> QED
  BY <1>1, <1>2, <1>3

LEMMA NextType == TypeOK /\ [Next]_vars => TypeOK'
<1> SUFFICES ASSUME TypeOK, [Next]_vars PROVE TypeOK'
  OBVIOUS
<1>1. CASE Next
  BY <1>1, WorkerType, ControllerType, EnvironmentType DEF Next
<1>2. CASE UNCHANGED vars
  BY <1>2, StoreUnchanged DEF vars, TypeOK
<1> QED
  BY <1>1, <1>2

\* In every state of the service its tables, stream, bucket and processes hold
\* values of their kind.
THEOREM TypeCorrect == Spec => []TypeOK
  BY InitType, NextType, PTL DEF Spec
-----------------------------------------------------------------------------
(* Published results are never lost, replaced or leaked: the inductive     *)
(* invariant IInv and what follows from it.                                *)
(*                                                                         *)
(* Most steps do not touch what IInv is about; QuietStep deals with them   *)
(* all at once.  The others are the steps of a result's life: a claim, the *)
(* tracking of its key, the upload, the publication, and the steps of the  *)
(* cleanup and of the clock that could interfere with it.                  *)

USE QueueAssumption, MayFailAssumption

LEMMA KeyParts ==
  \A k \in Key : k[1] \in Docs /\ k[2] \in Attempts /\ k[2] # 0 /\ k = <<k[1], k[2]>>
  BY DEF Key, Attempts

LEMMA InitInv == Init => IInv
<1> SUFFICES ASSUME Init PROVE IInv
  OBVIOUS
<1>1. TypeOK
  BY InitType
<1>2. \A w \in Workers : worker[w].pc = "idle"
  BY DEF Init, WorkerInit, Idle
<1>3. ClaimsAreDistinct /\ UploadsAreTracked
  BY <1>2 DEF ClaimsAreDistinct, UploadsAreTracked, Working, WorkingPC, UploadWindow, At
<1>4. PublishedResultsExist /\ PublishedByLastClaim /\ RowsFollowJobs
  BY DEF Init, StoreInit, QueuedRow, PublishedResultsExist, PublishedByLastClaim, Published,
         RowsFollowJobs
<1>5. NoUntrackedObject /\ CleanupIsConfined /\ FutureIsBlank
  BY DEF Init, StoreInit, BlobInit, ControllerInit, AtRest, NoUntrackedObject,
         CleanupIsConfined, FutureIsBlank
<1> QED
  BY <1>1, <1>3, <1>4, <1>5 DEF IInv

-----------------------------------------------------------------------------
(* Steps that leave results, attempts, keys and deletions alone.           *)

QuietStore ==
    /\ \A d \in Docs : /\ doc'[d].attempts = doc[d].attempts
                       /\ doc'[d].result = doc[d].result
                       /\ doc'[d].status = "SUCCEEDED" <=> doc[d].status = "SUCCEEDED"
                       /\ doc'[d].status = "DELETED" <=> doc[d].status = "DELETED"
    /\ \A j \in Jobs : job'[j] \in Gone \/ job[j] \in Gone => job'[j] = job[j]
    /\ UNCHANGED <<graceOver, orphan>>

QuietWorkers == \A w \in Workers : worker'[w] = worker[w] \/ worker'[w].pc \in {"idle", "claiming"}

QuietCtl ==
    \/ ctl'.pc = ctl.pc /\ ctl'.key = ctl.key /\ ctl'.erased = ctl.erased
    \/ ctl'.pc \notin {"purge", "untrack"} /\ ctl'.erased = {}

LEMMA QuietStep ==
  ASSUME IInv, TypeOK', QuietStore, QuietWorkers, QuietCtl, objects' = objects
  PROVE  IInv'
<1> USE DEF IInv
<1>a. TypeOK
  OBVIOUS
<1>b. \A w \in Workers : Working(w)' => Working(w) /\ worker'[w] = worker[w]
  BY DEF QuietWorkers, Working, WorkingPC
<1>c. \A w \in Workers : Working(w) => DocOf(w) \in Docs /\ JobOf[DocOf(w)] \in Jobs
                                       /\ KeyOf(w) \in Key
  BY <1>a, HeldType DEF Working, WorkingPC, At
<1>d. \A j \in Jobs : job'[j] \in Gone <=> job[j] \in Gone
  BY DEF QuietStore
<1>e. \A j \in Jobs : job'[j] = "DELETED" <=> job[j] = "DELETED"
  BY DEF QuietStore, Gone
<1>f. \A d \in Docs : JobOf[d] \in Jobs
  OBVIOUS
<1>1. PublishedResultsExist' /\ PublishedByLastClaim'
  BY <1>d, <1>f DEF QuietStore, PublishedResultsExist, PublishedByLastClaim, Published
<1>2. NoUntrackedObject'
  BY <1>a, KeyParts DEF QuietStore, NoUntrackedObject, TypeOK
<1>3. ClaimsAreDistinct'
  <2> SUFFICES ASSUME NEW w \in Workers, Working(w)'
      PROVE  /\ \/ worker'[w].attempt <= doc'[DocOf(w)'].attempts
                \/ job'[JobOf[DocOf(w)']] = "DELETED"
             /\ doc'[DocOf(w)'].result # worker'[w].attempt
             /\ \A v \in Workers \ {w} : Working(v)' => KeyOf(v)' # KeyOf(w)'
    BY DEF ClaimsAreDistinct
  <2>1. Working(w) /\ DocOf(w)' = DocOf(w) /\ worker'[w] = worker[w]
    BY <1>b DEF DocOf
  <2>2. \A v \in Workers : Working(v)' => Working(v) /\ KeyOf(v)' = KeyOf(v)
    BY <1>b DEF DocOf, KeyOf
  <2>3. DocOf(w) \in Docs /\ JobOf[DocOf(w)] \in Jobs
    BY <1>c, <2>1
  <2> QED
    BY <1>e, <2>1, <2>2, <2>3 DEF QuietStore, ClaimsAreDistinct
<1>4. UploadsAreTracked'
  <2> SUFFICES ASSUME NEW w \in Workers
      PROVE  /\ At(w, "parsing")' => orphan'[KeyOf(w)'] = "none"
             /\ UploadWindow(w)' => orphan'[KeyOf(w)'] = "young"
             /\ At(w, "publishing")' /\ job'[JobOf[DocOf(w)']] \notin Gone
                   => KeyOf(w)' \in objects'
    BY DEF UploadsAreTracked
  <2>1. At(w, "parsing")' \/ UploadWindow(w)' \/ At(w, "publishing")' => Working(w)'
    BY DEF At, UploadWindow, Working, WorkingPC
  <2> QED
    BY <1>b, <1>c, <1>d, <2>1
       DEF QuietStore, UploadsAreTracked, At, UploadWindow, DocOf, KeyOf
<1>5. CleanupIsConfined'
  <2>1. \A j \in graceOver' : job'[j] = "DELETING"
    BY <1>a DEF QuietStore, CleanupIsConfined, Gone, TypeOK, StoreTypeOK
  <2> QED
    BY <2>1, <1>a, KeyParts DEF QuietStore, QuietCtl, CleanupIsConfined, Referenced
<1>6. RowsFollowJobs' /\ FutureIsBlank'
  BY <1>e, <1>f, KeyParts DEF QuietStore, RowsFollowJobs, FutureIsBlank
<1> QED
  BY <1>1, <1>2, <1>3, <1>4, <1>5, <1>6

\* Which transactions are quiet.
LEMMA FailIsQuiet ==
  ASSUME TypeOK, NEW d \in Docs, NEW a, NEW retryable, Lock(d, a), Fail(d, a, retryable)
  PROVE  QuietStore
<1> USE DEF TypeOK, StoreTypeOK
<1>1. \A e \in Docs : /\ doc'[e].attempts = doc[e].attempts
                      /\ doc'[e].result = doc[e].result
                      /\ doc'[e].status = "SUCCEEDED" <=> doc[e].status = "SUCCEEDED"
                      /\ doc'[e].status = "DELETED" <=> doc[e].status = "DELETED"
  BY DEF Fail, Lock, DocRow
<1>2. \A j \in Jobs : job'[j] \in Gone \/ job[j] \in Gone => job'[j] = job[j]
  BY SummaryType DEF Fail, Refresh, Refreshed, Live, Settled, Gone
<1> QED
  BY <1>1, <1>2 DEF QuietStore, Fail

LEMMA RecoverJobsIsQuiet ==
  ASSUME TypeOK, NEW S, RecoverJobs(S)
  PROVE  QuietStore
<1> USE DEF TypeOK, StoreTypeOK
<1>1. \A d \in Docs : /\ doc'[d].attempts = doc[d].attempts
                      /\ doc'[d].result = doc[d].result
                      /\ doc'[d].status = "SUCCEEDED" <=> doc[d].status = "SUCCEEDED"
                      /\ doc'[d].status = "DELETED" <=> doc[d].status = "DELETED"
  <2> TAKE d \in Docs
  <2> DEFINE lost == JobOf[d] \in S /\ job[JobOf[d]] \notin Gone /\ Lapsed(d)
  <2>1. /\ doc'[d].attempts = doc[d].attempts /\ doc'[d].result = doc[d].result
        /\ ~lost => doc'[d] = doc[d]
        /\ lost => /\ doc[d].status = "PROCESSING"
                   /\ doc'[d].status \in {"FAILED", "RETRY_WAIT"}
    BY RecoveryFrees
  <2> HIDE DEF lost
  <2> QED
    BY <2>1
<1>2. \A j \in Jobs : job'[j] \in Gone \/ job[j] \in Gone => job'[j] = job[j]
  BY SummaryType DEF RecoverJobs, Refreshed, Live, Settled, Gone
<1> QED
  BY <1>1, <1>2 DEF QuietStore, RecoverJobs

LEMMA OutboxIsQuiet ==
  ASSUME TypeOK, NEW D, Requeue \/ ReadRows(D) \/ Enqueued(D) \/ ForgetRead
  PROVE  QuietStore
<1>1. CASE Enqueued(D)
  BY <1>1 DEF Enqueued, QuietStore, TypeOK, StoreTypeOK, DocRow
<1> QED
  BY <1>1 DEF Requeue, ReadRows, ForgetRead, QuietStore

LEMMA DocTimeIsQuiet ==
  ASSUME TypeOK, NEW d \in Docs,
         LeaseExpires(d) \/ DelayEnds(d) \/ RowComesDue(d) \/ EnqueueGoesStale(d)
  PROVE  QuietStore
<1> USE DEF QuietStore, TypeOK, StoreTypeOK, DocRow
<1>1. CASE LeaseExpires(d)
  BY <1>1 DEF LeaseExpires
<1>2. CASE DelayEnds(d)
  BY <1>2 DEF DelayEnds
<1>3. CASE RowComesDue(d)
  BY <1>3 DEF RowComesDue
<1>4. CASE EnqueueGoesStale(d)
  BY <1>4 DEF EnqueueGoesStale
<1> QED
  BY <1>1, <1>2, <1>3, <1>4

LEMMA NothingIsQuiet == UNCHANGED storeVars => QuietStore
  BY DEF storeVars, QuietStore

LEMMA ReportFailureIsQuiet ==
  ASSUME TypeOK, NEW w \in Workers, Working(w), NEW retryable, ReportFailure(w, retryable)
  PROVE  QuietStore
<1>1. DocOf(w) \in Docs
  BY HeldType DEF Working, WorkingPC, At
<1> QED
  BY <1>1, FailIsQuiet, NothingIsQuiet DEF ReportFailure, Owns

LEMMA StopIsQuiet ==
  ASSUME TypeOK, NEW w \in Workers, Stop(w)
  PROVE  QuietWorkers
  BY DEF Stop, Idle, QuietWorkers, TypeOK

\* The steps made of them.
LEMMA QuietWorkerStep ==
  ASSUME IInv, TypeOK', NEW w \in Workers, ctl' = ctl,
         \/ Receive(w) \/ NothingToClaim(w) \/ Abandon(w) \/ ParseFails(w)
         \/ CompleteThrows(w)
         \/ ParseSucceeds(w) /\ ~Owns(w)
         \/ PublishResult(w) /\ ~Owns(w)
         \/ Crash(w) /\ UNCHANGED objects
         \/ /\ DiesAfterCommit(w)
            /\ Working(w) /\ Owns(w)
            /\ \E r \in BOOLEAN : Fail(DocOf(w), worker[w].attempt, r)
  PROVE  IInv'
<1>a. TypeOK /\ QuietCtl
  BY DEF IInv, QuietCtl
<1>1. QuietStore
  <2>1. CASE \/ Receive(w) \/ NothingToClaim(w) \/ Abandon(w)
             \/ (ParseSucceeds(w) /\ ~Owns(w)) \/ (PublishResult(w) /\ ~Owns(w))
             \/ Crash(w)
    BY <2>1, NothingIsQuiet
       DEF Receive, NothingToClaim, Abandon, ParseSucceeds, PublishResult, Crash
  <2>2. CASE ParseFails(w) \/ CompleteThrows(w)
    BY <1>a, <2>2, ReportFailureIsQuiet DEF ParseFails, CompleteThrows, At, Working, WorkingPC
  <2>3. CASE Working(w) /\ Owns(w) /\ \E r \in BOOLEAN : Fail(DocOf(w), worker[w].attempt, r)
    BY <1>a, <2>3, HeldType, FailIsQuiet DEF Owns, Working, WorkingPC, At
  <2> QED
    BY <2>1, <2>2, <2>3
<1>2. QuietWorkers
  <2>1. CASE Receive(w)
    BY <1>a, <2>1 DEF Receive, QuietWorkers, Idle, TypeOK
  <2> QED
    BY <1>a, <2>1, StopIsQuiet
       DEF NothingToClaim, Abandon, ParseFails, CompleteThrows, ParseSucceeds, PublishResult,
           Crash, DiesAfterCommit, Finish
<1>3. objects' = objects
  BY DEF Receive, NothingToClaim, Abandon, ParseFails, CompleteThrows, ParseSucceeds,
         PublishResult, Crash, DiesAfterCommit
<1> QED
  BY <1>a, <1>1, <1>2, <1>3, QuietStep

LEMMA QuietControllerStep ==
  ASSUME IInv, TypeOK',
         \/ Recover \/ RecoverIncomplete \/ RequeueStale \/ NothingToDispatch \/ PublishDue
         \/ CommitDispatch \/ JobsSwept \/ CleanupDone \/ RunAborts \/ PublishIncomplete
  PROVE  IInv'
<1>a. TypeOK /\ (ctl.pc # "erased" => ctl.erased = {})
  BY DEF IInv, CleanupIsConfined
<1>1. QuietStore
  BY <1>a, RecoverJobsIsQuiet, OutboxIsQuiet, NothingIsQuiet
     DEF Recover, RecoverIncomplete, RequeueStale, NothingToDispatch, PublishDue,
         CommitDispatch, JobsSwept, CleanupDone, RunAborts, PublishIncomplete
<1>2. QuietWorkers /\ objects' = objects
  BY DEF Recover, RecoverIncomplete, RequeueStale, NothingToDispatch, PublishDue,
         CommitDispatch, JobsSwept, CleanupDone, RunAborts, PublishIncomplete, QuietWorkers
<1>3. QuietCtl
  <2>1. CASE \/ Recover \/ RequeueStale \/ NothingToDispatch \/ PublishDue
             \/ CommitDispatch \/ JobsSwept
    BY <1>a, <2>1
       DEF Recover, RequeueStale, NothingToDispatch, PublishDue, CommitDispatch, JobsSwept,
           CtlAt, CtlGoto, QuietCtl, TypeOK
  <2>2. CASE RecoverIncomplete \/ CleanupDone \/ RunAborts \/ PublishIncomplete
    BY <2>2 DEF RecoverIncomplete, CleanupDone, RunAborts, PublishIncomplete, AtRest, QuietCtl
  <2> QED
    BY <2>1, <2>2
<1> QED
  BY <1>1, <1>2, <1>3, QuietStep

LEMMA QuietEnvironmentStep ==
  ASSUME IInv, TypeOK',
         \/ \E d \in Docs : DocTime(d) \/ LeaseTime(d)
         \/ RedisLoses
         \/ UNCHANGED vars
  PROVE  IInv'
<1>a. TypeOK
  BY DEF IInv
<1>1. QuietStore
  BY <1>a, DocTimeIsQuiet, NothingIsQuiet DEF DocTime, LeaseTime, Clock, RedisLoses, vars
<1>2. QuietWorkers /\ QuietCtl /\ objects' = objects
  BY DEF DocTime, LeaseTime, Clock, RedisLoses, vars, QuietWorkers, QuietCtl
<1> QED
  BY <1>1, <1>2, QuietStep

-----------------------------------------------------------------------------
(* A result's life.                                                        *)

\* A claim: its attempt is new, so its key is nobody's and tracked by no row.
LEMMA ClaimKeepsInv ==
  ASSUME IInv, TypeOK', NEW w \in Workers, At(w, "claiming"),
         Claimable(DocOf(w)), Claim(DocOf(w)),
         UNCHANGED <<objects, ctl>>,
         \/ worker' = [worker EXCEPT ![w].pc = "parsing",
                                     ![w].attempt = doc[DocOf(w)].attempts + 1]
         \/ Stop(w)
  PROVE  IInv'
<1> DEFINE d == DocOf(w)
<1> USE DEF IInv
<1>a. TypeOK /\ doc \in [Docs -> DocRow] /\ job \in [Jobs -> JobStatus]
      /\ worker \in [Workers -> WorkerState]
  BY DEF TypeOK, StoreTypeOK, JobStatus
<1>b. d \in Docs /\ JobOf[d] \in Jobs
  BY HeldType DEF At
<1>c. /\ doc[d].status \in {"QUEUED", "RETRY_WAIT"}
      /\ doc[d].result = 0
      /\ job[JobOf[d]] \in Live
      /\ doc[d].attempts \in Nat
      /\ doc[d].attempts + 1 \in Attempts
  BY <1>a, <1>b DEF Claimable, PublishedByLastClaim, Published, DocRow, Attempts
<1>d. /\ \A e \in Docs : /\ e # d => doc'[e] = doc[e]
                         /\ doc'[e].result = doc[e].result
                         /\ doc'[e].attempts >= doc[e].attempts
      /\ doc'[d].status = "PROCESSING"
      /\ doc'[d].attempts = doc[d].attempts + 1
  BY <1>a, <1>b, <1>c DEF Claim, DocRow
<1>e. \A j \in Jobs : (job'[j] \in Gone \/ job[j] \in Gone) => job'[j] = job[j]
  BY <1>a, <1>c DEF Claim, Live, Gone
<1>f. graceOver' = graceOver /\ orphan' = orphan
  BY DEF Claim
<1>g. \A v \in Workers \ {w} : worker'[v] = worker[v]
  BY <1>a DEF Stop
<1>h. Working(w)' => /\ worker'[w].attempt = doc[d].attempts + 1
                     /\ worker'[w].pc = "parsing"
                     /\ DocOf(w)' = d
  <2>1. CASE Stop(w)
    BY <1>a, <2>1 DEF Stop, Idle, Working, WorkingPC
  <2>2. CASE worker' = [worker EXCEPT ![w].pc = "parsing",
                                      ![w].attempt = doc[d].attempts + 1]
    <3>1. worker'[w] = [worker[w] EXCEPT !.pc = "parsing", !.attempt = doc[d].attempts + 1]
      BY <1>a, <2>2
    <3>2. worker[w] \in [pc: {"claiming"}, entry: Entry, attempt: {0}]
      BY <1>a DEF At, WorkerState, WorkingPC
    <3> QED
      BY <3>1, <3>2 DEF DocOf
  <2> QED
    BY <2>1, <2>2
<1>i. \A v \in Workers : Working(v) => v # w /\ DocOf(v) \in Docs /\ JobOf[DocOf(v)] \in Jobs
                                     /\ worker[v].attempt \in Attempts
  BY <1>a, HeldType DEF At, Working, WorkingPC
<1>j. \A v \in Workers : Working(v) /\ DocOf(v) = d => worker[v].attempt <= doc[d].attempts
  BY <1>c DEF ClaimsAreDistinct, Live
<1>1. PublishedResultsExist'
  BY <1>b, <1>d, <1>e DEF PublishedResultsExist, Published
<1>2. PublishedByLastClaim'
  BY <1>b, <1>c, <1>d DEF PublishedByLastClaim, Published
<1>3. NoUntrackedObject'
  BY <1>a, <1>d, <1>f, KeyParts DEF NoUntrackedObject, TypeOK
<1>4. ClaimsAreDistinct'
  <2> SUFFICES ASSUME NEW u \in Workers, Working(u)'
      PROVE  /\ \/ worker'[u].attempt <= doc'[DocOf(u)'].attempts
                \/ job'[JobOf[DocOf(u)']] = "DELETED"
             /\ doc'[DocOf(u)'].result # worker'[u].attempt
             /\ \A v \in Workers \ {u} : Working(v)' => KeyOf(v)' # KeyOf(u)'
    BY DEF ClaimsAreDistinct
  <2>1. \A v \in Workers \ {w} : Working(v)' => Working(v) /\ KeyOf(v)' = KeyOf(v)
                                                  /\ DocOf(v)' = DocOf(v)
    BY <1>g DEF Working, KeyOf, DocOf
  <2>2. CASE u = w
    <3>1. worker'[w].attempt = doc[d].attempts + 1 /\ DocOf(w)' = d
      BY <1>h, <2>2
    <3>2. \A v \in Workers \ {w} : Working(v)' => KeyOf(v)' # KeyOf(w)'
      BY <1>c, <1>i, <1>j, <2>1, <3>1 DEF KeyOf, Attempts
    <3> QED
      BY <1>b, <1>c, <1>d, <2>2, <3>1, <3>2 DEF Attempts
  <2>3. CASE u # w
    <3>1. Working(u) /\ DocOf(u)' = DocOf(u) /\ worker'[u].attempt = worker[u].attempt
          /\ KeyOf(u)' = KeyOf(u)
      BY <1>g, <2>1, <2>3
    <3>2. Working(w)' => KeyOf(w)' # KeyOf(u)
      BY <1>c, <1>h, <1>i, <1>j, <3>1 DEF KeyOf, Attempts
    <3>3. \A v \in Workers \ {u} : Working(v)' => KeyOf(v)' # KeyOf(u)'
      BY <2>1, <2>3, <3>1, <3>2 DEF ClaimsAreDistinct
    <3>4. worker[u].attempt \in Nat /\ doc[DocOf(u)].attempts \in Nat
          /\ doc'[DocOf(u)].attempts \in Nat
      BY <1>a, <1>b, <1>c, <1>d, <1>i, <3>1 DEF DocRow, Attempts
    <3> QED
      BY <1>d, <1>e, <1>i, <3>1, <3>3, <3>4 DEF ClaimsAreDistinct, Gone
  <2> QED
    BY <2>2, <2>3
<1>5. UploadsAreTracked'
  <2> SUFFICES ASSUME NEW u \in Workers
      PROVE  /\ At(u, "parsing")' => orphan'[KeyOf(u)'] = "none"
             /\ UploadWindow(u)' => orphan'[KeyOf(u)'] = "young"
             /\ At(u, "publishing")' /\ job'[JobOf[DocOf(u)']] \notin Gone
                   => KeyOf(u)' \in objects'
    BY DEF UploadsAreTracked
  <2>1. CASE u = w
    <3>1. \A a \in Attempts : a > doc[d].attempts => orphan[<<d, a>>] = "none"
      BY <1>b, <1>c DEF FutureIsBlank, Key, Live
    <3>2. Working(w)' => orphan'[KeyOf(w)'] = "none"
      BY <1>c, <1>f, <1>h, <3>1 DEF KeyOf
    <3> QED
      BY <1>h, <2>1, <3>2 DEF At, UploadWindow, Working, WorkingPC
  <2>2. CASE u # w
    <3>1. worker'[u] = worker[u]
      BY <1>g, <2>2
    <3>2. At(u, "publishing") => JobOf[DocOf(u)] \in Jobs
      BY <1>i DEF At, Working, WorkingPC
    <3> QED
      BY <1>e, <1>f, <3>1, <3>2 DEF UploadsAreTracked, At, UploadWindow, KeyOf, DocOf
  <2> QED
    BY <2>1, <2>2
<1>6. CleanupIsConfined'
  <2>1. \A j \in graceOver' : job'[j] = "DELETING"
    BY <1>a, <1>e, <1>f DEF CleanupIsConfined, Gone, TypeOK, StoreTypeOK
  <2>2. \A k \in Key : Referenced(k)' <=> Referenced(k)
    BY <1>d, KeyParts DEF Referenced
  <2>3. ctl'.pc \in {"purge", "untrack"} => ctl'.key \in Key
    BY DEF CleanupIsConfined
  <2> QED
    BY <1>f, <2>1, <2>2, <2>3 DEF CleanupIsConfined, Referenced
<1>7. RowsFollowJobs' /\ FutureIsBlank'
  <2>1. RowsFollowJobs'
    BY <1>b, <1>c, <1>d, <1>e DEF RowsFollowJobs, Gone, Live
  <2>2. FutureIsBlank'
    <3> SUFFICES ASSUME NEW k \in Key, job'[JobOf[k[1]]] # "DELETED", k[2] > doc'[k[1]].attempts
        PROVE  orphan'[k] = "none"
      BY DEF FutureIsBlank
    <3>1. k[1] \in Docs /\ k[2] \in Nat /\ doc[k[1]].attempts \in Nat
          /\ doc'[k[1]].attempts \in Nat
      BY <1>a, <1>b, <1>c, <1>d, KeyParts DEF DocRow, Attempts
    <3> QED
      BY <1>d, <1>e, <1>f, <3>1 DEF FutureIsBlank, Gone
  <2> QED
    BY <2>1, <2>2
<1> QED
  BY <1>1, <1>2, <1>3, <1>4, <1>5, <1>6, <1>7

\* complete() starts: the key of a parsing worker gets its young row.
LEMMA TrackKeepsInv ==
  ASSUME IInv, TypeOK', NEW w \in Workers, ParseSucceeds(w), Owns(w), ctl' = ctl
  PROVE  IInv'
<1> DEFINE k == KeyOf(w)
<1> USE DEF IInv
<1>a. TypeOK /\ orphan \in [Key -> {"none", "young", "old"}] /\ worker \in [Workers -> WorkerState]
  BY DEF TypeOK, StoreTypeOK
<1>b. Working(w) /\ At(w, "parsing") /\ DocOf(w) \in Docs /\ k \in Key
  BY HeldType DEF ParseSucceeds, At, Working, WorkingPC
<1>c. orphan[k] = "none" /\ orphan' = [orphan EXCEPT ![k] = "young"]
  BY <1>a, <1>b DEF UploadsAreTracked, ParseSucceeds, TrackOrphan
<1>d. UNCHANGED <<job, graceOver, doc, objects>>
  BY DEF ParseSucceeds, TrackOrphan
<1>e. worker' = [worker EXCEPT ![w].pc = "uploading"]
  BY DEF ParseSucceeds, Goto
<1>f. \A v \in Workers : /\ Working(v)' <=> Working(v)
                         /\ DocOf(v)' = DocOf(v) /\ KeyOf(v)' = KeyOf(v)
                         /\ worker'[v].attempt = worker[v].attempt
                         /\ v # w => worker'[v] = worker[v]
  BY <1>a, <1>b, <1>e DEF Working, WorkingPC, DocOf, KeyOf
<1>1. PublishedResultsExist' /\ PublishedByLastClaim' /\ RowsFollowJobs'
  BY <1>d DEF PublishedResultsExist, PublishedByLastClaim, RowsFollowJobs, Published
<1>2. NoUntrackedObject'
  BY <1>a, <1>c, <1>d DEF NoUntrackedObject, TypeOK
<1>3. ClaimsAreDistinct'
  BY <1>d, <1>f DEF ClaimsAreDistinct
<1>4. UploadsAreTracked'
  <2> SUFFICES ASSUME NEW u \in Workers
      PROVE  /\ At(u, "parsing")' => orphan'[KeyOf(u)'] = "none"
             /\ UploadWindow(u)' => orphan'[KeyOf(u)'] = "young"
             /\ At(u, "publishing")' /\ job'[JobOf[DocOf(u)']] \notin Gone
                   => KeyOf(u)' \in objects'
    BY DEF UploadsAreTracked
  <2>1. CASE u = w
    BY <1>a, <1>b, <1>c, <1>e, <1>f, <2>1 DEF At, UploadWindow
  <2>2. CASE u # w
    <3>1. worker'[u] = worker[u] /\ KeyOf(u)' = KeyOf(u) /\ DocOf(u)' = DocOf(u)
      BY <1>f, <2>2
    <3>2. Working(u) => KeyOf(u) # k /\ KeyOf(u) \in Key
      BY <1>b, <2>2, HeldType DEF ClaimsAreDistinct
    <3>3. Working(u) => orphan'[KeyOf(u)] = orphan[KeyOf(u)]
      BY <1>a, <1>c, <3>2
    <3> QED
      BY <1>d, <3>1, <3>3 DEF UploadsAreTracked, At, UploadWindow, Working, WorkingPC
  <2> QED
    BY <2>1, <2>2
<1>5. CleanupIsConfined'
  <2>1. \A x \in Key : orphan[x] # "none" => orphan'[x] = orphan[x]
    BY <1>a, <1>c
  <2>2. \A x \in objects : x \in Key
    BY <1>a DEF TypeOK
  <2> QED
    BY <1>d, <2>1, <2>2 DEF CleanupIsConfined, Referenced
<1>6. FutureIsBlank'
  <2>1. k[1] = DocOf(w) /\ k[2] = doc[DocOf(w)].attempts
    BY DEF KeyOf, Owns, Lock
  <2>2. doc[DocOf(w)].attempts \in Nat
    BY <1>a, <1>b DEF TypeOK, StoreTypeOK, DocRow
  <2> QED
    BY <1>a, <1>c, <1>d, <2>1, <2>2, KeyParts DEF FutureIsBlank
<1> QED
  BY <1>1, <1>2, <1>3, <1>4, <1>5, <1>6

\* The upload, seen through by the worker or carried out after its death.
LEMMA UploadKeepsInv ==
  ASSUME IInv, TypeOK', NEW w \in Workers, At(w, "uploading"), PutJson(KeyOf(w)),
         UNCHANGED <<storeVars, ctl>>, Goto(w, "publishing") \/ Stop(w)
  PROVE  IInv'
<1> DEFINE k == KeyOf(w)
<1> USE DEF IInv
<1>a. TypeOK /\ worker \in [Workers -> WorkerState] /\ objects \subseteq Key
  BY DEF TypeOK
<1>b. k \in Key /\ Working(w) /\ orphan[k] = "young"
  BY HeldType DEF At, Working, WorkingPC, UploadsAreTracked, UploadWindow
<1>c. objects' = objects \cup {k} /\ UNCHANGED <<job, graceOver, doc, orphan, ctl>>
  BY DEF PutJson, storeVars
<1>d. /\ \A v \in Workers \ {w} : worker'[v] = worker[v]
      /\ worker'[w].pc \in {"idle", "publishing"}
      /\ worker'[w].pc = "publishing" => /\ worker'[w].entry = worker[w].entry
                                         /\ worker'[w].attempt = worker[w].attempt
  <2>1. CASE Goto(w, "publishing")
    BY <1>a, <2>1 DEF Goto, At, WorkerState, WorkingPC
  <2>2. CASE Stop(w)
    BY <1>a, <2>2 DEF Stop, Idle
  <2> QED
    BY <2>1, <2>2
<1>e. \A v \in Workers :
         Working(v)' => /\ Working(v)
                        /\ DocOf(v)' = DocOf(v) /\ KeyOf(v)' = KeyOf(v)
                        /\ worker'[v].attempt = worker[v].attempt
  BY <1>b, <1>d DEF Working, WorkingPC, DocOf, KeyOf
<1>1. PublishedResultsExist' /\ PublishedByLastClaim' /\ RowsFollowJobs' /\ FutureIsBlank'
  BY <1>c DEF PublishedResultsExist, PublishedByLastClaim, RowsFollowJobs, Published,
              FutureIsBlank
<1>2. NoUntrackedObject'
  BY <1>b, <1>c DEF NoUntrackedObject
<1>3. ClaimsAreDistinct'
  BY <1>c, <1>e DEF ClaimsAreDistinct
<1>4. UploadsAreTracked'
  <2> SUFFICES ASSUME NEW u \in Workers
      PROVE  /\ At(u, "parsing")' => orphan'[KeyOf(u)'] = "none"
             /\ UploadWindow(u)' => orphan'[KeyOf(u)'] = "young"
             /\ At(u, "publishing")' /\ job'[JobOf[DocOf(u)']] \notin Gone
                   => KeyOf(u)' \in objects'
    BY DEF UploadsAreTracked
  <2>1. CASE u = w
    <3>1. At(w, "publishing")' \/ UploadWindow(w)' => KeyOf(w)' = k
      BY <1>e DEF At, UploadWindow, Working, WorkingPC
    <3> QED
      BY <1>b, <1>c, <1>d, <2>1, <3>1 DEF At, UploadWindow
  <2>2. CASE u # w
    BY <1>c, <1>d, <2>2 DEF UploadsAreTracked, At, UploadWindow, KeyOf, DocOf
  <2> QED
    BY <2>1, <2>2
<1>5. CleanupIsConfined'
  BY <1>b, <1>c DEF CleanupIsConfined, Referenced
<1> QED
  BY <1>1, <1>2, <1>3, <1>4, <1>5

\* The publication: the object is there, its row is young, and the document's
\* earlier attempts have published nothing.
LEMMA PublishKeepsInv ==
  ASSUME IInv, TypeOK', NEW w \in Workers, At(w, "publishing"), Owns(w),
         Publish(DocOf(w), worker[w].attempt), Stop(w), UNCHANGED <<objects, ctl>>
  PROVE  IInv'
<1> DEFINE d == DocOf(w)
           a == worker[w].attempt
           k == <<d, a>>
<1> USE DEF IInv
<1>a. TypeOK /\ doc \in [Docs -> DocRow] /\ job \in [Jobs -> JobStatus]
      /\ worker \in [Workers -> WorkerState] /\ objects \subseteq Key
      /\ orphan \in [Key -> {"none", "young", "old"}]
  BY DEF TypeOK, StoreTypeOK, JobStatus
<1>b. Working(w) /\ d \in Docs /\ JobOf[d] \in Jobs /\ a \in Attempts /\ k \in Key /\ k = KeyOf(w)
  BY HeldType DEF At, Working, WorkingPC, KeyOf
<1>c. /\ doc[d].status = "PROCESSING" /\ doc[d].attempts = a /\ doc[d].result = 0
      /\ job[JobOf[d]] \notin Gone
  BY <1>b DEF Owns, Lock, PublishedByLastClaim, Published
<1>d. k \in objects /\ orphan[k] = "young"
  BY <1>b, <1>c DEF UploadsAreTracked, UploadWindow, At
<1>e. /\ \A e \in Docs \ {d} : doc'[e] = doc[e]
      /\ doc'[d].status = "SUCCEEDED" /\ doc'[d].attempts = a /\ doc'[d].result = a
      /\ \A e \in Docs : doc'[e].attempts = doc[e].attempts
  BY <1>a, <1>b, <1>c DEF Publish, DocRow
<1>f. \A j \in Jobs : job'[j] \in Gone \/ job[j] \in Gone => job'[j] = job[j]
  BY <1>a, <1>c, SummaryType DEF Publish, Refresh, Refreshed, Live, Settled, Gone
<1>g. orphan' = [orphan EXCEPT ![k] = "none"] /\ graceOver' = graceOver
  BY DEF Publish
<1>h. /\ \A v \in Workers \ {w} : worker'[v] = worker[v]
      /\ worker'[w].pc = "idle"
  BY <1>a DEF Stop, Idle
<1>i. \A v \in Workers : Working(v)' => /\ Working(v) /\ v # w
                                         /\ KeyOf(v)' = KeyOf(v) /\ KeyOf(v) # k
                                         /\ DocOf(v)' = DocOf(v) /\ DocOf(v) \in Docs
                                         /\ KeyOf(v) \in Key
                                         /\ worker'[v].attempt = worker[v].attempt
  BY <1>b, <1>h, HeldType DEF Working, WorkingPC, KeyOf, DocOf, ClaimsAreDistinct, At
<1>1. PublishedResultsExist'
  BY <1>b, <1>d, <1>e, <1>f DEF PublishedResultsExist, Published
<1>2. PublishedByLastClaim'
  BY <1>b, <1>e DEF PublishedByLastClaim, Published
<1>3. NoUntrackedObject'
  <2> SUFFICES ASSUME NEW x \in objects
      PROVE  doc'[x[1]].result = x[2] \/ orphan'[x] # "none"
    BY DEF NoUntrackedObject
  <2>1. x[1] \in Docs /\ x[2] # 0 /\ x = <<x[1], x[2]>> /\ x \in Key
    BY <1>a, KeyParts
  <2>2. CASE x = k
    BY <1>e, <2>2
  <2>3. CASE x # k
    BY <1>a, <1>c, <1>e, <1>g, <2>1, <2>3 DEF NoUntrackedObject
  <2> QED
    BY <2>2, <2>3
<1>4. ClaimsAreDistinct'
  <2> SUFFICES ASSUME NEW u \in Workers, Working(u)'
      PROVE  /\ \/ worker'[u].attempt <= doc'[DocOf(u)'].attempts
                \/ job'[JobOf[DocOf(u)']] = "DELETED"
             /\ doc'[DocOf(u)'].result # worker'[u].attempt
             /\ \A v \in Workers \ {u} : Working(v)' => KeyOf(v)' # KeyOf(u)'
    BY DEF ClaimsAreDistinct
  <2>1. doc'[DocOf(u)].result # worker[u].attempt
    <3>1. CASE DocOf(u) = d
      BY <1>e, <1>i, <3>1 DEF KeyOf
    <3>2. CASE DocOf(u) # d
      BY <1>e, <1>i, <3>2 DEF ClaimsAreDistinct
    <3> QED
      BY <3>1, <3>2
  <2>2. job[JobOf[DocOf(u)]] = "DELETED" => job'[JobOf[DocOf(u)]] = "DELETED"
    BY <1>f, <1>i DEF Gone
  <2> QED
    BY <1>e, <1>i, <2>1, <2>2 DEF ClaimsAreDistinct
<1>5. UploadsAreTracked'
  <2> SUFFICES ASSUME NEW u \in Workers
      PROVE  /\ At(u, "parsing")' => orphan'[KeyOf(u)'] = "none"
             /\ UploadWindow(u)' => orphan'[KeyOf(u)'] = "young"
             /\ At(u, "publishing")' /\ job'[JobOf[DocOf(u)']] \notin Gone
                   => KeyOf(u)' \in objects'
    BY DEF UploadsAreTracked
  <2>1. At(u, "parsing")' \/ UploadWindow(u)' \/ At(u, "publishing")' => Working(u)'
    BY DEF At, UploadWindow, Working, WorkingPC
  <2>2. Working(u)' => /\ orphan'[KeyOf(u)] = orphan[KeyOf(u)]
                       /\ JobOf[DocOf(u)] \in Jobs
    BY <1>a, <1>g, <1>i
  <2> QED
    BY <1>f, <1>h, <1>i, <2>1, <2>2 DEF UploadsAreTracked, At, UploadWindow
<1>6. CleanupIsConfined'
  <2>1. \A j \in graceOver' : job'[j] = "DELETING" /\ j # JobOf[d]
    BY <1>a, <1>c, <1>f, <1>g DEF CleanupIsConfined, Gone, TypeOK, StoreTypeOK
  <2>2. \A j \in ctl.erased, x \in objects : JobOf[x[1]] = j => orphan'[x] # "none"
    <3>1. \A x \in objects : JobOf[x[1]] # JobOf[d] => orphan'[x] = orphan[x]
      BY <1>a, <1>g
    <3> QED
      BY <1>c, <1>g, <2>1, <3>1 DEF CleanupIsConfined
  <2>3. ctl.pc \in {"purge", "untrack"} => ctl.key # k /\ orphan'[ctl.key] = "old"
    BY <1>a, <1>d, <1>g DEF CleanupIsConfined
  <2>4. ctl.key \in Key /\ ctl.key # k => (Referenced(ctl.key)' => Referenced(ctl.key))
    BY <1>c, <1>e, KeyParts DEF Referenced
  <2>5. ctl.pc \in {"purge", "untrack"} /\ Referenced(ctl.key) => Referenced(ctl.key)'
    BY <1>c, <1>e, KeyParts DEF Referenced, CleanupIsConfined
  <2> QED
    BY <1>g, <2>1, <2>2, <2>3, <2>4, <2>5 DEF CleanupIsConfined, Referenced
<1>7. RowsFollowJobs' /\ FutureIsBlank'
  <2>1. RowsFollowJobs'
    BY <1>c, <1>e, <1>f DEF RowsFollowJobs, Gone
  <2>2. FutureIsBlank'
    BY <1>a, <1>e, <1>f, <1>g, KeyParts DEF FutureIsBlank, Gone
  <2> QED
    BY <2>1, <2>2
<1> QED
  BY <1>1, <1>2, <1>3, <1>4, <1>5, <1>6, <1>7

-----------------------------------------------------------------------------
(* Cleanup and the clock: the workers stand still.                         *)

\* Sweeping the objects of a job past its grace period, completely or in part.
LEMMA EraseKeepsInv ==
  ASSUME IInv, TypeOK', EraseJob \/ EraseIncomplete
  PROVE  IInv'
<1> USE DEF IInv
<1>a. TypeOK /\ graceOver \subseteq Jobs /\ objects \subseteq Key
  BY DEF TypeOK, StoreTypeOK
<1>b. UNCHANGED <<job, graceOver, doc, orphan, worker>>
  BY DEF EraseJob, EraseIncomplete, storeVars
<1>c. PICK j \in graceOver : objects' \subseteq objects
                             /\ \A k \in objects \ objects' : JobOf[k[1]] = j
  <2>1. \A j \in graceOver : \A k \in DocsOf(j) \X Attempts : JobOf[k[1]] = j
    BY DEF DocsOf
  <2> QED
    BY <2>1 DEF EraseJob, EraseIncomplete, DeletePrefix
<1>d. j \in Jobs /\ job[j] = "DELETING"
  BY <1>a DEF CleanupIsConfined
<1>1. PublishedResultsExist'
  BY <1>b, <1>c, <1>d DEF PublishedResultsExist, Published, Gone
<1>2. PublishedByLastClaim' /\ NoUntrackedObject' /\ ClaimsAreDistinct'
      /\ RowsFollowJobs' /\ FutureIsBlank'
  BY <1>b, <1>c DEF PublishedByLastClaim, Published, NoUntrackedObject, ClaimsAreDistinct,
     Working, KeyOf, DocOf, RowsFollowJobs, FutureIsBlank
<1>3. UploadsAreTracked'
  BY <1>b, <1>c, <1>d DEF UploadsAreTracked, At, UploadWindow, KeyOf, DocOf, Gone
<1>4. CleanupIsConfined'
  <2>1. CASE EraseIncomplete
    BY <1>b, <2>1 DEF EraseIncomplete, AtRest, CleanupIsConfined
  <2>2. CASE EraseJob
    <3>1. PICK i \in graceOver : /\ objects' = objects \ (DocsOf(i) \X Attempts)
                                 /\ ctl' = [ctl EXCEPT !.pc = "erased", !.erased = {i}]
      BY <2>2 DEF EraseJob, DeletePrefix
    <3>2. ctl'.pc = "erased" /\ ctl'.erased = {i}
      BY <1>a, <3>1 DEF TypeOK
    <3>3. \A k \in objects' : JobOf[k[1]] # i
      <4>1. \A k \in Key : JobOf[k[1]] = i => k \in DocsOf(i) \X Attempts
        BY DEF DocsOf, Key
      <4> QED
        BY <1>a, <3>1, <4>1
    <3> QED
      BY <1>b, <3>2, <3>3 DEF CleanupIsConfined
  <2> QED
    BY <2>1, <2>2
<1> QED
  BY <1>1, <1>2, <1>3, <1>4

\* Deleting the row: every object the job still had is tracked by now.
LEMMA DeleteRowKeepsInv ==
  ASSUME IInv, TypeOK', DeleteJobRow
  PROVE  IInv'
<1> USE DEF IInv
<1>a. TypeOK /\ graceOver \subseteq Jobs /\ objects \subseteq Key /\ job \in [Jobs -> JobStatus]
      /\ doc \in [Docs -> DocRow]
  BY DEF TypeOK, StoreTypeOK, JobStatus
<1>b. PICK j \in ctl.erased : DeleteRow(j)
  BY DEF DeleteJobRow
<1>c. j \in Jobs /\ job[j] = "DELETING"
  BY <1>a DEF CleanupIsConfined
<1>d. /\ job' = [job EXCEPT ![j] = "DELETED"]
      /\ graceOver' = graceOver \ {j}
      /\ \A d \in Docs : /\ JobOf[d] # j => doc'[d] = doc[d]
                         /\ JobOf[d] = j => doc'[d] = NoRow
      /\ orphan' = orphan
  BY <1>a, <1>b DEF DeleteRow, DocsOf
<1>e. UNCHANGED <<objects, worker>>
  BY DEF DeleteJobRow
<1>f. ctl'.pc = "cleanup" /\ ctl'.erased = {}
  BY <1>a DEF DeleteJobRow, TypeOK
<1>g. NoRow.status = "DELETED" /\ NoRow.result = 0 /\ NoRow.attempts = 0
  BY DEF NoRow, QueuedRow
<1>h. \A w \in Workers : Working(w) => /\ DocOf(w) \in Docs /\ JobOf[DocOf(w)] \in Jobs
                                       /\ worker[w].attempt # 0
  BY HeldType DEF Working, WorkingPC, At, Attempts
<1>i. job'[j] = "DELETED" /\ \A i \in Jobs \ {j} : job'[i] = job[i]
  BY <1>a, <1>c, <1>d
<1>1. PublishedResultsExist' /\ PublishedByLastClaim'
  BY <1>c, <1>d, <1>e, <1>g, <1>i DEF PublishedResultsExist, PublishedByLastClaim, Published, Gone
<1>2. NoUntrackedObject'
  <2> SUFFICES ASSUME NEW k \in objects
      PROVE  doc'[k[1]].result = k[2] \/ orphan'[k] # "none"
    BY <1>e DEF NoUntrackedObject
  <2>1. k[1] \in Docs
    BY <1>a, KeyParts
  <2>2. CASE JobOf[k[1]] = j
    BY <1>d, <2>2 DEF CleanupIsConfined
  <2>3. CASE JobOf[k[1]] # j
    BY <1>d, <2>1, <2>3 DEF NoUntrackedObject
  <2> QED
    BY <2>2, <2>3
<1>3. ClaimsAreDistinct'
  <2> SUFFICES ASSUME NEW w \in Workers, Working(w)
      PROVE  /\ worker[w].attempt <= doc'[DocOf(w)].attempts \/ job'[JobOf[DocOf(w)]] = "DELETED"
             /\ doc'[DocOf(w)].result # worker[w].attempt
             /\ \A v \in Workers \ {w} : Working(v) => KeyOf(v) # KeyOf(w)
    BY <1>e DEF ClaimsAreDistinct, Working, KeyOf, DocOf
  <2>1. CASE JobOf[DocOf(w)] = j
    BY <1>d, <1>g, <1>h, <1>i, <2>1 DEF ClaimsAreDistinct
  <2>2. CASE JobOf[DocOf(w)] # j
    BY <1>d, <1>h, <1>i, <2>2 DEF ClaimsAreDistinct
  <2> QED
    BY <2>1, <2>2
<1>4. UploadsAreTracked'
  <2>1. \A w \in Workers : Working(w) =>
           (job[JobOf[DocOf(w)]] \in Gone => job'[JobOf[DocOf(w)]] \in Gone)
    BY <1>h, <1>i DEF Gone
  <2> QED
    BY <1>d, <1>e, <2>1
       DEF UploadsAreTracked, At, UploadWindow, KeyOf, DocOf, Working, WorkingPC
<1>5. CleanupIsConfined'
  BY <1>a, <1>d, <1>f, <1>i DEF CleanupIsConfined
<1>6. RowsFollowJobs' /\ FutureIsBlank'
  <2>1. RowsFollowJobs'
    BY <1>d, <1>g, <1>i DEF RowsFollowJobs
  <2>2. FutureIsBlank'
    BY <1>d, <1>i, KeyParts DEF FutureIsBlank
  <2> QED
    BY <2>1, <2>2
<1> QED
  BY <1>1, <1>2, <1>3, <1>4, <1>5, <1>6

\* The orphan cleanup works on an old key, which no upload under way has, and
\* removes the object only when no document refers to it.
LEMMA OrphanCleanupKeepsInv ==
  ASSUME IInv, TypeOK', CheckOrphan \/ PurgeOrphan \/ UntrackOrphan
  PROVE  IInv'
<1> USE DEF IInv
<1>a. TypeOK /\ objects \subseteq Key /\ orphan \in [Key -> {"none", "young", "old"}]
  BY DEF TypeOK, StoreTypeOK
<1>b. UNCHANGED <<job, graceOver, doc, worker>>
  BY DEF CheckOrphan, PurgeOrphan, UntrackOrphan, storeVars, Untrack
<1>c. \A w \in Workers : Working(w) => KeyOf(w) \in Key
  BY HeldType
<1>d. PublishedByLastClaim' /\ ClaimsAreDistinct' /\ RowsFollowJobs'
  BY <1>b DEF PublishedByLastClaim, Published, ClaimsAreDistinct, Working, KeyOf, DocOf,
              RowsFollowJobs
<1>1. CASE CheckOrphan
  <2>1. objects' = objects /\ orphan' = orphan
    BY <1>1 DEF CheckOrphan, storeVars
  <2>2. PICK k \in Key : /\ orphan[k] = "old"
                         /\ ctl' = [ctl EXCEPT !.pc = IF Referenced(k) THEN "untrack" ELSE "purge",
                                               !.key = k]
    BY <1>1 DEF CheckOrphan
  <2>3. ctl'.key = k /\ ctl'.erased = ctl.erased
        /\ ctl'.pc = IF Referenced(k) THEN "untrack" ELSE "purge"
    BY <1>a, <2>2 DEF TypeOK
  <2>4. ctl.erased = {}
    BY <1>1 DEF CheckOrphan, CtlAt, CleanupIsConfined
  <2>5. CleanupIsConfined'
    BY <1>b, <2>1, <2>2, <2>3, <2>4 DEF CleanupIsConfined, Referenced
  <2>6. PublishedResultsExist' /\ NoUntrackedObject' /\ UploadsAreTracked' /\ FutureIsBlank'
    BY <1>b, <2>1 DEF PublishedResultsExist, Published, NoUntrackedObject, UploadsAreTracked,
                      At, UploadWindow, KeyOf, DocOf, FutureIsBlank
  <2> QED
    BY <1>d, <2>5, <2>6
<1>2. CASE PurgeOrphan
  <2>1. objects' = objects \ {ctl.key} /\ orphan' = orphan
    BY <1>2 DEF PurgeOrphan, DeletePrefix, storeVars
  <2>2. ctl.pc = "purge" /\ ctl' = [ctl EXCEPT !.pc = "untrack"]
    BY <1>2 DEF PurgeOrphan, CtlAt, CtlGoto
  <2>3. ctl'.pc = "untrack" /\ ctl'.key = ctl.key /\ ctl'.erased = ctl.erased /\ ctl.erased = {}
    BY <1>a, <2>2 DEF TypeOK, CleanupIsConfined
  <2>4. ctl.key \in Key /\ orphan[ctl.key] = "old" /\ ~Referenced(ctl.key)
    BY <2>2 DEF CleanupIsConfined
  <2>5. PublishedResultsExist'
    BY <1>b, <2>1, <2>4 DEF PublishedResultsExist, Published, Referenced
  <2>6. UploadsAreTracked'
    <3>1. \A w \in Workers : UploadWindow(w) => KeyOf(w) # ctl.key
      BY <2>4 DEF UploadsAreTracked
    <3> QED
      BY <1>b, <2>1, <3>1 DEF UploadsAreTracked, At, UploadWindow, KeyOf, DocOf
  <2>7. CleanupIsConfined'
    BY <1>b, <2>1, <2>3, <2>4 DEF CleanupIsConfined
  <2>8. NoUntrackedObject' /\ FutureIsBlank'
    BY <1>b, <2>1 DEF NoUntrackedObject, FutureIsBlank
  <2> QED
    BY <1>d, <2>5, <2>6, <2>7, <2>8
<1>3. CASE UntrackOrphan
  <2>1. objects' = objects /\ orphan' = [orphan EXCEPT ![ctl.key] = "none"]
    BY <1>3 DEF UntrackOrphan, Untrack
  <2>2. ctl.pc = "untrack" /\ ctl'.pc = "orphans" /\ ctl'.erased = ctl.erased /\ ctl.erased = {}
    BY <1>3, <1>a DEF UntrackOrphan, CtlAt, TypeOK, CleanupIsConfined
  <2>3. ctl.key \in Key /\ orphan[ctl.key] = "old" /\ (ctl.key \in objects => Referenced(ctl.key))
    BY <2>2 DEF CleanupIsConfined
  <2>4. \A k \in Key : k # ctl.key => orphan'[k] = orphan[k]
    BY <1>a, <2>1
  <2>5. NoUntrackedObject'
    BY <1>a, <1>b, <2>1, <2>3, <2>4 DEF NoUntrackedObject, Referenced
  <2>6. UploadsAreTracked'
    <3>1. \A w \in Workers : At(w, "parsing") \/ UploadWindow(w) =>
             /\ KeyOf(w) # ctl.key
             /\ orphan'[KeyOf(w)] = orphan[KeyOf(w)]
      BY <1>c, <2>3, <2>4 DEF UploadsAreTracked, UploadWindow, At, Working, WorkingPC
    <3> QED
      BY <1>b, <2>1, <3>1 DEF UploadsAreTracked, At, UploadWindow, KeyOf, DocOf
  <2>7. CleanupIsConfined'
    BY <1>b, <2>2 DEF CleanupIsConfined
  <2>8. PublishedResultsExist' /\ FutureIsBlank'
    BY <1>a, <1>b, <2>1, <2>3, <2>4 DEF PublishedResultsExist, Published, FutureIsBlank
  <2> QED
    BY <1>d, <2>5, <2>6, <2>7, <2>8
<1> QED
  BY <1>1, <1>2, <1>3

\* The two waits of 1200 s, and the user.
LEMMA WaitsKeepInv ==
  ASSUME IInv, TypeOK',
         \/ \E k \in Key : KeyTime(k)
         \/ \E j \in Jobs : JobTime(j)
         \/ UserDeletes
  PROVE  IInv'
<1> USE DEF IInv
<1>a. TypeOK /\ orphan \in [Key -> {"none", "young", "old"}] /\ job \in [Jobs -> JobStatus]
      /\ objects \subseteq Key
  BY DEF TypeOK, StoreTypeOK, JobStatus
<1>b. UNCHANGED <<doc, objects, worker, ctl>>
  BY DEF KeyTime, JobTime, UserDeletes, Clock, OrphanAges, GraceEnds, Delete
<1>c. \A w \in Workers : Working(w) => DocOf(w) \in Docs /\ JobOf[DocOf(w)] \in Jobs
                                       /\ KeyOf(w) \in Key
  BY HeldType DEF Working, WorkingPC, At
<1>d. PublishedByLastClaim'
  BY <1>b DEF PublishedByLastClaim, Published
<1>1. ASSUME NEW k \in Key, KeyTime(k) PROVE IInv'
  <2>1. orphan[k] = "young" /\ orphan' = [orphan EXCEPT ![k] = "old"]
        /\ UNCHANGED <<job, graceOver>>
    BY <1>1 DEF KeyTime, Clock, OrphanAges
  <2>2. \A x \in Key : (orphan'[x] = "none" <=> orphan[x] = "none")
                       /\ (orphan[x] = "old" => orphan'[x] = "old")
                       /\ (x # k => orphan'[x] = orphan[x])
    BY <1>a, <2>1
  <2>3. UploadsAreTracked'
    <3>1. \A w \in Workers : /\ UploadWindow(w) => KeyOf(w) # k
                             /\ At(w, "parsing") \/ UploadWindow(w) => KeyOf(w) \in Key
      BY <1>1, <1>c DEF KeyTime, Clock, UploadWindow, At, Working, WorkingPC
    <3> QED
      BY <1>b, <2>1, <2>2, <3>1 DEF UploadsAreTracked, At, UploadWindow, KeyOf, DocOf
  <2>4. NoUntrackedObject' /\ FutureIsBlank'
    BY <1>a, <1>b, <2>1, <2>2 DEF NoUntrackedObject, FutureIsBlank
  <2>5. CleanupIsConfined'
    BY <1>a, <1>b, <2>1, <2>2 DEF CleanupIsConfined, Referenced
  <2>6. PublishedResultsExist' /\ ClaimsAreDistinct' /\ RowsFollowJobs'
    BY <1>b, <2>1 DEF PublishedResultsExist, Published, ClaimsAreDistinct, Working, KeyOf, DocOf,
                      RowsFollowJobs
  <2> QED
    BY <1>d, <2>3, <2>4, <2>5, <2>6
<1>2. ASSUME NEW j \in Jobs, JobTime(j) PROVE IInv'
  <2>1. job[j] = "DELETING" /\ graceOver' = graceOver \cup {j} /\ UNCHANGED <<job, orphan>>
    BY <1>2 DEF JobTime, Clock, GraceEnds
  <2>2. CleanupIsConfined'
    BY <1>b, <2>1 DEF CleanupIsConfined, Referenced
  <2>3. PublishedResultsExist' /\ NoUntrackedObject' /\ ClaimsAreDistinct' /\ UploadsAreTracked'
        /\ RowsFollowJobs' /\ FutureIsBlank'
    BY <1>b, <2>1 DEF PublishedResultsExist, Published, NoUntrackedObject, ClaimsAreDistinct,
       UploadsAreTracked, Working, At, UploadWindow, KeyOf, DocOf, RowsFollowJobs, FutureIsBlank
  <2> QED
    BY <1>d, <2>2, <2>3
<1>3. ASSUME NEW j \in Jobs, Delete(j) PROVE IInv'
  <2>1. job[j] # "DELETED" /\ job' = [job EXCEPT ![j] = "DELETING"]
        /\ UNCHANGED <<graceOver, orphan>>
    BY <1>3 DEF Delete
  <2>2. \A i \in Jobs : /\ job'[i] = "DELETED" <=> job[i] = "DELETED"
                        /\ job[i] \in Gone => job'[i] \in Gone
                        /\ job[i] = "DELETING" => job'[i] = "DELETING"
    BY <1>a, <2>1 DEF Gone
  <2>3. PublishedResultsExist' /\ NoUntrackedObject' /\ RowsFollowJobs'
    BY <1>b, <2>1, <2>2 DEF PublishedResultsExist, Published, NoUntrackedObject, RowsFollowJobs
  <2>4. FutureIsBlank'
    BY <1>b, <2>1, <2>2, KeyParts DEF FutureIsBlank
  <2>5. ClaimsAreDistinct'
    BY <1>b, <1>c, <2>2 DEF ClaimsAreDistinct, Working, KeyOf, DocOf
  <2>6. UploadsAreTracked'
    BY <1>b, <1>c, <2>1, <2>2
       DEF UploadsAreTracked, At, UploadWindow, KeyOf, DocOf, Working, WorkingPC
  <2>7. CleanupIsConfined'
    BY <1>a, <1>b, <2>1, <2>2 DEF CleanupIsConfined, Referenced, TypeOK, StoreTypeOK
  <2> QED
    BY <1>d, <2>3, <2>4, <2>5, <2>6, <2>7
<1> QED
  BY <1>1, <1>2, <1>3 DEF UserDeletes

-----------------------------------------------------------------------------
(* Together.                                                               *)

LEMMA WorkerKeepsInv ==
  ASSUME IInv, TypeOK', NEW w \in Workers, WorkerMoves(w) \/ WorkerBreaks(w)
  PROVE  IInv'
<1>a. ctl' = ctl
  BY DEF WorkerMoves, WorkerBreaks
<1>1. CASE \/ Receive(w) \/ NothingToClaim(w) \/ Abandon(w) \/ ParseFails(w)
           \/ CompleteThrows(w)
  BY <1>a, <1>1, QuietWorkerStep
<1>2. CASE ClaimDocument(w)
  BY <1>a, <1>2, ClaimKeepsInv DEF ClaimDocument
<1>3. CASE ParseSucceeds(w)
  BY <1>a, <1>3, TrackKeepsInv, QuietWorkerStep
<1>4. CASE Upload(w)
  BY <1>a, <1>4, UploadKeepsInv DEF Upload
<1>5. CASE PublishResult(w)
  BY <1>a, <1>5, PublishKeepsInv, QuietWorkerStep DEF PublishResult, Finish
<1>6. CASE Crash(w)
  BY <1>a, <1>6, UploadKeepsInv, QuietWorkerStep DEF Crash
<1>7. CASE DiesAfterCommit(w)
  <2>1. CASE At(w, "claiming") /\ Claimable(DocOf(w)) /\ Claim(DocOf(w))
    BY <1>a, <1>7, <2>1, ClaimKeepsInv DEF DiesAfterCommit
  <2>2. CASE At(w, "publishing") /\ Owns(w) /\ Publish(DocOf(w), worker[w].attempt)
    BY <1>a, <1>7, <2>2, PublishKeepsInv DEF DiesAfterCommit
  <2>3. CASE Working(w) /\ Owns(w) /\ \E r \in BOOLEAN : Fail(DocOf(w), worker[w].attempt, r)
    BY <1>a, <1>7, <2>3, QuietWorkerStep
  <2> QED
    BY <1>7, <2>1, <2>2, <2>3 DEF DiesAfterCommit
<1> QED
  BY <1>1, <1>2, <1>3, <1>4, <1>5, <1>6, <1>7
     DEF WorkerMoves, WorkerBreaks, WorkerStep, WorkerFault

LEMMA NextInv == IInv /\ [Next]_vars => IInv'
<1> SUFFICES ASSUME IInv, [Next]_vars PROVE IInv'
  OBVIOUS
<1>1. TypeOK'
  BY NextType DEF IInv
<1>2. CASE \E w \in Workers : WorkerMoves(w) \/ WorkerBreaks(w)
  BY <1>1, <1>2, WorkerKeepsInv
<1>3. CASE ControllerStep \/ ControllerFault
  BY <1>1, <1>3, QuietControllerStep, EraseKeepsInv, DeleteRowKeepsInv, OrphanCleanupKeepsInv
     DEF ControllerStep, ControllerFault
<1>4. CASE TimePasses \/ UserDeletes \/ RedisLoses \/ UNCHANGED vars
  BY <1>1, <1>4, QuietEnvironmentStep, WaitsKeepInv DEF TimePasses
<1> QED
  BY <1>2, <1>3, <1>4 DEF Next

THEOREM Inductive == Spec => []IInv
  BY InitInv, NextInv, PTL DEF Spec

\* The result of a document that succeeded is in the bucket for as long as its
\* job can be read: complete() uploads before it publishes, the orphan cleanup
\* leaves a referenced key alone, the sweep only touches deleted jobs.
THEOREM ResultsExist == Spec => []PublishedResultsExist
<1>1. IInv => PublishedResultsExist
  BY DEF IInv
<1> QED
  BY <1>1, Inductive, PTL

\* A result is published by the last claim of its document and no other: the
\* lock of complete() fences off every worker whose lease was lost.
THEOREM LastClaimPublishes == Spec => []PublishedByLastClaim
<1>1. IInv => PublishedByLastClaim
  BY DEF IInv
<1> QED
  BY <1>1, Inductive, PTL

\* Every object in the bucket is published or has a row in orphan_results, so
\* a crash between upload and publication leaks nothing.
THEOREM NothingLeaks == Spec => []NoUntrackedObject
<1>1. IInv => NoUntrackedObject
  BY DEF IInv
<1> QED
  BY <1>1, Inductive, PTL

\* Two workers never own the same document, however often its message is
\* delivered: their keys differ, and lock() accepts the current attempt only.
THEOREM OwnersAreAlone == Spec => []OneOwner
<1>1. IInv => OneOwner
  BY DEF IInv, ClaimsAreDistinct, OneOwner, Owns, Lock, KeyOf
<1> QED
  BY <1>1, Inductive, PTL
-----------------------------------------------------------------------------
(* The service implements BatchPromise, and its tables agree with each     *)
(* other.                                                                  *)
(*                                                                         *)
(* The proof goes by transactions: a step of the service, whoever takes    *)
(* it, is one transaction on the tables under the conditions its caller    *)
(* has checked, or it changes the bucket alone (StepsAreTransactions).     *)
(* What follows then only has to look at the transactions.                 *)

-----------------------------------------------------------------------------
(* A step is a transaction, or a change of the bucket.                     *)

\* A worker's transactions.
WorkerTx ==
    \/ \E d \in Docs : Claimable(d) /\ Claim(d)
    \/ \E k \in Key : TrackOrphan(k)
    \/ \E d \in Docs, a \in Attempts : Lock(d, a) /\ <<d, a>> \in objects /\ Publish(d, a)
    \/ \E d \in Docs, a \in Attempts, retryable \in BOOLEAN : Lock(d, a) /\ Fail(d, a, retryable)

\* The controller's and the owner's.
ControllerTx ==
    \/ \E S \in SUBSET LapsedJobs : RecoverJobs(S)
    \/ Requeue \/ ReadRows(DueRows) \/ (\E D \in SUBSET Docs : Enqueued(D)) \/ ForgetRead
    \/ \E k \in Key : Untrack(k)
    \/ \E j \in ctl.erased : DeleteRow(j)
    \/ \E j \in Jobs : Delete(j)

Tick ==
    \/ \E d \in Docs : LeaseExpires(d) \/ DelayEnds(d) \/ RowComesDue(d) \/ EnqueueGoesStale(d)
    \/ \E k \in Key : OrphanAges(k)
    \/ \E j \in Jobs : GraceEnds(j)

Transaction == WorkerTx \/ ControllerTx \/ Tick

\* The bucket alone: an object that is not published comes or goes, or objects of
\* a job that is being deleted go.
BucketChange ==
    \/ objects' = objects
    \/ \E k \in Key : /\ doc[k[1]].result # k[2]
                      /\ objects' = objects \cup {k} \/ objects' = objects \ {k}
    \/ \E j \in graceOver : \E K \in SUBSET (DocsOf(j) \X Attempts) : objects' = objects \ K

ServiceStep ==
    \/ UNCHANGED objects /\ Transaction
    \/ UNCHANGED storeVars /\ BucketChange

LEMMA ReportIsTransaction ==
  ASSUME TypeOK, NEW w \in Workers, Working(w), NEW retryable \in BOOLEAN, ReportFailure(w, retryable)
  PROVE  WorkerTx \/ UNCHANGED storeVars
<1>1. DocOf(w) \in Docs /\ worker[w].attempt \in Attempts
  BY HeldType DEF Working, WorkingPC, At
<1> QED
  BY <1>1 DEF ReportFailure, Owns, WorkerTx

LEMMA UploadIsBucketChange ==
  ASSUME IInv, NEW w \in Workers, At(w, "uploading"), PutJson(KeyOf(w))
  PROVE  BucketChange
<1>1. Working(w) /\ KeyOf(w) \in Key /\ KeyOf(w)[1] = DocOf(w) /\ KeyOf(w)[2] = worker[w].attempt
  BY HeldType DEF IInv, Working, WorkingPC, At, KeyOf
<1>2. doc[DocOf(w)].result # worker[w].attempt
  BY <1>1 DEF IInv, ClaimsAreDistinct
<1> QED
  BY <1>1, <1>2 DEF PutJson, BucketChange

LEMMA PublishIsTransaction ==
  ASSUME IInv, NEW w \in Workers, At(w, "publishing"), Owns(w), Publish(DocOf(w), worker[w].attempt)
  PROVE  WorkerTx
<1>1. Working(w) /\ DocOf(w) \in Docs /\ worker[w].attempt \in Attempts
  BY HeldType DEF IInv, Working, WorkingPC, At
<1>2. KeyOf(w) \in objects
  BY DEF IInv, UploadsAreTracked, Owns, Lock
<1> QED
  BY <1>1, <1>2 DEF WorkerTx, Owns, KeyOf

LEMMA WorkersAct ==
  ASSUME IInv, NEW w \in Workers, WorkerMoves(w) \/ WorkerBreaks(w)
  PROVE  ServiceStep
<1>a. TypeOK
  BY DEF IInv
<1>b. WorkerTx /\ UNCHANGED objects => ServiceStep
  BY DEF ServiceStep, Transaction
<1>c. UNCHANGED storeVars /\ UNCHANGED objects => ServiceStep
  BY DEF ServiceStep, BucketChange
<1>1. CASE ClaimDocument(w)
  BY <1>a, <1>b, <1>1, HeldType DEF ClaimDocument, At, WorkerTx
<1>2. CASE Receive(w) \/ NothingToClaim(w) \/ Abandon(w)
  BY <1>c, <1>2 DEF Receive, NothingToClaim, Abandon
<1>3. CASE ParseFails(w)
  <2>1. Working(w)
    BY <1>3 DEF ParseFails, At, Working, WorkingPC
  <2> QED
    BY <1>a, <1>b, <1>c, <1>3, <2>1, ReportIsTransaction DEF ParseFails
<1>4. CASE ParseSucceeds(w)
  <2>1. KeyOf(w) \in Key
    BY <1>a, <1>4, HeldType DEF ParseSucceeds, At, Working, WorkingPC
  <2> QED
    BY <1>b, <1>c, <1>4, <2>1 DEF ParseSucceeds, WorkerTx
<1>5. CASE Upload(w)
  BY <1>5, UploadIsBucketChange DEF Upload, ServiceStep
<1>6. CASE PublishResult(w)
  BY <1>b, <1>c, <1>6, PublishIsTransaction DEF PublishResult
<1>7. CASE CompleteThrows(w)
  <2>1. Working(w)
    BY <1>7 DEF CompleteThrows, Working, WorkingPC
  <2> QED
    BY <1>a, <1>b, <1>c, <1>7, <2>1, ReportIsTransaction DEF CompleteThrows
<1>8. CASE Crash(w)
  BY <1>c, <1>8, UploadIsBucketChange DEF Crash, ServiceStep
<1>9. CASE DiesAfterCommit(w)
  <2>1. CASE At(w, "claiming") /\ Claimable(DocOf(w)) /\ Claim(DocOf(w))
    BY <1>a, <1>b, <1>9, <2>1, HeldType DEF DiesAfterCommit, At, WorkerTx
  <2>2. CASE At(w, "publishing") /\ Owns(w) /\ Publish(DocOf(w), worker[w].attempt)
    BY <1>b, <1>9, <2>2, PublishIsTransaction DEF DiesAfterCommit
  <2>3. CASE Working(w) /\ Owns(w) /\ \E retryable \in BOOLEAN : Fail(DocOf(w), worker[w].attempt, retryable)
    <3>1. DocOf(w) \in Docs /\ worker[w].attempt \in Attempts
      BY <1>a, <2>3, HeldType DEF Working, WorkingPC, At
    <3>2. WorkerTx
      BY <2>3, <3>1 DEF WorkerTx, Owns
    <3> QED
      BY <1>b, <1>9, <3>2 DEF DiesAfterCommit
  <2> QED
    BY <1>9, <2>1, <2>2, <2>3 DEF DiesAfterCommit
<1> QED
  BY <1>1, <1>2, <1>3, <1>4, <1>5, <1>6, <1>7, <1>8, <1>9
     DEF WorkerMoves, WorkerBreaks, WorkerStep, WorkerFault

LEMMA ControllerActs ==
  ASSUME IInv, ControllerStep \/ ControllerFault
  PROVE  ServiceStep
<1>a. TypeOK
  BY DEF IInv
<1>b. ControllerTx /\ UNCHANGED objects => ServiceStep
  BY DEF ServiceStep, Transaction
<1>c. UNCHANGED storeVars /\ UNCHANGED objects => ServiceStep
  BY DEF ServiceStep, BucketChange
<1>1. CASE Recover \/ RecoverIncomplete
  BY <1>b, <1>1 DEF Recover, RecoverIncomplete, ControllerTx
<1>2. CASE RequeueStale \/ PublishDue \/ RunAborts
  BY <1>b, <1>2 DEF RequeueStale, PublishDue, RunAborts, ControllerTx
<1>3. CASE CommitDispatch
  <2>1. ctl.batch \in SUBSET Docs
    BY <1>a DEF TypeOK
  <2> QED
    BY <1>b, <1>3, <2>1 DEF CommitDispatch, ControllerTx
<1>4. CASE NothingToDispatch \/ JobsSwept \/ CheckOrphan \/ CleanupDone \/ PublishIncomplete
  BY <1>c, <1>4 DEF NothingToDispatch, JobsSwept, CheckOrphan, CleanupDone, PublishIncomplete
<1>5. CASE EraseJob \/ EraseIncomplete
  BY <1>5 DEF EraseJob, EraseIncomplete, DeletePrefix, ServiceStep, BucketChange
<1>6. CASE DeleteJobRow
  BY <1>b, <1>6 DEF DeleteJobRow, ControllerTx
<1>7. CASE PurgeOrphan
  <2>1. ctl.key \in Key /\ doc[ctl.key[1]].result # ctl.key[2]
    BY <1>7 DEF PurgeOrphan, CtlAt, IInv, CleanupIsConfined, Referenced
  <2> QED
    BY <1>7, <2>1 DEF PurgeOrphan, DeletePrefix, ServiceStep, BucketChange
<1>8. CASE UntrackOrphan
  <2>1. ctl.key \in Key
    BY <1>8 DEF UntrackOrphan, CtlAt, IInv, CleanupIsConfined
  <2> QED
    BY <1>b, <1>8, <2>1 DEF UntrackOrphan, ControllerTx
<1> QED
  BY <1>1, <1>2, <1>3, <1>4, <1>5, <1>6, <1>7, <1>8 DEF ControllerStep, ControllerFault

\* Every step of the service is a transaction or a change of the bucket.
LEMMA StepsAreTransactions ==
  ASSUME IInv, [Next]_vars
  PROVE  ServiceStep
<1>1. CASE TimePasses
  <2>1. CASE \E d \in Docs : DocTime(d) \/ LeaseTime(d)
    BY <2>1 DEF DocTime, LeaseTime, Clock, ServiceStep, Transaction, Tick
  <2>2. CASE (\E k \in Key : KeyTime(k)) \/ (\E j \in Jobs : JobTime(j))
    BY <2>2 DEF KeyTime, JobTime, Clock, ServiceStep, Transaction, Tick
  <2> QED
    BY <1>1, <2>1, <2>2 DEF TimePasses
<1>2. CASE UserDeletes
  BY <1>2 DEF UserDeletes, ServiceStep, Transaction, ControllerTx
<1>3. CASE RedisLoses \/ UNCHANGED vars
  BY <1>3 DEF RedisLoses, vars, ServiceStep, BucketChange
<1> QED
  BY <1>1, <1>2, <1>3, WorkersAct, ControllerActs DEF Next

-----------------------------------------------------------------------------
(* The tables agree with each other.                                       *)

LEMMA TablesInit == Init => TablesAgree /\ JobStatusAgrees
<1> SUFFICES ASSUME Init PROVE TablesAgree /\ JobStatusAgrees
  OBVIOUS
<1> USE DEF Init, StoreInit, QueuedRow
<1>1. LedgerAgrees
  BY DEF LedgerAgrees, Key, Attempts
<1>2. WaitingCanBeClaimed /\ DelayedRetriesAreQueued /\ DeletedJobsQueueNothing
  BY DEF WaitingCanBeClaimed, DelayedRetriesAreQueued, DeletedJobsQueueNothing, Gone
<1>3. JobStatusAgrees
  <2>1. \A j \in Jobs : job[j] = "QUEUED" /\ {doc[d].status : d \in DocsOf(j)} \subseteq {"QUEUED"}
    BY DEF DocsOf
  <2> QED
    BY <2>1 DEF JobStatusAgrees
<1> QED
  BY <1>1, <1>2, <1>3 DEF TablesAgree

LEMMA UnchangedAgrees ==
  ASSUME TablesAgree, UNCHANGED storeVars
  PROVE  TablesAgree'
  BY DEF TablesAgree, LedgerAgrees, WaitingCanBeClaimed, DelayedRetriesAreQueued,
         DeletedJobsQueueNothing, storeVars

LEMMA ClaimAgrees ==
  ASSUME StoreTypeOK, TablesAgree, NEW d \in Docs, Claimable(d), Claim(d)
  PROVE  TablesAgree'
<1> USE DEF StoreTypeOK, TablesAgree
<1>1. /\ doc'[d].attempts = doc[d].attempts + 1 /\ doc'[d].status = "PROCESSING"
      /\ doc[d].status \in {"QUEUED", "RETRY_WAIT"} /\ doc[d].attempts \in Nat
      /\ \A e \in Docs \ {d} : doc'[e] = doc[e]
      /\ job[JobOf[d]] \in Live
      /\ \A j \in Jobs : job'[j] = IF j = JobOf[d] THEN "PROCESSING" ELSE job[j]
      /\ outbox' = outbox
  BY DEF Claim, Claimable, DocRow
<1>2. LedgerAgrees'
  <2>1. \A k \in Key : ledger'[k] = IF k = <<d, doc[d].attempts + 1>> THEN "open" ELSE ledger[k]
    BY DEF Claim
  <2>2. SUFFICES ASSUME NEW k \in Key
                 PROVE  ledger'[k] = IF k[2] > doc'[k[1]].attempts THEN "none"
                                     ELSE IF k[2] = doc'[k[1]].attempts /\ doc'[k[1]].status = "PROCESSING"
                                          THEN "open" ELSE "closed"
    BY DEF LedgerAgrees
  <2>3. k[1] \in Docs /\ k[2] \in Nat /\ k = <<k[1], k[2]>>
    BY KeyParts DEF Attempts
  <2>4. CASE k[1] = d
    <3>1. k = <<d, doc[d].attempts + 1>> <=> k[2] = doc[d].attempts + 1
      BY <2>3, <2>4
    <3>2. ledger[k] = IF k[2] > doc[d].attempts THEN "none" ELSE "closed"
      BY <1>1, <2>4 DEF LedgerAgrees
    <3> QED
      BY <1>1, <2>1, <2>3, <2>4, <3>1, <3>2
  <2>5. CASE k[1] # d
    BY <1>1, <2>1, <2>3, <2>5 DEF LedgerAgrees
  <2> QED
    BY <2>4, <2>5
<1>3. WaitingCanBeClaimed'
  BY <1>1 DEF WaitingCanBeClaimed
<1>4. DeletedJobsQueueNothing'
  BY <1>1 DEF DeletedJobsQueueNothing, Gone, Live
<1>5. DelayedRetriesAreQueued'
  <2>1. \A e \in Docs : JobOf[e] \in Jobs
    BY JobsAssumption
  <2>2. job[JobOf[d]] \notin Gone
    BY <1>1 DEF Live, Gone
  <2>3. \A e \in Docs : job'[JobOf[e]] \notin Gone => job[JobOf[e]] \notin Gone
    BY <1>1, <2>1, <2>2
  <2>4. doc'[d].status # "RETRY_WAIT"
    BY <1>1
  <2> QED
    BY <1>1, <2>3, <2>4 DEF DelayedRetriesAreQueued
<1> QED
  BY <1>2, <1>3, <1>4, <1>5

\* An attempt is closed, and its document waits for another one or has its outcome.
LEMMA OutcomeAgrees ==
  ASSUME StoreTypeOK, TablesAgree, NEW d \in Docs, NEW a \in Attempts, Lock(d, a),
         \/ Publish(d, a)
         \/ \E retryable \in BOOLEAN : Fail(d, a, retryable)
  PROVE  TablesAgree'
<1> USE DEF StoreTypeOK, TablesAgree
<1>1. /\ doc'[d].attempts = a /\ doc'[d].status \in {"SUCCEEDED", "FAILED", "RETRY_WAIT"}
      /\ doc'[d].status = "RETRY_WAIT" => a < MaxAttempts /\ doc'[d].lease = "none" /\ outbox'[d] = "waiting"
      /\ doc[d].attempts = a /\ doc[d].status = "PROCESSING" /\ job[JobOf[d]] \notin Gone
      /\ \A e \in Docs \ {d} : doc'[e] = doc[e] /\ outbox'[e] = outbox[e]
      /\ ledger' = [ledger EXCEPT ![<<d, a>>] = "closed"]
  <2>1. doc[d].attempts = a /\ doc[d].status = "PROCESSING" /\ job[JobOf[d]] \notin Gone
    BY DEF Lock
  <2>2. CASE Publish(d, a)
    BY <2>1, <2>2 DEF Publish, DocRow
  <2>3. ASSUME NEW retryable \in BOOLEAN, Fail(d, a, retryable)
        PROVE  /\ doc'[d].attempts = a /\ doc'[d].status \in {"FAILED", "RETRY_WAIT"}
               /\ doc'[d].status = "RETRY_WAIT" =>
                      a < MaxAttempts /\ doc'[d].lease = "none" /\ outbox'[d] = "waiting"
               /\ \A e \in Docs \ {d} : doc'[e] = doc[e] /\ outbox'[e] = outbox[e]
               /\ ledger' = [ledger EXCEPT ![<<d, a>>] = "closed"]
    <3> DEFINE final == FailsForGood(a, retryable)
    <3>1. ~final => a < MaxAttempts
      BY DEF FailsForGood
    <3>2. /\ doc' = [doc EXCEPT ![d].status = IF final THEN "FAILED" ELSE "RETRY_WAIT",
                                ![d].lease = "none", ![d].due = FALSE]
          /\ ledger' = [ledger EXCEPT ![<<d, a>>] = "closed"]
          /\ outbox' = IF final THEN outbox ELSE [outbox EXCEPT ![d] = "waiting"]
      BY <2>3 DEF Fail
    <3> HIDE DEF final
    <3> QED
      BY <2>1, <3>1, <3>2 DEF DocRow
  <2> QED
    BY <2>1, <2>2, <2>3
<1>2. \A j \in Jobs : (job'[j] \in Gone => job[j] \in Gone /\ j # JobOf[d])
                       /\ (j # JobOf[d] => job'[j] = job[j])
  <2>1. PICK rows : Refresh(JobOf[d], rows)
    BY DEF Publish, Fail
  <2>2. Refreshed(JobOf[d], rows) \notin Gone
    BY <1>1, SummaryType DEF Refreshed, Live, Settled, Gone
  <2> QED
    BY <1>1, <2>1, <2>2 DEF Refresh
<1>3. LedgerAgrees'
  <2>1. SUFFICES ASSUME NEW k \in Key
                 PROVE  ledger'[k] = IF k[2] > doc'[k[1]].attempts THEN "none"
                                     ELSE IF k[2] = doc'[k[1]].attempts /\ doc'[k[1]].status = "PROCESSING"
                                          THEN "open" ELSE "closed"
    BY DEF LedgerAgrees
  <2>2. k[1] \in Docs /\ k[2] \in Nat /\ k = <<k[1], k[2]>>
    BY KeyParts DEF Attempts
  <2>3. ledger'[k] = IF k = <<d, a>> THEN "closed" ELSE ledger[k]
    BY <1>1
  <2>4. CASE k[1] = d
    BY <1>1, <2>2, <2>3, <2>4 DEF LedgerAgrees
  <2>5. CASE k[1] # d
    BY <1>1, <2>2, <2>3, <2>5 DEF LedgerAgrees
  <2> QED
    BY <2>4, <2>5
<1>4. WaitingCanBeClaimed'
  BY <1>1 DEF WaitingCanBeClaimed
<1>5. DeletedJobsQueueNothing'
  BY <1>1, <1>2 DEF DeletedJobsQueueNothing
<1>6. DelayedRetriesAreQueued'
  BY <1>1, <1>2 DEF DelayedRetriesAreQueued
<1> QED
  BY <1>3, <1>4, <1>5, <1>6

LEMMA RecoveryAgrees ==
  ASSUME StoreTypeOK, TablesAgree, NEW S \in SUBSET LapsedJobs, RecoverJobs(S)
  PROVE  TablesAgree'
<1> USE DEF StoreTypeOK, TablesAgree
<1> DEFINE lost == {d \in Docs : JobOf[d] \in S /\ job[JobOf[d]] \notin Gone /\ Lapsed(d)}
<1>1. \A d \in Docs : /\ doc'[d].attempts = doc[d].attempts
                      /\ d \notin lost => doc'[d] = doc[d]
                      /\ d \in lost =>
                            /\ doc[d].status = "PROCESSING" /\ doc'[d].lease = "none" /\ doc'[d].due
                            /\ doc'[d].status \in {"FAILED", "RETRY_WAIT"}
                            /\ doc'[d].status = "RETRY_WAIT" => ~(doc[d].attempts >= MaxAttempts)
  <2> TAKE d \in Docs
  <2> DEFINE freed == JobOf[d] \in S /\ job[JobOf[d]] \notin Gone /\ Lapsed(d)
  <2>1. /\ doc'[d].attempts = doc[d].attempts
        /\ ~freed => doc'[d] = doc[d]
        /\ freed => /\ doc[d].status = "PROCESSING" /\ doc'[d].lease = "none" /\ doc'[d].due
                    /\ doc'[d].status = IF doc[d].attempts >= MaxAttempts
                                        THEN "FAILED" ELSE "RETRY_WAIT"
    BY RecoveryFrees
  <2>2. d \in lost <=> freed
    OBVIOUS
  <2> HIDE DEF lost, freed
  <2> QED
    BY <2>1, <2>2
<1>2. \A j \in Jobs : job'[j] \in Gone <=> job[j] \in Gone
  <2>1. \A j \in Jobs : \A rows : Refreshed(j, rows) \in Gone <=> job[j] \in Gone
    BY SummaryType DEF Refreshed, Live, Settled, Gone
  <2> QED
    BY <2>1 DEF RecoverJobs
<1>3. \A k \in Key : ledger'[k] = IF k[1] \in lost /\ k[2] = doc[k[1]].attempts THEN "closed" ELSE ledger[k]
  BY DEF RecoverJobs
<1>4. outbox' = outbox
  BY DEF RecoverJobs
<1> HIDE DEF lost
<1>5. LedgerAgrees'
  <2>1. SUFFICES ASSUME NEW k \in Key
                 PROVE  ledger'[k] = IF k[2] > doc'[k[1]].attempts THEN "none"
                                     ELSE IF k[2] = doc'[k[1]].attempts /\ doc'[k[1]].status = "PROCESSING"
                                          THEN "open" ELSE "closed"
    BY DEF LedgerAgrees
  <2>2. k[1] \in Docs /\ k[2] \in Nat /\ doc[k[1]].attempts \in Nat
    BY KeyParts DEF Attempts, DocRow
  <2>3. CASE k[1] \in lost
    BY <1>1, <1>3, <2>2, <2>3 DEF LedgerAgrees
  <2>4. CASE k[1] \notin lost
    BY <1>1, <1>3, <2>2, <2>4 DEF LedgerAgrees
  <2> QED
    BY <2>3, <2>4
<1>6. WaitingCanBeClaimed'
  <2>1. \A d \in Docs : doc[d].attempts \in Nat
    BY DEF DocRow
  <2> QED
    BY <1>1, <2>1 DEF WaitingCanBeClaimed
<1>7. DeletedJobsQueueNothing'
  BY <1>2, <1>4 DEF DeletedJobsQueueNothing
<1>8. DelayedRetriesAreQueued'
  BY <1>1, <1>2, <1>4 DEF DelayedRetriesAreQueued
<1> QED
  BY <1>5, <1>6, <1>7, <1>8

\* Outbox rows come back only for jobs at work, and go with a dispatch.
LEMMA DispatchAgrees ==
  ASSUME StoreTypeOK, TablesAgree,
         Requeue \/ ReadRows(DueRows) \/ (\E D \in SUBSET Docs : Enqueued(D)) \/ ForgetRead
  PROVE  TablesAgree'
<1> USE DEF StoreTypeOK, TablesAgree
<1>1. /\ UNCHANGED <<job, ledger>>
      /\ \A d \in Docs : /\ doc'[d].status = doc[d].status /\ doc'[d].attempts = doc[d].attempts
                         /\ doc'[d].lease = doc[d].lease /\ doc'[d].due = doc[d].due
                         /\ outbox[d] = "waiting" => outbox'[d] = "waiting"
  <2>1. CASE Requeue \/ ReadRows(DueRows) \/ ForgetRead
    BY <2>1 DEF Requeue, ReadRows, ForgetRead, DueRows
  <2>2. ASSUME NEW D \in SUBSET Docs, Enqueued(D)
        PROVE  /\ UNCHANGED <<job, ledger>>
               /\ \A d \in Docs : doc'[d] = doc[d] \/ doc'[d] = [doc[d] EXCEPT !.enqueued = "recent"]
               /\ \A d \in Docs : outbox[d] = "waiting" => outbox'[d] = "waiting"
    BY <2>2 DEF Enqueued
  <2>3. \A d \in Docs : /\ [doc[d] EXCEPT !.enqueued = "recent"].status = doc[d].status
                        /\ [doc[d] EXCEPT !.enqueued = "recent"].attempts = doc[d].attempts
                        /\ [doc[d] EXCEPT !.enqueued = "recent"].lease = doc[d].lease
                        /\ [doc[d] EXCEPT !.enqueued = "recent"].due = doc[d].due
    BY DEF DocRow
  <2> QED
    BY <2>1, <2>2, <2>3
<1>2. \A d \in Docs : outbox[d] = "none" /\ job[JobOf[d]] \in Gone => outbox'[d] = "none"
  BY DEF Requeue, ReadRows, Enqueued, ForgetRead, DueRows, Live, Gone
<1>3. LedgerAgrees'
  BY <1>1, KeyParts DEF LedgerAgrees
<1>4. WaitingCanBeClaimed'
  BY <1>1 DEF WaitingCanBeClaimed
<1>5. DeletedJobsQueueNothing'
  BY <1>1, <1>2 DEF DeletedJobsQueueNothing
<1>6. DelayedRetriesAreQueued'
  BY <1>1 DEF DelayedRetriesAreQueued
<1> QED
  BY <1>3, <1>4, <1>5, <1>6

LEMMA DeletionAgrees ==
  ASSUME StoreTypeOK, TablesAgree, NEW j \in Jobs, Delete(j) \/ DeleteRow(j)
  PROVE  TablesAgree'
<1> USE DEF StoreTypeOK, TablesAgree
<1>1. \A d \in Docs : outbox'[d] = IF JobOf[d] = j THEN "none" ELSE outbox[d]
  BY DEF Delete, DeleteRow, DocsOf
<1>2. \A i \in Jobs \ {j} : job'[i] = job[i]
  BY DEF Delete, DeleteRow
<1>3. DeletedJobsQueueNothing'
  BY <1>1, <1>2 DEF DeletedJobsQueueNothing
<1>6. DelayedRetriesAreQueued'
  <2>1. \A d \in Docs : JobOf[d] # j => doc'[d] = doc[d]
    BY DEF Delete, DeleteRow, DocsOf
  <2>2. job'[j] \in Gone
    BY DEF Delete, DeleteRow, Gone
  <2> QED
    BY <1>1, <1>2, <2>1, <2>2 DEF DelayedRetriesAreQueued
<1>4. CASE Delete(j)
  BY <1>3, <1>4, <1>6 DEF Delete, LedgerAgrees, WaitingCanBeClaimed
<1>5. CASE DeleteRow(j)
  <2>1. /\ \A d \in Docs : doc'[d] = IF JobOf[d] = j THEN NoRow ELSE doc[d]
        /\ \A k \in Key : ledger'[k] = IF JobOf[k[1]] = j THEN "none" ELSE ledger[k]
        /\ NoRow.status = "DELETED" /\ NoRow.attempts = 0
    BY <1>5, KeyParts DEF DeleteRow, DocsOf, NoRow, QueuedRow
  <2>2. LedgerAgrees'
    <3>1. \A k \in Key : k[1] \in Docs /\ k[2] > 0
      BY KeyParts DEF Attempts
    <3> QED
      BY <2>1, <3>1 DEF LedgerAgrees
  <2>3. WaitingCanBeClaimed'
    BY <2>1 DEF WaitingCanBeClaimed
  <2> QED
    BY <1>3, <1>6, <2>2, <2>3
<1> QED
  BY <1>4, <1>5

LEMMA TickAgrees ==
  ASSUME StoreTypeOK, TablesAgree, Tick
  PROVE  TablesAgree'
<1> USE DEF StoreTypeOK, TablesAgree
<1>1. /\ UNCHANGED <<job, ledger>>
      /\ \A d \in Docs : /\ doc'[d].status = doc[d].status /\ doc'[d].attempts = doc[d].attempts
                         /\ doc'[d].lease = doc[d].lease \/ doc[d].lease = "live"
                         /\ outbox[d] = "none" => outbox'[d] = "none"
                         /\ ~doc'[d].due => ~doc[d].due /\ (outbox[d] = "waiting" => outbox'[d] = "waiting")
  <2>1. CASE \E d \in Docs : LeaseExpires(d) \/ DelayEnds(d) \/ EnqueueGoesStale(d)
    BY <2>1 DEF LeaseExpires, DelayEnds, EnqueueGoesStale, DocRow
  <2>2. CASE (\E d \in Docs : RowComesDue(d)) \/ (\E k \in Key : OrphanAges(k)) \/ \E j \in Jobs : GraceEnds(j)
    BY <2>2 DEF RowComesDue, OrphanAges, GraceEnds
  <2> QED
    BY <2>1, <2>2 DEF Tick
<1>2. LedgerAgrees'
  BY <1>1, KeyParts DEF LedgerAgrees
<1>3. WaitingCanBeClaimed'
  BY <1>1 DEF WaitingCanBeClaimed
<1>4. DeletedJobsQueueNothing'
  BY <1>1 DEF DeletedJobsQueueNothing
<1>5. DelayedRetriesAreQueued'
  BY <1>1 DEF DelayedRetriesAreQueued
<1> QED
  BY <1>2, <1>3, <1>4, <1>5

LEMMA OrphansAgree ==
  ASSUME TablesAgree, NEW k, TrackOrphan(k) \/ Untrack(k)
  PROVE  TablesAgree'
  BY DEF TablesAgree, LedgerAgrees, WaitingCanBeClaimed, DelayedRetriesAreQueued,
         DeletedJobsQueueNothing, TrackOrphan, Untrack

LEMMA NextAgrees == IInv /\ TablesAgree /\ [Next]_vars => TablesAgree'
<1> SUFFICES ASSUME IInv, TablesAgree, [Next]_vars PROVE TablesAgree'
  OBVIOUS
<1>1. StoreTypeOK /\ ctl.erased \subseteq Jobs
  BY DEF IInv, TypeOK
<1>2. CASE WorkerTx
  BY <1>1, <1>2, ClaimAgrees, OrphansAgree, OutcomeAgrees DEF WorkerTx
<1>3. CASE ControllerTx
  BY <1>1, <1>3, RecoveryAgrees, DispatchAgrees, OrphansAgree, DeletionAgrees DEF ControllerTx
<1>4. CASE Tick
  BY <1>1, <1>4, TickAgrees
<1> QED
  BY <1>2, <1>3, <1>4, StepsAreTransactions, UnchangedAgrees DEF ServiceStep, Transaction

-----------------------------------------------------------------------------
(* The job's status sums up its documents.                                 *)

StatusesOf(j) == {doc[d].status : d \in DocsOf(j)}

Agrees(j) == CASE job[j] = "QUEUED"   -> StatusesOf(j) \subseteq {"QUEUED"}
               [] job[j] = "DELETING" -> "DELETED" \notin StatusesOf(j)
               [] job[j] = "DELETED"  -> StatusesOf(j) \subseteq {"DELETED"}
               [] OTHER               -> job[j] = Summary(StatusesOf(j))

LEMMA AgreesOne == JobStatusAgrees <=> \A j \in Jobs : Agrees(j)
  BY DEF JobStatusAgrees, Agrees, StatusesOf

LEMMA StatusesStay ==
  ASSUME NEW j \in Jobs, \A d \in DocsOf(j) : doc'[d].status = doc[d].status
  PROVE  StatusesOf(j)' = StatusesOf(j)
  BY DEF StatusesOf

\* The documents D, at work so far, get an outcome or go back to wait, and the
\* status of their jobs is summed up again.
Settles(D) ==
    /\ \A d \in D : /\ d \in Docs /\ doc[d].status = "PROCESSING"
                    /\ job[JobOf[d]] \notin Gone
                    /\ doc'[d].status \in {"SUCCEEDED", "FAILED", "RETRY_WAIT"}
    /\ \A d \in Docs \ D : doc'[d].status = doc[d].status
    /\ \A j \in Jobs : job'[j] = IF \E d \in D : JobOf[d] = j
                                 THEN Summary(StatusesOf(j)') ELSE job[j]

\* complete() and fail() settle their document, and leave the others' results.
LEMMA OutcomeSettles ==
  ASSUME StoreTypeOK, NEW d \in Docs, NEW a \in Attempts, Lock(d, a),
         \/ Publish(d, a)
         \/ \E retryable \in BOOLEAN : Fail(d, a, retryable)
  PROVE  /\ Settles({d})
         /\ Publish(d, a) => doc'[d].status = "SUCCEEDED" /\ doc'[d].result = a
         /\ ~Publish(d, a) => doc'[d].status \in {"FAILED", "RETRY_WAIT"} /\ doc'[d].result = doc[d].result
         /\ \A e \in Docs \ {d} : doc'[e].result = doc[e].result
<1> USE DEF StoreTypeOK
<1>1. doc[d].status = "PROCESSING" /\ job[JobOf[d]] \notin Gone
  BY DEF Lock
<1>2. /\ \A e \in Docs \ {d} : doc'[e] = doc[e]
      /\ \/ Publish(d, a) /\ doc'[d].status = "SUCCEEDED" /\ doc'[d].result = a
         \/ doc'[d].status \in {"FAILED", "RETRY_WAIT"} /\ doc'[d].result = doc[d].result
      /\ Publish(d, a) => doc'[d].status = "SUCCEEDED" /\ doc'[d].result = a
  <2>1. CASE Publish(d, a)
    BY <2>1 DEF Publish, DocRow
  <2>2. ASSUME NEW retryable \in BOOLEAN, Fail(d, a, retryable)
        PROVE  /\ \A e \in Docs \ {d} : doc'[e] = doc[e]
               /\ doc'[d].status \in {"FAILED", "RETRY_WAIT"} /\ doc'[d].result = doc[d].result
    <3> DEFINE final == FailsForGood(a, retryable)
    <3>1. doc' = [doc EXCEPT ![d].status = IF final THEN "FAILED" ELSE "RETRY_WAIT",
                             ![d].lease = "none", ![d].due = FALSE]
      BY <2>2 DEF Fail
    <3> HIDE DEF final
    <3> QED
      BY <3>1 DEF DocRow
  <2> QED
    BY <2>1, <2>2
<1>3. Refresh(JobOf[d], doc')
  BY DEF Publish, Fail
<1>4. \A j \in Jobs : job'[j] = IF j = JobOf[d] THEN Summary(StatusesOf(j)') ELSE job[j]
  BY <1>1, <1>3 DEF Refresh, Refreshed, StatusesOf
<1>5. Settles({d})
  BY <1>1, <1>2, <1>4 DEF Settles
<1> QED
  BY <1>2, <1>5

\* recover() settles the documents of jobs that are not being deleted.
LEMMA RecoverySettles ==
  ASSUME StoreTypeOK, NEW S \in SUBSET LapsedJobs, RecoverJobs(S)
  PROVE  \E D \in SUBSET Docs :
            /\ Settles(D)
            /\ \A d \in D : doc'[d].status \in {"FAILED", "RETRY_WAIT"}
            /\ \A d \in Docs : doc'[d].result = doc[d].result
<1> USE DEF StoreTypeOK
<1> DEFINE D == {d \in Docs : JobOf[d] \in S /\ job[JobOf[d]] \notin Gone /\ Lapsed(d)}
<1>1. \A d \in Docs : /\ doc'[d].result = doc[d].result
                      /\ d \notin D => doc'[d] = doc[d]
                      /\ d \in D => /\ doc[d].status = "PROCESSING"
                                    /\ doc'[d].status \in {"FAILED", "RETRY_WAIT"}
  <2> TAKE d \in Docs
  <2> DEFINE freed == JobOf[d] \in S /\ job[JobOf[d]] \notin Gone /\ Lapsed(d)
  <2>1. /\ doc'[d].result = doc[d].result
        /\ ~freed => doc'[d] = doc[d]
        /\ freed => /\ doc[d].status = "PROCESSING"
                    /\ doc'[d].status \in {"FAILED", "RETRY_WAIT"}
    BY RecoveryFrees
  <2>2. d \in D <=> freed
    OBVIOUS
  <2> HIDE DEF D, freed
  <2> QED
    BY <2>1, <2>2
<1>2. S \subseteq Jobs /\ \A j \in S : job[j] \notin Gone => \E d \in D : JobOf[d] = j
  BY DEF LapsedJobs
<1>3. \A j \in Jobs : (\E d \in D : JobOf[d] = j) <=> j \in S /\ job[j] \notin Gone
  BY <1>2
<1>4. \A j \in Jobs : job'[j] = IF j \in S THEN Refreshed(j, doc') ELSE job[j]
  BY DEF RecoverJobs
<1>5. \A j \in Jobs : job'[j] = IF j \in S /\ job[j] \notin Gone
                               THEN Summary(StatusesOf(j)') ELSE job[j]
  BY <1>4 DEF Refreshed, StatusesOf
<1>6. \A d \in D : job[JobOf[d]] \notin Gone
  OBVIOUS
<1> HIDE DEF D
<1>7. D \subseteq Docs
  BY DEF D
<1>8. Settles(D)
  BY <1>1, <1>3, <1>5, <1>6, <1>7 DEF Settles
<1> QED
  BY <1>1, <1>7, <1>8

LEMMA SummaryAgrees ==
  ASSUME NEW j \in Jobs, job[j] = Summary(StatusesOf(j))
  PROVE  Agrees(j)
<1>1. Summary(StatusesOf(j)) \notin {"QUEUED", "DELETING", "DELETED"}
  BY DEF Summary
<1> QED
  BY <1>1 DEF Agrees

LEMMA SettledAgrees ==
  ASSUME JobStatusAgrees, NEW D, Settles(D)
  PROVE  JobStatusAgrees'
<1> SUFFICES ASSUME NEW j \in Jobs PROVE Agrees(j)'
  BY DEF JobStatusAgrees, Agrees, StatusesOf
<1>1. CASE \E d \in D : JobOf[d] = j
  <2>1. (job[j] = Summary(StatusesOf(j)))'
    BY <1>1 DEF Settles
  <2> QED
    BY <2>1, SummaryAgrees, PTL
<1>2. CASE ~\E d \in D : JobOf[d] = j
  <2>1. job'[j] = job[j] /\ StatusesOf(j)' = StatusesOf(j)
    BY <1>2, StatusesStay DEF Settles, DocsOf
  <2> QED
    BY <2>1, AgreesOne DEF Agrees
<1> QED
  BY <1>1, <1>2

\* Transactions that change neither a status nor a published result.
OutcomesStay ==
    /\ UNCHANGED job
    /\ \A d \in Docs : doc'[d].status = doc[d].status /\ doc'[d].result = doc[d].result

LEMMA BookkeepingIsQuiet ==
  ASSUME StoreTypeOK,
         \/ Requeue \/ ReadRows(DueRows) \/ (\E D \in SUBSET Docs : Enqueued(D)) \/ ForgetRead
         \/ \E k \in Key : TrackOrphan(k) \/ Untrack(k)
         \/ Tick
         \/ UNCHANGED storeVars
  PROVE  OutcomesStay
<1> USE DEF StoreTypeOK, OutcomesStay
<1>1. CASE Requeue \/ ReadRows(DueRows) \/ ForgetRead \/ UNCHANGED storeVars
  BY <1>1 DEF Requeue, ReadRows, ForgetRead, storeVars
<1>2. CASE \E D \in SUBSET Docs : Enqueued(D)
  BY <1>2 DEF Enqueued, DocRow
<1>3. CASE \E k \in Key : TrackOrphan(k) \/ Untrack(k)
  BY <1>3 DEF TrackOrphan, Untrack
<1>4. CASE \E d \in Docs : LeaseExpires(d) \/ DelayEnds(d) \/ EnqueueGoesStale(d)
  BY <1>4 DEF LeaseExpires, DelayEnds, EnqueueGoesStale, DocRow
<1>5. CASE (\E d \in Docs : RowComesDue(d)) \/ (\E k \in Key : OrphanAges(k)) \/ \E j \in Jobs : GraceEnds(j)
  BY <1>5 DEF RowComesDue, OrphanAges, GraceEnds
<1> QED
  BY <1>1, <1>2, <1>3, <1>4, <1>5 DEF Tick

LEMMA QuietAgrees ==
  ASSUME JobStatusAgrees, OutcomesStay
  PROVE  JobStatusAgrees'
<1> SUFFICES ASSUME NEW j \in Jobs PROVE Agrees(j)'
  BY DEF JobStatusAgrees, Agrees, StatusesOf
<1>1. job'[j] = job[j] /\ StatusesOf(j)' = StatusesOf(j)
  BY StatusesStay DEF OutcomesStay, DocsOf
<1> QED
  BY <1>1, AgreesOne DEF Agrees

\* A claim puts its document, and so its job, to work.
LEMMA ClaimEffect ==
  ASSUME StoreTypeOK, NEW d \in Docs, Claimable(d), Claim(d)
  PROVE  /\ doc[d].status \in {"QUEUED", "RETRY_WAIT"} /\ doc'[d].status = "PROCESSING"
         /\ doc'[d].result = doc[d].result
         /\ \A e \in Docs \ {d} : doc'[e] = doc[e]
         /\ job[JobOf[d]] \in Live
         /\ \A j \in Jobs : job'[j] = IF j = JobOf[d] THEN "PROCESSING" ELSE job[j]
  BY DEF StoreTypeOK, Claim, Claimable, DocRow

LEMMA ClaimedAgrees ==
  ASSUME StoreTypeOK, JobStatusAgrees, NEW d \in Docs, Claimable(d), Claim(d)
  PROVE  JobStatusAgrees'
<1> SUFFICES ASSUME NEW j \in Jobs PROVE Agrees(j)'
  BY DEF JobStatusAgrees, Agrees, StatusesOf
<1>1. CASE j = JobOf[d]
  <2>1. "PROCESSING" \in StatusesOf(j)'
    BY <1>1, ClaimEffect DEF StatusesOf, DocsOf
  <2>2. Summary(StatusesOf(j)') = "PROCESSING"
    BY <2>1 DEF Summary, Terminal
  <2>3. (job[j] = Summary(StatusesOf(j)))'
    BY <1>1, <2>2, ClaimEffect
  <2> QED
    BY <2>3, SummaryAgrees, PTL
<1>2. CASE j # JobOf[d]
  <2>1. job'[j] = job[j] /\ StatusesOf(j)' = StatusesOf(j)
    BY <1>2, ClaimEffect, StatusesStay DEF DocsOf
  <2> QED
    BY <2>1, AgreesOne DEF Agrees
<1> QED
  BY <1>1, <1>2

\* Rows leave with their job, not before.
LEMMA DeletedAgrees ==
  ASSUME StoreTypeOK, RowsFollowJobs, JobStatusAgrees, NEW i \in Jobs,
         Delete(i) \/ (job[i] = "DELETING" /\ DeleteRow(i))
  PROVE  JobStatusAgrees'
<1> USE DEF StoreTypeOK
<1> SUFFICES ASSUME NEW j \in Jobs PROVE Agrees(j)'
  BY DEF JobStatusAgrees, Agrees, StatusesOf
<1>1. CASE j # i
  <2>1. \A d \in DocsOf(j) : doc'[d] = doc[d]
    BY <1>1 DEF Delete, DeleteRow, DocsOf
  <2>2. job'[j] = job[j] /\ StatusesOf(j)' = StatusesOf(j)
    BY <1>1, <2>1, StatusesStay DEF Delete, DeleteRow
  <2> QED
    BY <2>2, AgreesOne DEF Agrees
<1>2. CASE j = i /\ Delete(i)
  <2>1. job'[j] = "DELETING" /\ "DELETED" \notin StatusesOf(j)'
    BY <1>2 DEF Delete, RowsFollowJobs, StatusesOf, DocsOf
  <2> QED
    BY <2>1 DEF Agrees
<1>3. CASE j = i /\ DeleteRow(i)
  <2>1. job'[j] = "DELETED" /\ StatusesOf(j)' \subseteq {"DELETED"}
    BY <1>3 DEF DeleteRow, StatusesOf, DocsOf, NoRow, QueuedRow
  <2> QED
    BY <2>1 DEF Agrees
<1> QED
  BY <1>1, <1>2, <1>3

LEMMA NextStatusAgrees == IInv /\ JobStatusAgrees /\ [Next]_vars => JobStatusAgrees'
<1> SUFFICES ASSUME IInv, JobStatusAgrees, [Next]_vars PROVE JobStatusAgrees'
  OBVIOUS
<1>1. StoreTypeOK /\ ctl.erased \subseteq Jobs /\ RowsFollowJobs
      /\ \A j \in ctl.erased : job[j] = "DELETING"
  BY DEF IInv, TypeOK, CleanupIsConfined
<1>2. CASE WorkerTx
  <2>1. CASE \E d \in Docs : Claimable(d) /\ Claim(d)
    BY <1>1, <2>1, ClaimedAgrees
  <2>2. CASE \E k \in Key : TrackOrphan(k)
    BY <1>1, <2>2, BookkeepingIsQuiet, QuietAgrees
  <2>3. ASSUME NEW d \in Docs, NEW a \in Attempts, Lock(d, a),
               Publish(d, a) \/ \E retryable \in BOOLEAN : Fail(d, a, retryable)
        PROVE  JobStatusAgrees'
    BY <1>1, <2>3, OutcomeSettles, SettledAgrees
  <2> QED
    BY <1>2, <2>1, <2>2, <2>3 DEF WorkerTx
<1>3. CASE ControllerTx
  BY <1>1, <1>3, RecoverySettles, SettledAgrees, BookkeepingIsQuiet, QuietAgrees, DeletedAgrees
     DEF ControllerTx
<1>4. CASE Tick \/ UNCHANGED storeVars
  BY <1>1, <1>4, BookkeepingIsQuiet, QuietAgrees
<1> QED
  BY <1>2, <1>3, <1>4, StepsAreTransactions DEF ServiceStep, Transaction

-----------------------------------------------------------------------------
(* The invariant the refinement rests on.                                  *)

\* Only the sweep of a job adds it to the jobs whose row is to be removed.
LEMMA ErasedGrowsBySweep ==
  ASSUME IInv, [Next]_vars
  PROVE  EraseJob \/ ctl'.erased \subseteq ctl.erased
<1>a. ctl \in [pc: ControllerPC, batch: SUBSET Docs, erased: SUBSET Jobs, key: Key \cup {NoKey}]
  BY DEF IInv, TypeOK
<1>1. CASE ControllerStep \/ ControllerFault
  <2>1. CASE ctl' = AtRest
    BY <2>1 DEF AtRest
  <2>2. CASE \E pc : CtlGoto(pc)
    BY <1>a, <2>2 DEF CtlGoto
  <2>3. CASE PublishDue \/ CommitDispatch \/ DeleteJobRow \/ CheckOrphan \/ UntrackOrphan
    BY <1>a, <2>3 DEF PublishDue, CommitDispatch, DeleteJobRow, CheckOrphan, UntrackOrphan
  <2> QED
    BY <1>1, <2>1, <2>2, <2>3 DEF ControllerStep, ControllerFault, Recover, RequeueStale,
       NothingToDispatch, JobsSwept, PurgeOrphan, CleanupDone, RunAborts, RecoverIncomplete,
       PublishIncomplete, EraseIncomplete
<1>2. CASE ctl' = ctl
  BY <1>2
<1> QED
  BY <1>1, <1>2 DEF Next, WorkerMoves, WorkerBreaks, TimePasses, DocTime, LeaseTime, KeyTime,
     JobTime, Clock, UserDeletes, RedisLoses, vars

\* A published result is written while its job can be read, and goes with its row.
LEMMA ResultsOfLeavingJobs ==
  ASSUME IInv, Transaction, NEW d \in Docs, job[JobOf[d]] \in Gone
  PROVE  doc'[d].result = doc[d].result \/ doc'[d].result = 0
<1>1. StoreTypeOK
  BY DEF IInv, TypeOK
<1>2. CASE WorkerTx
  <2>1. ASSUME NEW e \in Docs, Claimable(e), Claim(e)
        PROVE  doc'[d].result = doc[d].result
    BY <1>1, <2>1, ClaimEffect
  <2>2. ASSUME NEW e \in Docs, NEW a \in Attempts, Lock(e, a),
               Publish(e, a) \/ \E retryable \in BOOLEAN : Fail(e, a, retryable)
        PROVE  doc'[d].result = doc[d].result
    <3>1. e # d
      BY <2>2 DEF Lock
    <3> QED
      BY <1>1, <2>2, <3>1, OutcomeSettles
  <2> QED
    BY <1>1, <1>2, <2>1, <2>2, BookkeepingIsQuiet DEF WorkerTx, OutcomesStay
<1>3. CASE ControllerTx
  <2>1. CASE \E S \in SUBSET LapsedJobs : RecoverJobs(S)
    BY <1>1, <2>1, RecoverySettles
  <2>2. CASE (\E j \in ctl.erased : DeleteRow(j)) \/ \E j \in Jobs : Delete(j)
    <3>1. NoRow.result = 0
      BY DEF NoRow, QueuedRow
    <3>2. doc' = doc \/ \E j \in ctl.erased : doc' = [e \in Docs |-> IF e \in DocsOf(j) THEN NoRow ELSE doc[e]]
      BY <2>2 DEF DeleteRow, Delete
    <3> QED
      BY <3>1, <3>2
  <2> QED
    BY <1>1, <1>3, <2>1, <2>2, BookkeepingIsQuiet DEF ControllerTx, OutcomesStay
<1>4. CASE Tick
  BY <1>1, <1>4, BookkeepingIsQuiet DEF OutcomesStay
<1> QED
  BY <1>2, <1>3, <1>4 DEF Transaction

LEMMA ErasedStayGone ==
  ASSUME IInv, ErasedResultsAreGone, [Next]_vars
  PROVE  ErasedResultsAreGone'
<1>1. /\ objects \subseteq Key
      /\ \A j \in ctl.erased : j \in Jobs /\ job[j] \in Gone
  BY DEF IInv, TypeOK, CleanupIsConfined, Gone
<1>2. CASE EraseJob
  <2>1. PICK j \in graceOver : /\ objects' = objects \ (DocsOf(j) \X Attempts)
                               /\ ctl' = [ctl EXCEPT !.pc = "erased", !.erased = {j}]
    BY <1>2 DEF EraseJob, DeletePrefix
  <2>2. ctl'.erased = {j}
    BY <2>1 DEF IInv, TypeOK
  <2>3. \A d \in DocsOf(j) : \A r : <<d, r>> \notin objects'
    BY <1>1, <2>1 DEF Key
  <2> QED
    BY <2>2, <2>3 DEF ErasedResultsAreGone
<1>3. CASE ctl'.erased \subseteq ctl.erased
  <2> SUFFICES ASSUME NEW j \in ctl.erased, NEW d \in DocsOf(j)
               PROVE  <<d, doc'[d].result>> \notin objects'
    BY <1>3 DEF ErasedResultsAreGone
  <2>1. d \in Docs /\ job[JobOf[d]] \in Gone /\ <<d, doc[d].result>> \notin objects
    BY <1>1 DEF DocsOf, ErasedResultsAreGone
  <2>2. CASE UNCHANGED objects /\ Transaction
    <3>1. <<d, 0>> \notin objects
      BY <1>1 DEF Key, Attempts
    <3> QED
      BY <2>1, <2>2, <3>1, ResultsOfLeavingJobs
  <2>3. CASE UNCHANGED storeVars /\ BucketChange
    <3>1. ASSUME NEW k \in Key, doc[k[1]].result # k[2] PROVE <<d, doc[d].result>> # k
      BY <3>1
    <3>2. <<d, doc[d].result>> \notin objects'
      BY <2>1, <2>3, <3>1 DEF BucketChange
    <3> QED
      BY <2>3, <3>2 DEF storeVars
  <2> QED
    BY <2>2, <2>3, StepsAreTransactions DEF ServiceStep
<1> QED
  BY <1>2, <1>3, ErasedGrowsBySweep

LEMMA InitPromiseInv == Init => PromiseInv
<1>1. Init => ErasedResultsAreGone
  BY DEF Init, ControllerInit, AtRest, ErasedResultsAreGone
<1> QED
  BY <1>1, InitInv, TablesInit DEF PromiseInv

LEMMA NextPromiseInv == PromiseInv /\ [Next]_vars => PromiseInv'
  BY NextInv, NextAgrees, NextStatusAgrees, ErasedStayGone DEF PromiseInv

\* The invariant that the refinement rests on: IInv, tables that agree, status summaries,
\* and no object left of a job whose erasure has begun to remove its row.
THEOREM PromiseInvariant == Spec => []PromiseInv
  BY InitPromiseInv, NextPromiseInv, PTL DEF Spec

\* The tables of a submitted job agree with each other after every transaction.
THEOREM TablesStayInStep == Spec => []TablesAgree
<1>1. PromiseInv => TablesAgree
  BY DEF PromiseInv
<1> QED
  BY <1>1, PromiseInvariant, PTL

\* refresh(), claim(), fail(), recover() and delete() leave the job's status the
\* summary of its documents'.
THEOREM StatusSumsUp == Spec => []JobStatusAgrees
<1>1. PromiseInv => JobStatusAgrees
  BY DEF PromiseInv
<1> QED
  BY <1>1, PromiseInvariant, PTL

-----------------------------------------------------------------------------
(* The refinement mapping, and the steps under it.                         *)

PStatus   == [j \in Jobs |-> IF job[j] \in Live THEN "OPEN" ELSE job[j]]
POutcome  == [d \in Docs |-> IF doc[d].status \in Terminal \cup {"DELETED"}
                            THEN doc[d].status ELSE "PENDING"]
PReadable == {d \in Docs : Published(d) /\ <<d, doc[d].result>> \in objects}

PromiseStays == UNCHANGED <<PStatus, POutcome, PReadable>>

LEMMA InitKeepsPromise == Init => Promise!Init
  BY DEF Init, StoreInit, QueuedRow, Promise!Init, Live, Terminal, Published

\* The abstract verdict is the summary of the concrete statuses.
LEMMA SummaryIsVerdict ==
  ASSUME NEW j \in Jobs, "DELETED" \notin StatusesOf(j), job[j] = Summary(StatusesOf(j))
  PROVE  PStatus[j] = Promise!Verdict({POutcome[d] : d \in DocsOf(j)})
<1> DEFINE S == StatusesOf(j)
           O == {POutcome[d] : d \in DocsOf(j)}
<1>1. \A d \in DocsOf(j) : POutcome[d] = IF doc[d].status \in Terminal THEN doc[d].status ELSE "PENDING"
  BY DEF POutcome, StatusesOf, DocsOf
<1>2. /\ "PENDING" \in O <=> ~(S \subseteq Terminal)
      /\ S \subseteq Terminal => O = S
  BY <1>1 DEF StatusesOf, Terminal
<1>3. PStatus[j] = IF Summary(S) \in Live THEN "OPEN" ELSE Summary(S)
  BY DEF PStatus
<1> HIDE DEF S, O
<1>4. PStatus[j] = Promise!Verdict(O)
  <2>1. CASE ~(S \subseteq Terminal)
    BY <1>2, <1>3, <2>1 DEF Summary, Promise!Verdict, Live
  <2>2. CASE S \subseteq Terminal
    BY <1>2, <1>3, <2>2 DEF Summary, Promise!Verdict, Live
  <2> QED
    BY <2>1, <2>2
<1> QED
  BY <1>4 DEF O

\* complete(), fail() and recover() decide the documents that get the outcome.
LEMMA SettlesDecides ==
  ASSUME RowsFollowJobs, JobStatusAgrees, NEW D \in SUBSET Docs, Settles(D),
         NEW result \in {"SUCCEEDED", "FAILED"},
         \A d \in D : doc'[d].status \in {result, "RETRY_WAIT"},
         NEW F, F = {d \in D : doc'[d].status = result},
         PReadable' = IF result = "SUCCEEDED" THEN PReadable \cup F ELSE PReadable
  PROVE  Promise!Decide(F, result)
<1>1. \A d \in F : PStatus[JobOf[d]] \notin Gone /\ POutcome[d] = "PENDING"
  BY DEF Settles, PStatus, POutcome, Gone, Terminal
<1>2. POutcome' = [d \in Docs |-> IF d \in F THEN result ELSE POutcome[d]]
  <2>1. \A d \in Docs : POutcome'[d] = IF d \in F THEN result ELSE POutcome[d]
    BY DEF Settles, POutcome, Terminal
  <2> QED
    BY <2>1 DEF POutcome
<1>3. ASSUME NEW j \in Jobs
      PROVE  PStatus'[j] = IF \E d \in F : JobOf[d] = j
                           THEN Promise!Verdict({POutcome'[d] : d \in DocsOf(j)}) ELSE PStatus[j]
  <2>1. CASE \E d \in F : JobOf[d] = j
    <3>1. job[j] \notin Gone /\ job'[j] = Summary(StatusesOf(j)')
      BY <2>1 DEF Settles
    <3>2. "DELETED" \notin StatusesOf(j)'
      BY <3>1 DEF Settles, StatusesOf, DocsOf, RowsFollowJobs, Gone
    <3>3. (job[j] = Summary(StatusesOf(j)) /\ "DELETED" \notin StatusesOf(j))'
      BY <3>1, <3>2
    <3>4. (PStatus[j] = Promise!Verdict({POutcome[d] : d \in DocsOf(j)}))'
      BY <3>3, SummaryIsVerdict, PTL
    <3> QED
      BY <2>1, <3>4
  <2>2. CASE (\E d \in D : JobOf[d] = j) /\ ~\E d \in F : JobOf[d] = j
    <3>1. PICK d \in D : JobOf[d] = j
      BY <2>2
    <3>2. d \in DocsOf(j) /\ doc[d].status = "PROCESSING" /\ doc'[d].status = "RETRY_WAIT"
      BY <2>2, <3>1 DEF Settles, DocsOf
    <3>3. "PROCESSING" \in StatusesOf(j) /\ "RETRY_WAIT" \in StatusesOf(j)'
      BY <3>2 DEF StatusesOf
    <3>4. Summary(StatusesOf(j)) = "PROCESSING" /\ Summary(StatusesOf(j)') = "PROCESSING"
      BY <3>3 DEF Summary, Terminal
    <3>5. job'[j] = "PROCESSING" /\ job[j] \notin Gone
      BY <2>2, <3>1, <3>4 DEF Settles
    <3>6. job[j] \in Live
      BY <3>3, <3>4, <3>5, AgreesOne DEF Agrees, Gone, Live
    <3> QED
      BY <2>2, <3>5, <3>6 DEF PStatus, Live
  <2>3. CASE ~\E d \in D : JobOf[d] = j
    BY <2>3 DEF Settles, PStatus
  <2> QED
    BY <2>1, <2>2, <2>3
<1>4. PStatus' = [j \in Jobs |-> IF \E d \in F : JobOf[d] = j
                                 THEN Promise!Verdict({POutcome'[d] : d \in DocsOf(j)}) ELSE PStatus[j]]
  BY <1>3 DEF PStatus
<1> QED
  BY <1>1, <1>2, <1>4 DEF Promise!Decide, Promise!DocsOf, Promise!Gone, DocsOf, Gone,
     PStatus, POutcome, PReadable

\* A step that leaves outcomes and objects alone stutters.
LEMMA QuietStutters ==
  ASSUME OutcomesStay, UNCHANGED objects
  PROVE  PromiseStays
<1>1. PStatus' = PStatus
  BY DEF OutcomesStay, PStatus
<1>2. POutcome' = POutcome
  BY DEF OutcomesStay, POutcome
<1>3. PReadable' = PReadable
  BY DEF OutcomesStay, PReadable, Published
<1> QED
  BY <1>1, <1>2, <1>3 DEF PromiseStays

LEMMA ClaimStutters ==
  ASSUME StoreTypeOK, NEW d \in Docs, Claimable(d), Claim(d), UNCHANGED objects
  PROVE  PromiseStays
<1> USE ClaimEffect
<1>1. PStatus' = PStatus
  BY DEF PStatus, Live
<1>2. \A e \in Docs : POutcome'[e] = POutcome[e]
  BY DEF POutcome, Terminal
<1>3. POutcome' = POutcome
  BY <1>2 DEF POutcome
<1>4. PReadable' = PReadable
  BY DEF PReadable, Published
<1> QED
  BY <1>1, <1>3, <1>4 DEF PromiseStays

\* complete() makes its document succeed, and readable.
LEMMA PublishSucceeds ==
  ASSUME StoreTypeOK, RowsFollowJobs, JobStatusAgrees, NEW d \in Docs, NEW a \in Attempts,
         Lock(d, a), <<d, a>> \in objects, Publish(d, a), UNCHANGED objects
  PROVE  Promise!Succeed
<1>1. /\ Settles({d}) /\ doc'[d].status = "SUCCEEDED" /\ doc'[d].result = a
      /\ \A e \in Docs \ {d} : doc'[e].result = doc[e].result /\ doc'[e].status = doc[e].status
  BY OutcomeSettles DEF Settles
<1>2. PReadable' = PReadable \cup {d}
  BY <1>1 DEF PReadable, Published
<1>3. {d} = {e \in {d} : doc'[e].status = "SUCCEEDED"}
  BY <1>1
<1>4. Promise!Decide({d}, "SUCCEEDED")
  BY <1>1, <1>2, <1>3, SettlesDecides
<1> QED
  BY <1>4 DEF Promise!Succeed

\* Documents that fail for good do, all at once; the others stay pending.
LEMMA SettlesFails ==
  ASSUME RowsFollowJobs, JobStatusAgrees, NEW D \in SUBSET Docs, Settles(D), UNCHANGED objects,
         \A d \in D : doc'[d].status \in {"FAILED", "RETRY_WAIT"},
         \A d \in Docs : doc'[d].result = doc[d].result
  PROVE  Promise!Fail \/ PromiseStays
<1> DEFINE F == {d \in D : doc'[d].status = "FAILED"}
<1>1. PReadable' = PReadable
  BY DEF Settles, PReadable, Published
<1>2. Promise!Decide(F, "FAILED")
  BY <1>1, SettlesDecides
<1>3. F \in SUBSET Docs
  OBVIOUS
<1> HIDE DEF F
<1>4. CASE F # {}
  BY <1>2, <1>3, <1>4 DEF Promise!Fail
<1>5. CASE F = {}
  BY <1>1, <1>2, <1>5 DEF Promise!Decide, PromiseStays, PStatus, POutcome, PReadable
<1> QED
  BY <1>4, <1>5

LEMMA DeleteKeepsPromise ==
  ASSUME StoreTypeOK, NEW j \in Jobs, Delete(j), UNCHANGED objects
  PROVE  Promise!Delete(j) \/ PromiseStays
<1>1. /\ UNCHANGED doc /\ job[j] # "DELETED"
      /\ \A i \in Jobs : job'[i] = IF i = j THEN "DELETING" ELSE job[i]
  BY DEF Delete, StoreTypeOK
<1>2. POutcome' = POutcome /\ PReadable' = PReadable
  BY <1>1 DEF POutcome, PReadable, Published
<1>3. PStatus' = [PStatus EXCEPT ![j] = "DELETING"]
  BY <1>1 DEF PStatus, Live
<1>4. CASE job[j] = "DELETING"
  BY <1>1, <1>2, <1>4 DEF PromiseStays, PStatus
<1>5. CASE job[j] # "DELETING"
  <2>1. PStatus[j] \notin Gone
    BY <1>1, <1>5 DEF PStatus, Gone
  <2> QED
    BY <1>2, <1>3, <2>1 DEF Promise!Delete, Promise!Gone, Gone, PStatus, POutcome, PReadable
<1> QED
  BY <1>4, <1>5

\* A row is removed when no result of its job can be read.
LEMMA DeleteRowErases ==
  ASSUME StoreTypeOK, ErasedResultsAreGone, NEW j \in ctl.erased, j \in Jobs, job[j] = "DELETING",
         DeleteRow(j), UNCHANGED objects
  PROVE  Promise!Erase(j)
<1>1. /\ \A d \in Docs : doc'[d] = IF JobOf[d] = j THEN NoRow ELSE doc[d]
      /\ \A i \in Jobs : job'[i] = IF i = j THEN "DELETED" ELSE job[i]
  BY DEF DeleteRow, DocsOf, StoreTypeOK
<1>2. NoRow.status = "DELETED"
  BY DEF NoRow, QueuedRow
<1>3. PReadable \cap DocsOf(j) = {}
  BY DEF PReadable, ErasedResultsAreGone
<1>4. PReadable' = PReadable
  BY <1>1, <1>2, <1>3 DEF PReadable, Published, DocsOf
<1>5. PStatus' = [PStatus EXCEPT ![j] = "DELETED"] /\ PStatus[j] = "DELETING"
  BY <1>1 DEF PStatus, Live
<1>6. POutcome' = [d \in Docs |-> IF d \in DocsOf(j) THEN "DELETED" ELSE POutcome[d]]
  BY <1>1, <1>2 DEF POutcome, DocsOf
<1> QED
  BY <1>3, <1>4, <1>5, <1>6 DEF Promise!Erase, Promise!DocsOf, DocsOf, PStatus, POutcome, PReadable

\* An object that is not published may come and go unseen; those of a job that is
\* being deleted are withdrawn.
LEMMA BucketKeepsPromise ==
  ASSUME TypeOK, \A j \in graceOver : job[j] = "DELETING", UNCHANGED storeVars, BucketChange
  PROVE  (\E j \in Jobs : Promise!Withdraw(j)) \/ PromiseStays
<1>1. PStatus' = PStatus /\ POutcome' = POutcome
  BY DEF storeVars, PStatus, POutcome
<1>2. CASE \/ objects' = objects
           \/ \E k \in Key : /\ doc[k[1]].result # k[2]
                             /\ objects' = objects \cup {k} \/ objects' = objects \ {k}
  <2>1. \A d \in Docs : <<d, doc[d].result>> \in objects' <=> <<d, doc[d].result>> \in objects
    BY <1>2
  <2>2. PReadable' = PReadable
    BY <2>1 DEF storeVars, PReadable, Published
  <2> QED
    BY <1>1, <2>2 DEF PromiseStays
<1>3. ASSUME NEW j \in graceOver, NEW K \in SUBSET (DocsOf(j) \X Attempts), objects' = objects \ K
      PROVE  \E i \in Jobs : Promise!Withdraw(i)
  <2>1. j \in Jobs /\ PStatus[j] = "DELETING"
    BY DEF TypeOK, StoreTypeOK, PStatus, Live
  <2> DEFINE S == {d \in DocsOf(j) : <<d, doc[d].result>> \notin objects'}
  <2>2. \A d \in Docs : d \notin DocsOf(j) =>
           (<<d, doc[d].result>> \in objects' <=> <<d, doc[d].result>> \in objects)
    BY <1>3
  <2>3. PReadable' = PReadable \ S
    BY <1>3, <2>2 DEF storeVars, PReadable, Published
  <2>4. S \in SUBSET DocsOf(j)
    OBVIOUS
  <2>5. Promise!Withdraw(j)
    <3> HIDE DEF S
    <3> QED
      BY <1>1, <2>1, <2>3, <2>4 DEF Promise!Withdraw, Promise!DocsOf, DocsOf, PStatus, POutcome, PReadable
  <2> QED
    BY <2>1, <2>5
<1> QED
  BY <1>2, <1>3 DEF BucketChange

LEMMA StepKeepsPromise == PromiseInv /\ [Next]_vars => [Promise!Next]_(Promise!promiseVars)
<1> SUFFICES ASSUME PromiseInv, [Next]_vars PROVE Promise!Next \/ PromiseStays
  BY DEF Promise!promiseVars, PromiseStays, PStatus, POutcome, PReadable
<1>1. /\ IInv /\ TypeOK /\ StoreTypeOK /\ RowsFollowJobs /\ JobStatusAgrees /\ ErasedResultsAreGone
      /\ \A j \in graceOver : job[j] = "DELETING"
      /\ \A j \in ctl.erased : j \in Jobs /\ job[j] = "DELETING"
  BY DEF PromiseInv, IInv, TypeOK, CleanupIsConfined
<1>2. CASE UNCHANGED objects /\ WorkerTx
  <2>1. CASE \E d \in Docs : Claimable(d) /\ Claim(d)
    BY <1>1, <1>2, <2>1, ClaimStutters
  <2>2. CASE \E k \in Key : TrackOrphan(k)
    BY <1>1, <1>2, <2>2, BookkeepingIsQuiet, QuietStutters
  <2>3. ASSUME NEW d \in Docs, NEW a \in Attempts, Lock(d, a), <<d, a>> \in objects, Publish(d, a)
        PROVE  Promise!Next
    BY <1>1, <1>2, <2>3, PublishSucceeds DEF Promise!Next
  <2>4. ASSUME NEW d \in Docs, NEW a \in Attempts, NEW retryable \in BOOLEAN, Lock(d, a),
               Fail(d, a, retryable), ~Publish(d, a)
        PROVE  Promise!Next \/ PromiseStays
    <3>1. /\ Settles({d}) /\ \A e \in {d} : doc'[e].status \in {"FAILED", "RETRY_WAIT"}
          /\ \A e \in Docs : doc'[e].result = doc[e].result
      BY <1>1, <2>4, OutcomeSettles
    <3>2. Promise!Fail \/ PromiseStays
      BY <1>1, <1>2, <3>1, SettlesFails
    <3> QED
      BY <3>2 DEF Promise!Next
  <2>5. ASSUME NEW d \in Docs, NEW a, NEW retryable, Lock(d, a), Fail(d, a, retryable)
        PROVE  ~Publish(d, a)
    BY <1>1, <2>5 DEF Fail, Publish, StoreTypeOK, DocRow, FailsForGood
  <2> QED
    BY <1>2, <2>1, <2>2, <2>3, <2>4, <2>5 DEF WorkerTx
<1>3. CASE UNCHANGED objects /\ ControllerTx
  <2>1. CASE \E S \in SUBSET LapsedJobs : RecoverJobs(S)
    <3>1. Promise!Fail \/ PromiseStays
      BY <1>1, <1>3, <2>1, RecoverySettles, SettlesFails
    <3> QED
      BY <3>1 DEF Promise!Next
  <2>2. CASE \E j \in ctl.erased : DeleteRow(j)
    BY <1>1, <1>3, <2>2, DeleteRowErases DEF Promise!Next
  <2>3. CASE \E j \in Jobs : Delete(j)
    BY <1>1, <1>3, <2>3, DeleteKeepsPromise DEF Promise!Next
  <2> QED
    BY <1>1, <1>3, <2>1, <2>2, <2>3, BookkeepingIsQuiet, QuietStutters DEF ControllerTx
<1>4. CASE UNCHANGED objects /\ Tick
  BY <1>1, <1>4, BookkeepingIsQuiet, QuietStutters
<1>5. CASE UNCHANGED storeVars /\ BucketChange
  BY <1>1, <1>5, BucketKeepsPromise DEF Promise!Next
<1> QED
  BY <1>1, <1>2, <1>3, <1>4, <1>5, StepsAreTransactions DEF ServiceStep, Transaction

\* The service implements BatchPromise: every document gets one outcome and keeps
\* it, the job's status sums the outcomes up, a published result can be read until
\* its owner deletes the job, and none can be once the job's row is gone.
THEOREM ServiceKeepsPromise == Spec => KeepsPromise
  BY InitKeepsPromise, StepKeepsPromise, PromiseInvariant, PTL DEF Spec, KeepsPromise, Promise!Spec
=============================================================================
