-------------------------- MODULE BatchIngestion --------------------------
(***************************************************************************)
(* The batch service at work on accepted jobs: workers, controller, user,  *)
(* Redis and the clock over one database and one bucket.                   *)
(***************************************************************************)
EXTENDS Controller

vars == <<storeVars, entries, objects, worker, faulty, ctl>>

Init == /\ StoreInit /\ QueueInit /\ BlobInit
        /\ WorkerInit /\ ControllerInit

-----------------------------------------------------------------------------
(* Time.  Two waits of 1200 s are longer than anything that can be in      *)
(* flight: from the lock check of complete() to its publication there is   *)
(* one upload, limited to 20 s, and a few database calls of at most 10 s.  *)
(* UploadWindow is that stretch of the code; no 1200 s end inside it.      *)

UploadWindow(w) == worker[w].pc \in {"uploading", "publishing"}

Clock(step) == step /\ UNCHANGED <<entries, objects, worker, faulty, ctl>>

DocTime(d) == Clock(DelayEnds(d) \/ RowComesDue(d) \/ EnqueueGoesStale(d))

\* A mistaken wait: shorter than an upload takes.
KeyTimeHasty(k) == Clock(OrphanAges(k))

KeyTime(k) == Clock(/\ OrphanAges(k)
                    /\ \A w \in Workers : UploadWindow(w) => KeyOf(w) # k)

JobTime(j) == Clock(/\ GraceEnds(j)
                    /\ \A w \in Workers : UploadWindow(w) => JobOf[DocOf(w)] # j)

LeaseTime(d) == Clock(LeaseExpires(d))

TimePasses == \/ \E d \in Docs : DocTime(d) \/ LeaseTime(d)
              \/ \E k \in Key : KeyTime(k)
              \/ \E j \in Jobs : JobTime(j)

-----------------------------------------------------------------------------
(* The rest of the environment.                                            *)

\* ResultsController.delete, at any time and any number of times.
UserDeletes ==
    /\ \E j \in Jobs : Delete(j)
    /\ UNCHANGED <<entries, objects, worker, faulty, ctl>>

RedisLoses ==
    /\ faulty
    /\ \E lost \in SUBSET entries : LoseEntries(lost)
    /\ UNCHANGED <<storeVars, objects, worker, faulty, ctl>>

WorkerMoves(w) == (Receive(w) \/ WorkerStep(w)) /\ UNCHANGED <<ctl, faulty>>
WorkerBreaks(w) == WorkerFault(w) /\ UNCHANGED <<ctl, faulty>>

Next ==
    \/ \E w \in Workers : WorkerMoves(w) \/ WorkerBreaks(w)
    \/ ControllerStep \/ ControllerFault
    \/ TimePasses \/ UserDeletes \/ RedisLoses

Spec == Init /\ [][Next]_vars

-----------------------------------------------------------------------------
(* Fairness.  The faults come to an end at some moment the specification   *)
(* leaves open.  From then on a worker or controller that can move does    *)
(* (both are loops restarted by ECS and the schedule, and every call has a *)
(* timeout), and time passes.  A lease is only sure to lapse once no       *)
(* worker holds its claim: heartbeats renew the others.                    *)

Stabilise ==
    /\ faulty
    /\ faulty' = FALSE
    /\ UNCHANGED <<storeVars, entries, objects, worker, ctl>>

Claimed(d) == \E w \in Workers : Working(w) /\ KeyOf(w) = <<d, doc[d].attempts>>

Fairness ==
    /\ WF_vars(Stabilise)
    /\ WF_vars(ControllerStep)
    /\ \A w \in Workers : WF_vars(WorkerMoves(w))
    /\ \A d \in Docs : WF_vars(~Claimed(d) /\ LeaseTime(d)) /\ WF_vars(DocTime(d))
    /\ \A k \in Key : WF_vars(KeyTime(k))
    /\ \A j \in Jobs : WF_vars(JobTime(j))

FairSpec == Init /\ [][Next \/ Stabilise]_vars /\ Fairness

-----------------------------------------------------------------------------
(* Safety.                                                                 *)

\* Every variable holds a value of its column, stream or object's kind.
TypeOK ==
    /\ StoreTypeOK
    /\ entries \subseteq Entry
    /\ objects \subseteq Key
    /\ worker \in [Workers -> WorkerState]
    /\ faulty \in BOOLEAN
    /\ ctl \in [pc: ControllerPC, batch: SUBSET Docs, erased: SUBSET Jobs,
                key: Key \cup {NoKey}]

Published(d) == doc[d].status = "SUCCEEDED"

\* The result link of a document that succeeded leads to an object: publishing,
\* orphan cleanup and the sweep of deleted jobs never leave one dangling while
\* the job can be read.
PublishedResultsExist ==
    \A d \in Docs : Published(d) /\ job[JobOf[d]] \notin Gone
                       => <<d, doc[d].result>> \in objects

\* Only the worker of the last claim publishes: a worker whose lease was lost
\* never overwrites or pre-empts the attempt that replaced it.
PublishedByLastClaim ==
    \A d \in Docs : doc[d].result = IF Published(d) THEN doc[d].attempts ELSE 0

\* No object in the bucket is forgotten: it is published, or its orphan row
\* will have it removed, whatever call failed or process died on the way.
NoUntrackedObject ==
    \A k \in objects : doc[k[1]].result = k[2] \/ orphan[k] # "none"

\* Two workers never both hold the lock of a document.
OneOwner ==
    \A v, w \in Workers :
        v # w /\ Working(v) /\ Working(w) /\ Owns(v) /\ Owns(w) => DocOf(v) # DocOf(w)

\* The job's status sums up its documents, after every transaction.
JobStatusAgrees ==
    \A j \in Jobs : LET S == {doc[d].status : d \in DocsOf(j)} IN
        CASE job[j] = "QUEUED"   -> S \subseteq {"QUEUED"}
          [] job[j] = "DELETING" -> "DELETED" \notin S
          [] job[j] = "DELETED"  -> S \subseteq {"DELETED"}
          [] OTHER               -> job[j] = Summary(S)

\* The attempt ledger agrees with the documents: one row per claim, and an
\* attempt is open exactly while it is the one being processed.
LedgerAgrees ==
    \A k \in Key : LET row == doc[k[1]] IN
        ledger[k] = IF k[2] > row.attempts THEN "none"
                    ELSE IF k[2] = row.attempts /\ row.status = "PROCESSING" THEN "open"
                    ELSE "closed"

\* A document that waits can still be claimed: nothing is left waiting with
\* its attempts used up.
WaitingCanBeClaimed ==
    \A d \in Docs : doc[d].status \in {"QUEUED", "RETRY_WAIT"}
                       => doc[d].attempts < MaxAttempts /\ doc[d].lease = "none"

\* Deleting a job withdraws its queued work for good: no racing failure,
\* recovery or dispatch brings an outbox row of it back.
DeletedJobsQueueNothing ==
    \A d \in Docs : job[JobOf[d]] \in Gone => outbox[d] = "none"

\* A retry that waits out its delay is in the outbox: a dispatch that has read the
\* row of the attempt before does not take the new one with it.
DelayedRetriesAreQueued ==
    \A d \in Docs : doc[d].status = "RETRY_WAIT" /\ ~doc[d].due /\ job[JobOf[d]] \notin Gone
                       => outbox[d] = "waiting"

\* The tables agree with each other after every transaction of any actor: a claim is on
\* the ledger, what waits has a claim left and, until it is due, a row in the outbox,
\* and what is deleted waits for none.
TablesAgree ==
    LedgerAgrees /\ WaitingCanBeClaimed /\ DelayedRetriesAreQueued /\ DeletedJobsQueueNothing

-----------------------------------------------------------------------------
(* The inductive invariant behind the first four: who may hold what while  *)
(* a result is on its way from a worker's claim to its publication.        *)

\* A working worker holds a claim of its own, not yet the published one.
ClaimsAreDistinct ==
    \A w \in Workers : Working(w) =>
        /\ worker[w].attempt <= doc[DocOf(w)].attempts \/ job[JobOf[DocOf(w)]] = "DELETED"
        /\ doc[DocOf(w)].result # worker[w].attempt
        /\ \A v \in Workers \ {w} : Working(v) => KeyOf(v) # KeyOf(w)

\* Its key is tracked, by a young row, from before the upload to the publication.
UploadsAreTracked ==
    \A w \in Workers :
        /\ At(w, "parsing") => orphan[KeyOf(w)] = "none"
        /\ UploadWindow(w) => orphan[KeyOf(w)] = "young"
        /\ At(w, "publishing") /\ job[JobOf[DocOf(w)]] \notin Gone => KeyOf(w) \in objects

\* Only jobs on their way out are swept, and only old, unpublished keys purged.
CleanupIsConfined ==
    /\ \A j \in graceOver : job[j] = "DELETING"
    /\ ctl.erased \subseteq graceOver
    /\ ctl.pc # "erased" => ctl.erased = {}
    /\ \A j \in ctl.erased, k \in objects : JobOf[k[1]] = j => orphan[k] # "none"
    /\ ctl.pc \in {"purge", "untrack"} => ctl.key \in Key /\ orphan[ctl.key] = "old"
    /\ ctl.pc = "purge" => ~Referenced(ctl.key)
    /\ ctl.pc = "untrack" => (ctl.key \in objects => Referenced(ctl.key))

\* A row leaves the table with its job, and with no earlier step.
RowsFollowJobs ==
    \A d \in Docs : job[JobOf[d]] = "DELETED" <=> doc[d].status = "DELETED"

\* An attempt not yet made has left nothing behind.
FutureIsBlank ==
    \A k \in Key : job[JobOf[k[1]]] # "DELETED" /\ k[2] > doc[k[1]].attempts
                       => orphan[k] = "none"

IInv == /\ TypeOK /\ PublishedResultsExist /\ PublishedByLastClaim /\ NoUntrackedObject
        /\ ClaimsAreDistinct /\ UploadsAreTracked /\ CleanupIsConfined /\ RowsFollowJobs
        /\ FutureIsBlank

\* Between the sweep of a job and the removal of its row no result of it returns.
ErasedResultsAreGone ==
    \A j \in ctl.erased : \A d \in DocsOf(j) : <<d, doc[d].result>> \notin objects

\* What the refinement of BatchPromise rests on.
PromiseInv == IInv /\ TablesAgree /\ JobStatusAgrees /\ ErasedResultsAreGone

-----------------------------------------------------------------------------
(* The service keeps its promise.                                          *)

Promise == INSTANCE BatchPromise WITH
    status   <- [j \in Jobs |-> IF job[j] \in Live THEN "OPEN" ELSE job[j]],
    outcome  <- [d \in Docs |-> IF doc[d].status \in Terminal \cup {"DELETED"}
                                THEN doc[d].status ELSE "PENDING"],
    readable <- {d \in Docs : Published(d) /\ <<d, doc[d].result>> \in objects}

\* Outcomes are final, the job status is their summary, published results stay
\* readable until the owner deletes the job, and are gone when its row is.
KeepsPromise == Promise!Spec

-----------------------------------------------------------------------------
(* Liveness.                                                               *)

\* Every job comes to rest, again and again: it gets its outcome, or is deleted and
\* its row goes, with no document stuck in the queue, with a dead worker or behind a
\* lost Redis entry; and all that its attempts leave behind is what is published.
Over(j) == job[j] \in Settled \cup {"DELETED"}
Tidy(j) == \A d \in DocsOf(j), a \in Attempts :
              orphan[<<d, a>>] = "none" /\ (<<d, a>> \in objects => doc[d].result = a)
JobsComeToRest == \A j \in Jobs : []<>(Over(j) /\ Tidy(j))
=============================================================================
