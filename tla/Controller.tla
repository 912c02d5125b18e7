---------------------------- MODULE Controller ----------------------------
(***************************************************************************)
(* The controller's minute-by-minute run (controller/Controller.java):     *)
(* recover, dispatch when documents are outstanding, cleanup.  One run at  *)
(* a time, as its database lease and its reserved concurrency of one have  *)
(* it.  A run ends early by an exception, its deadline or a crash.         *)
(***************************************************************************)
EXTENDS WorkerMain

CONSTANTS RecoverLimit   \* jobs one recover() looks at (10 in the code)

VARIABLE ctl   \* where the run is, and the documents, job or key in hand

ControllerPC == {"recover", "requeue", "dispatch", "dispatched",
                 "cleanup", "erased", "orphans", "purge", "untrack"}

NoKey  == <<"none", 0>>
AtRest == [pc |-> "recover", batch |-> {}, erased |-> {}, key |-> NoKey]

ControllerInit == ctl = AtRest

CtlAt(pc)   == ctl.pc = pc
CtlGoto(pc) == ctl' = [ctl EXCEPT !.pc = pc]

-----------------------------------------------------------------------------
(* recover().                                                              *)

\* SELECT DISTINCT job_id ... LIMIT 10: jobs being deleted take up places too.
LapsedJobs == {JobOf[d] : d \in {e \in Docs : Lapsed(e)}}

Recover ==
    /\ CtlAt("recover")
    /\ \E S \in SUBSET LapsedJobs :
          /\ IF Cardinality(LapsedJobs) <= RecoverLimit THEN S = LapsedJobs
                                                        ELSE Cardinality(S) = RecoverLimit
          /\ RecoverJobs(S)
    /\ CtlGoto("requeue")
    /\ UNCHANGED <<entries, objects, worker, faulty>>

RequeueStale ==
    /\ CtlAt("requeue")
    /\ Requeue
    /\ CtlGoto("dispatch")
    /\ UNCHANGED <<entries, objects, worker, faulty>>

-----------------------------------------------------------------------------
(* dispatch(): one batch takes every due row here (100 in the code, and up *)
(* to 40 batches a run).                                                   *)

NothingToDispatch ==
    /\ CtlAt("dispatch")
    /\ Outstanding = {} \/ DueRows = {}
    /\ CtlGoto("cleanup")
    /\ UNCHANGED <<storeVars, entries, objects, worker, faulty>>

PublishDue ==
    /\ CtlAt("dispatch")
    /\ Outstanding # {} /\ DueRows # {}
    /\ PublishMany(DueRows, Held)
    /\ ReadRows(DueRows)
    /\ ctl' = [ctl EXCEPT !.pc = "dispatched", !.batch = DueRows]
    /\ UNCHANGED <<objects, worker, faulty>>

CommitDispatch ==
    /\ CtlAt("dispatched")
    /\ Enqueued(ctl.batch)
    /\ ctl' = [ctl EXCEPT !.pc = "cleanup", !.batch = {}]
    /\ UNCHANGED <<entries, objects, worker, faulty>>

-----------------------------------------------------------------------------
(* cleanup(): DELETING jobs past their grace period, then old orphan rows. *)

\* A mistaken cleanup that deletes a job's row before its objects.
EraseRowFirst ==
    /\ CtlAt("cleanup")
    /\ \E j \in graceOver : ctl' = [ctl EXCEPT !.pc = "erased", !.erased = {j}]
    /\ UNCHANGED <<storeVars, entries, objects, worker, faulty>>

EraseJob ==
    /\ CtlAt("cleanup")
    /\ \E j \in graceOver :
          /\ DeletePrefix(DocsOf(j) \X Attempts)
          /\ ctl' = [ctl EXCEPT !.pc = "erased", !.erased = {j}]
    /\ UNCHANGED <<storeVars, entries, worker, faulty>>

DeleteJobRow ==
    /\ CtlAt("erased")
    /\ \E j \in ctl.erased : DeleteRow(j)
    /\ ctl' = [ctl EXCEPT !.pc = "cleanup", !.erased = {}]
    /\ UNCHANGED <<entries, objects, worker, faulty>>

\* A mistaken cleanup that returns when it has no job to sweep.
SweptAndDone ==
    /\ CtlAt("cleanup")
    /\ graceOver = {}
    /\ ctl' = AtRest
    /\ UNCHANGED <<storeVars, entries, objects, worker, faulty>>

\* The jobs found past their grace period are done with (5 a run in the code).
JobsSwept ==
    /\ CtlAt("cleanup")
    /\ graceOver = {}
    /\ CtlGoto("orphans")
    /\ UNCHANGED <<storeVars, entries, objects, worker, faulty>>

CheckOrphan ==
    /\ CtlAt("orphans")
    /\ \E k \in Key :
          /\ orphan[k] = "old"
          /\ ctl' = [ctl EXCEPT !.pc = IF Referenced(k) THEN "untrack" ELSE "purge",
                                !.key = k]
    /\ UNCHANGED <<storeVars, entries, objects, worker, faulty>>

PurgeOrphan ==
    /\ CtlAt("purge")
    /\ DeletePrefix({ctl.key})
    /\ CtlGoto("untrack")
    /\ UNCHANGED <<storeVars, entries, worker, faulty>>

UntrackOrphan ==
    /\ CtlAt("untrack")
    /\ Untrack(ctl.key)
    /\ ctl' = [ctl EXCEPT !.pc = "orphans", !.key = NoKey]
    /\ UNCHANGED <<entries, objects, worker, faulty>>

CleanupDone ==
    /\ CtlAt("orphans")
    /\ \A k \in Key : orphan[k] # "old"
    /\ ctl' = AtRest
    /\ UNCHANGED <<storeVars, entries, objects, worker, faulty>>

-----------------------------------------------------------------------------
(* Faults.                                                                 *)

\* The run ends early, between two of its steps.
RunAborts ==
    /\ faulty
    /\ ctl' = AtRest
    /\ ForgetRead
    /\ UNCHANGED <<entries, objects, worker, faulty>>

\* recover() throws after some of its jobs' transactions.
RecoverIncomplete ==
    /\ faulty
    /\ CtlAt("recover")
    /\ \E S \in SUBSET LapsedJobs :
          Cardinality(S) <= RecoverLimit /\ RecoverJobs(S)
    /\ ctl' = AtRest
    /\ UNCHANGED <<entries, objects, worker, faulty>>

\* publishMany() times out after some of its XADDs went through.
PublishIncomplete ==
    /\ faulty
    /\ CtlAt("dispatch")
    /\ Outstanding # {}
    /\ \E D \in SUBSET DueRows : D # {} /\ PublishMany(D, Held)
    /\ ctl' = AtRest
    /\ UNCHANGED <<storeVars, objects, worker, faulty>>

\* deletePrefix() removes some of the job's objects and throws.
EraseIncomplete ==
    /\ faulty
    /\ CtlAt("cleanup")
    /\ \E j \in graceOver : \E K \in SUBSET (DocsOf(j) \X Attempts) : DeletePrefix(K)
    /\ ctl' = AtRest
    /\ UNCHANGED <<storeVars, entries, worker, faulty>>

ControllerStep ==
    \/ Recover \/ RequeueStale
    \/ NothingToDispatch \/ PublishDue \/ CommitDispatch
    \/ EraseJob \/ DeleteJobRow \/ JobsSwept
    \/ CheckOrphan \/ PurgeOrphan \/ UntrackOrphan \/ CleanupDone

ControllerFault == RunAborts \/ RecoverIncomplete \/ PublishIncomplete \/ EraseIncomplete
=============================================================================
