---------------------------- MODULE WorkerMain ----------------------------
(***************************************************************************)
(* The workers: the loop of WorkerMain.main around process().  A step ends *)
(* before the next call whose place among the other actors' steps makes a  *)
(* difference: a worker that is about to claim, parsing, about to upload,  *)
(* or about to publish.                                                    *)
(*                                                                         *)
(* A call can fail, and a COMMIT can take effect although its answer is    *)
(* lost (TursoDb: "write outcome may be unknown"); such faults happen      *)
(* while "faulty" holds.  Heartbeats renew a lease that is live and so     *)
(* change nothing here; what matters is that one may come too late, or     *)
(* fail, at any time (LeaseExpires, Abandon).                              *)
(***************************************************************************)
EXTENDS WorkStore, Queue

CONSTANTS
    Workers,
    MayFail   \* are there faults at all?

ASSUME MayFailAssumption == MayFail \in BOOLEAN

VARIABLES
    worker,  \* what each worker is doing
    faulty   \* may calls fail and processes die?

NoEntry == [doc |-> "none", id |-> 0]
Idle    == [pc |-> "idle", entry |-> NoEntry, attempt |-> 0]

WorkingPC   == {"parsing", "uploading", "publishing"}
WorkerState == [pc: {"idle"}, entry: {NoEntry}, attempt: {0}]
                  \cup [pc: {"claiming"}, entry: Entry, attempt: {0}]
                  \cup [pc: WorkingPC, entry: Entry, attempt: Attempts]

WorkerInit == worker = [w \in Workers |-> Idle] /\ faulty = MayFail

At(w, pc) == worker[w].pc = pc
Working(w) == worker[w].pc \in WorkingPC
DocOf(w)  == worker[w].entry.doc
KeyOf(w)  == <<DocOf(w), worker[w].attempt>>
Owns(w)   == Lock(DocOf(w), worker[w].attempt)
Held      == {worker[w].entry : w \in {v \in Workers : ~At(v, "idle")}}

Goto(w, pc) == worker' = [worker EXCEPT ![w].pc = pc]
Stop(w)     == worker' = [worker EXCEPT ![w] = Idle]

\* The end of an iteration of main().
Finish(w) == Stop(w) /\ Acknowledge(worker[w].entry)

-----------------------------------------------------------------------------
(* main() and process().                                                   *)

Receive(w) ==
    /\ At(w, "idle")
    /\ \E e \in entries :
          worker' = [worker EXCEPT ![w] = [Idle EXCEPT !.pc = "claiming", !.entry = e]]
    /\ UNCHANGED <<storeVars, entries, objects>>

ClaimDocument(w) ==
    /\ At(w, "claiming")
    /\ Claimable(DocOf(w))
    /\ worker' = [worker EXCEPT ![w].pc = "parsing",
                                ![w].attempt = doc[DocOf(w)].attempts + 1]
    /\ Claim(DocOf(w))
    /\ UNCHANGED <<entries, objects>>

\* claim() returns null: the message is acknowledged all the same.
NothingToClaim(w) ==
    /\ At(w, "claiming")
    /\ ~Claimable(DocOf(w))
    /\ Finish(w)
    /\ UNCHANGED <<storeVars, objects>>

\* A heartbeat was refused or failed, or the worker is shutting down: process()
\* returns without an outcome and main() acknowledges the message.
Abandon(w) ==
    /\ At(w, "parsing")
    /\ Finish(w)
    /\ UNCHANGED <<storeVars, objects>>

\* The catch blocks: fail() does nothing for a claim that lost its document.
ReportFailure(w, retryable) ==
    IF Owns(w) THEN Fail(DocOf(w), worker[w].attempt, retryable) ELSE UNCHANGED storeVars

\* A ParseFailure, retryable or not, or an exception (always retryable).
ParseFails(w) ==
    /\ At(w, "parsing")
    /\ \E retryable \in BOOLEAN : ReportFailure(w, retryable)
    /\ Finish(w)
    /\ UNCHANGED objects

\* The child succeeded: complete() checks the lock and records the key.
ParseSucceeds(w) ==
    /\ At(w, "parsing")
    /\ IF Owns(w)
       THEN TrackOrphan(KeyOf(w)) /\ Goto(w, "uploading") /\ UNCHANGED entries
       ELSE UNCHANGED storeVars /\ Finish(w)
    /\ UNCHANGED objects

Upload(w) ==
    /\ At(w, "uploading")
    /\ PutJson(KeyOf(w))
    /\ Goto(w, "publishing")
    /\ UNCHANGED <<storeVars, entries>>

\* A mistaken complete() that does not check the lock after the upload.
PublishUnlocked(w) ==
    /\ At(w, "publishing")
    /\ IF doc[DocOf(w)] # NoRow THEN Publish(DocOf(w), worker[w].attempt)
                                ELSE UNCHANGED storeVars
    /\ Finish(w)
    /\ UNCHANGED objects

\* The transaction of complete(); process() ignores whether it published.
PublishResult(w) ==
    /\ At(w, "publishing")
    /\ IF Owns(w) THEN Publish(DocOf(w), worker[w].attempt) ELSE UNCHANGED storeVars
    /\ Finish(w)
    /\ UNCHANGED objects

-----------------------------------------------------------------------------
(* Faults.                                                                 *)

\* An exception inside complete(): process() reports a retryable failure.
CompleteThrows(w) ==
    /\ faulty
    /\ worker[w].pc \in {"uploading", "publishing"}
    /\ ReportFailure(w, TRUE)
    /\ Finish(w)
    /\ UNCHANGED objects

\* The process dies, or an exception reaches main(): the message stays
\* unacknowledged.  A PUT under way may still be carried out.
Crash(w) ==
    /\ faulty
    /\ ~At(w, "idle")
    /\ Stop(w)
    /\ \/ UNCHANGED objects
       \/ At(w, "uploading") /\ PutJson(KeyOf(w))
    /\ UNCHANGED <<storeVars, entries>>

\* A transaction commits, but the worker dies or sees an exception before it
\* acknowledges the message.
DiesAfterCommit(w) ==
    /\ faulty
    /\ \/ At(w, "claiming") /\ Claimable(DocOf(w)) /\ Claim(DocOf(w))
       \/ /\ At(w, "publishing") /\ Owns(w)
          /\ Publish(DocOf(w), worker[w].attempt)
       \/ /\ Working(w) /\ Owns(w)
          /\ \E retryable \in IF At(w, "parsing") THEN BOOLEAN ELSE {TRUE} :
                Fail(DocOf(w), worker[w].attempt, retryable)
    /\ Stop(w)
    /\ UNCHANGED <<entries, objects>>

WorkerStep(w) ==
    \/ ClaimDocument(w) \/ NothingToClaim(w)
    \/ ParseSucceeds(w) \/ ParseFails(w) \/ Abandon(w)
    \/ Upload(w) \/ PublishResult(w)

WorkerFault(w) == CompleteThrows(w) \/ Crash(w) \/ DiesAfterCommit(w)
=============================================================================
