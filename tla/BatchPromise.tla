--------------------------- MODULE BatchPromise ---------------------------
(***************************************************************************)
(* What the batch service promises the owner of a submitted job, without   *)
(* workers, leases, queues or retries: every document gets one outcome and *)
(* keeps it, the job's status sums the outcomes up, the result of a        *)
(* document that succeeded can be read until the owner deletes the job,    *)
(* and a deleted job leaves no result that can be read.                    *)
(***************************************************************************)
EXTENDS Schema

VARIABLES
    status,    \* what GET /jobs/{id} shows: "OPEN", a settled status, or gone
    outcome,   \* each document's: "PENDING", "SUCCEEDED", "FAILED", "DELETED"
    readable   \* documents whose published result is in the bucket

promiseVars == <<status, outcome, readable>>

Init ==
    /\ status = [j \in Jobs |-> "OPEN"]
    /\ outcome = [d \in Docs |-> "PENDING"]
    /\ readable = {}

Verdict(S) == IF "PENDING" \in S THEN "OPEN"
              ELSE IF S \subseteq {"SUCCEEDED"} THEN "SUCCEEDED"
              ELSE IF S \subseteq {"FAILED"} THEN "FAILED"
              ELSE "PARTIAL_SUCCESS"

\* Documents of jobs that are not deleted get their outcome.
Decide(S, result) ==
    /\ \A d \in S : status[JobOf[d]] \notin Gone /\ outcome[d] = "PENDING"
    /\ outcome' = [d \in Docs |-> IF d \in S THEN result ELSE outcome[d]]
    /\ status' = [j \in Jobs |->
          IF \E d \in S : JobOf[d] = j
          THEN Verdict({outcome'[d] : d \in DocsOf(j)}) ELSE status[j]]
    /\ readable' = IF result = "SUCCEEDED" THEN readable \cup S ELSE readable

Succeed == \E d \in Docs : Decide({d}, "SUCCEEDED")
Fail    == \E S \in (SUBSET Docs) \ {{}} : Decide(S, "FAILED")

Delete(j) ==
    /\ status[j] \notin Gone
    /\ status' = [status EXCEPT ![j] = "DELETING"]
    /\ UNCHANGED <<outcome, readable>>

\* Results of a job being deleted disappear, all of them before its row does.
Withdraw(j) ==
    /\ status[j] = "DELETING"
    /\ \E S \in SUBSET DocsOf(j) : readable' = readable \ S
    /\ UNCHANGED <<status, outcome>>

Erase(j) ==
    /\ status[j] = "DELETING"
    /\ readable \cap DocsOf(j) = {}
    /\ status' = [status EXCEPT ![j] = "DELETED"]
    /\ outcome' = [d \in Docs |-> IF d \in DocsOf(j) THEN "DELETED" ELSE outcome[d]]
    /\ UNCHANGED readable

Next == \/ Succeed \/ Fail
        \/ \E j \in Jobs : Delete(j) \/ Withdraw(j) \/ Erase(j)

Spec == Init /\ [][Next]_promiseVars
=============================================================================
