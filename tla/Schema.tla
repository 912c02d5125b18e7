------------------------------ MODULE Schema ------------------------------
(***************************************************************************)
(* The batch service's vocabulary: what its tables (V1.sql) are about, and *)
(* the status values the code writes into them.                            *)
(***************************************************************************)
EXTENDS Naturals

CONSTANTS
    Jobs,         \* the jobs
    Docs,         \* the documents
    JobOf,        \* the job of each document
    MaxAttempts   \* attempts a document may use up (3 in the code)

ASSUME JobsAssumption == JobOf \in [Docs -> Jobs]
ASSUME AttemptsAssumption == MaxAttempts \in Nat \ {0}

Live     == {"QUEUED", "PROCESSING"}                    \* jobs being worked on
Settled  == {"SUCCEEDED", "PARTIAL_SUCCESS", "FAILED"}  \* jobs with an outcome
Gone     == {"DELETING", "DELETED"}                     \* "DELETED": no such row
Terminal == {"SUCCEEDED", "FAILED"}                     \* documents with an outcome

DocsOf(j) == {d \in Docs : JobOf[d] = j}

(***************************************************************************)
(* A claim's token is a fresh UUID, and every claim increments attempts:   *)
(* the number of the attempt stands for the token.  A result object is     *)
(* named by document and token: jobs/{job}/results/{document}/{token}.json *)
(***************************************************************************)
Attempts == 1 .. MaxAttempts
Key == Docs \X Attempts
=============================================================================
