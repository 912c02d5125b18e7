---------------------------- MODULE Verification ----------------------------
(***************************************************************************)
(* Upload verification (common/Verification.java): a verifier claims a job *)
(* with a token and a 90 s lease, HEADs up to a chunk of its originals     *)
(* outside any transaction, and saves what it found in one transaction     *)
(* that checks the token, the lease and the submission's generation again. *)
(* The chunk that completes the job gives the verdict: all documents are   *)
(* queued, or the job goes back to its owner.                              *)
(***************************************************************************)
EXTENDS Schema, Integers, FiniteSets

CONSTANTS
    Verifiers,   \* concurrent runs of chunk (the Lambda's concurrency is 2)
    ChunkSize,   \* documents one chunk verifies (100 in the code)
    MaxSubmits,  \* bound: how often a job is submitted
    MayFail      \* are there faults at all?

ASSUME VerificationAssumption ==
    MaxSubmits \in Nat /\ ChunkSize \in Nat \ {0} /\ MayFail \in BOOLEAN

NoVerifier == "none"

VARIABLES
    job,         \* jobs.status, "DELETED" once the row is gone
    generation,  \* jobs.verification_generation
    token,       \* jobs.verification_token: whose it is, or NoVerifier
    lease,       \* jobs.verification_until against now, "none" for NULL
    doc,         \* the documents table
    outbox,      \* documents with an outbox row
    original,    \* the originals in the bucket: "none", "good" or "bad"
    verifier     \* what each verifier is doing

jobVars == <<job, generation, token, lease>>

(***************************************************************************)
(* An original is "bad" when its size is not the manifest's or the bucket  *)
(* gave it no version.                                                     *)
(***************************************************************************)
Errors == {"none", "MISSING_UPLOAD", "INVALID_UPLOAD"}
DocRow == [status: {"UPLOADING", "QUEUED", "DELETED"},
           verified: {-1} \cup Nat,     \* verified_generation
           versioned: BOOLEAN,          \* source_version IS NOT NULL
           error: Errors]
NewRow == [status |-> "UPLOADING", verified |-> -1, versioned |-> FALSE, error |-> "none"]

Idle == [pc |-> "idle", job |-> "none", generation |-> 0, todo |-> {}, found |-> {}]

VerificationInit ==
    /\ job = [j \in Jobs |-> "UPLOADING"]
    /\ generation = [j \in Jobs |-> 0]
    /\ token = [j \in Jobs |-> NoVerifier]
    /\ lease = [j \in Jobs |-> "none"]
    /\ doc = [d \in Docs |-> NewRow]
    /\ outbox = {}
    /\ original = [d \in Docs |-> "none"]
    /\ verifier = [v \in Verifiers |-> Idle]

At(v, pc) == verifier[v].pc = pc

-----------------------------------------------------------------------------
(* chunk(job).  Its invocations may be delayed or duplicated, so any       *)
(* verifier may try any job at any time; without the claim it does nothing.*)

\* A mistaken claim that does not take over from a verifier that died.
ClaimUnclaimed(v, j) ==
    /\ At(v, "idle")
    /\ job[j] = "VERIFYING" /\ lease[j] = "none"
    /\ token' = [token EXCEPT ![j] = v]
    /\ lease' = [lease EXCEPT ![j] = "live"]
    /\ verifier' = [verifier EXCEPT ![v] = [Idle EXCEPT !.pc = "selecting", !.job = j,
                                                        !.generation = generation[j]]]
    /\ UNCHANGED <<job, generation, doc, outbox, original>>

ClaimJob(v, j) ==
    /\ At(v, "idle")
    /\ job[j] = "VERIFYING" /\ lease[j] # "live"
    /\ token' = [token EXCEPT ![j] = v]
    /\ lease' = [lease EXCEPT ![j] = "live"]
    /\ verifier' = [verifier EXCEPT ![v] = [Idle EXCEPT !.pc = "selecting", !.job = j,
                                                        !.generation = generation[j]]]
    /\ UNCHANGED <<job, generation, doc, outbox, original>>

Unverified(j, g, rows) == {d \in DocsOf(j) : rows[d].verified # g}

SelectDocs(v) ==
    /\ At(v, "selecting")
    /\ LET left == Unverified(verifier[v].job, verifier[v].generation, doc) IN
       \E S \in SUBSET left :
          /\ IF Cardinality(left) <= ChunkSize THEN S = left ELSE Cardinality(S) = ChunkSize
          /\ verifier' = [verifier EXCEPT ![v].pc = "heading", ![v].todo = S]
    /\ UNCHANGED <<jobVars, doc, outbox, original>>

ErrorOf(d) == CASE original[d] = "none" -> "MISSING_UPLOAD"
                [] original[d] = "bad"  -> "INVALID_UPLOAD"
                [] OTHER                -> "none"

\* One of the HEAD requests of the pool of eight.
Head(v) ==
    /\ At(v, "heading")
    /\ \E d \in verifier[v].todo :
          verifier' = [verifier EXCEPT ![v].todo = @ \ {d},
                                       ![v].found = @ \cup {[doc |-> d, error |-> ErrorOf(d)]}]
    /\ UNCHANGED <<jobVars, doc, outbox, original>>

\* Two mistaken checks of the claim: the status is not asked for, or neither the
\* token nor the generation is.
OwnerOfAnyStatus(v) == LET j == verifier[v].job IN
    /\ generation[j] = verifier[v].generation
    /\ token[j] = v /\ lease[j] = "live"

OwnerWithoutToken(v) == LET j == verifier[v].job IN
    job[j] = "VERIFYING" /\ lease[j] = "live"

Owner(v) == LET j == verifier[v].job IN
    /\ job[j] = "VERIFYING" /\ generation[j] = verifier[v].generation
    /\ token[j] = v /\ lease[j] = "live"

\* A mistaken verdict given chunk by chunk.
AcceptsChunk(j, g, rows) == \A d \in DocsOf(j) : rows[d].error = "none"

\* All documents of the job are verified, and none is at fault.
Accepts(j, g, rows) ==
    /\ Unverified(j, g, rows) = {}
    /\ \A d \in DocsOf(j) : rows[d].error = "none"

\* The transaction: rows is the documents table after the first UPDATE.
SaveFindings(v) ==
    LET j       == verifier[v].job
        g       == verifier[v].generation
        rows    == [d \in Docs |->
                      IF \E f \in verifier[v].found : f.doc = d
                      THEN LET f == CHOOSE x \in verifier[v].found : x.doc = d IN
                           [doc[d] EXCEPT !.versioned = (f.error = "none"),
                                          !.error = f.error, !.verified = g]
                      ELSE doc[d]]
        done    == Unverified(j, g, rows) = {}
        accept  == Accepts(j, g, rows)
    IN  /\ doc' = [d \in Docs |-> IF accept /\ d \in DocsOf(j)
                                  THEN [rows[d] EXCEPT !.status = "QUEUED"] ELSE rows[d]]
        /\ outbox' = IF accept THEN outbox \cup DocsOf(j) ELSE outbox
        /\ job' = IF done THEN [job EXCEPT ![j] = IF accept THEN "QUEUED" ELSE "UPLOADING"]
                          ELSE job
        /\ UNCHANGED <<generation, token, lease, original>>

Save(v) ==
    /\ At(v, "heading") /\ verifier[v].todo = {}
    /\ IF Owner(v) THEN SaveFindings(v)
                   ELSE UNCHANGED <<jobVars, doc, outbox, original>>
    /\ verifier' = [verifier EXCEPT ![v].pc = "releasing"]

\* The finally block: a newer claim's token is left alone.
Release(v) ==
    /\ At(v, "releasing")
    /\ LET j == verifier[v].job IN
       /\ token' = IF token[j] = v THEN [token EXCEPT ![j] = NoVerifier] ELSE token
       /\ lease' = IF token[j] = v THEN [lease EXCEPT ![j] = "none"] ELSE lease
    /\ verifier' = [verifier EXCEPT ![v] = Idle]
    /\ UNCHANGED <<job, generation, doc, outbox, original>>

\* A HEAD, the selection or the transaction fails: nothing is saved.
ChunkFails(v) ==
    /\ verifier[v].pc \in {"selecting", "heading"}
    /\ verifier' = [verifier EXCEPT ![v].pc = "releasing"]
    /\ UNCHANGED <<jobVars, doc, outbox, original>>

\* The Lambda dies, or its last UPDATE fails: the lease has to run out.
VerifierDies(v) ==
    /\ ~At(v, "idle")
    /\ verifier' = [verifier EXCEPT ![v] = Idle]
    /\ UNCHANGED <<jobVars, doc, outbox, original>>

VerifierStep(v) ==
    \/ \E j \in Jobs : ClaimJob(v, j)
    \/ SelectDocs(v) \/ Head(v) \/ Save(v) \/ Release(v)

VerifierFault(v) == ChunkFails(v) \/ VerifierDies(v)
=============================================================================
