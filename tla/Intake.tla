------------------------------- MODULE Intake --------------------------------
(***************************************************************************)
(* A batch from its request to its runs (api/main.py, pipeline/runner.py,  *)
(* store.py): requests for the same folder of the bucket race, the one     *)
(* that registers the batch stores its documents, and process_batch takes  *)
(* each document through extraction, structuring and anonymization in a    *)
(* pool of threads.                                                        *)
(*                                                                         *)
(* The rows of the store and the files on disk survive a restart of the    *)
(* server; requests, queued jobs, threads and the extractor do not, and    *)
(* nothing starts a batch again.                                           *)
(***************************************************************************)
EXTENDS Uploads, Extraction, Structuring, Profiles, Lists, FiniteSets

CONSTANTS
    Requests,      \* POST /batches/from-bucket, all for this batch
    Bucket,        \* the sequence of objects under its prefix
    MaxBytes,      \* MAX_UNPACKED_BYTES
    Readings,      \* what the model may read out of a resume
    Answers,       \* what the model may answer to an anonymization
    Workers,       \* threads of process_batch
    MaxUnreadable, \* bound: objects that cannot be read, of one pull
    MaxRestarts    \* bound: restarts of the server

MIN_USABLE_CHARS == 80

ASSUME IntakeConstants ==
    /\ MaxBytes \in Nat /\ Workers \in Nat \ {0}
    /\ MaxUnreadable \in Nat /\ MaxRestarts \in Nat

\* The sizes of a file and of its texts are numbers, whichever backend reads it.
Measured(file) == file.size \in Nat /\ file.chars \in [tika : Nat, python : Nat, ocr : Nat]

\* Every object has its members, in order, if only none.
ASSUME BucketIsListed ==
    /\ IsSequence(Bucket)
    /\ \A object \in ToSet(Bucket) :
          /\ Measured(object) /\ IsSequence(object.members)
          /\ \A member \in ToSet(object.members) : Measured(member)

VARIABLES
    request,   \* of each request, where it is and its documents
    batch,     \* the batch's status, "none" before its row
    rows,      \* the candidates in the order of list_candidates
    disk,      \* the positions of the candidates whose document was written
    job,       \* process_batch: none, queued, running, unwinding, over
    work,      \* of each candidate, where its thread is
    tikaOk,    \* _tika_ok: unknown, yes, no
    runs,      \* analysis runs created over the batch
    restarts
store  == <<batch, rows, disk>>
vars   == <<request, store, job, work, tikaOk, runs, restarts>>

NoProfile == [candidate_ref |-> 0]
NewRow(file, status, original) ==
    [file |-> file, status |-> status, duplicate_of |-> original, ref |-> 0, error |-> "none",
     resume |-> <<>>, profile |-> NoProfile]
Pending   == {c \in DOMAIN rows : rows[c].status = "pending"}
Originals == {c \in DOMAIN rows : rows[c].status # "duplicate"}

Init ==
    /\ request = [q \in Requests |-> [pc |-> "check", documents |-> <<>>, next |-> 1]]
    /\ batch = "none" /\ rows = <<>> /\ disk = {}
    /\ job = "none" /\ work = <<>> /\ tikaOk = "unknown"
    /\ runs = 0 /\ restarts = 0

-----------------------------------------------------------------------------
(* create_batch_from_bucket.                                               *)

At(q, pc) == request[q].pc = pc
GoTo(q, pc) == request' = [request EXCEPT ![q].pc = pc]

\* 409 when the batch exists.
Check(q) ==
    /\ At(q, "check")
    /\ GoTo(q, IF batch = "none" THEN "pull" ELSE "refused")
    /\ UNCHANGED <<store, job, work, tikaOk, runs, restarts>>

\* 502 when the bucket cannot be listed, 404 when it holds no usable document.
PullBatch(q) ==
    /\ At(q, "pull")
    /\ \/ GoTo(q, "refused")
       \/ \E unreadable \in SUBSET ToSet(Bucket) :
             /\ Cardinality(unreadable) <= MaxUnreadable   \* bound
             /\ LET documents == pull_batch_documents(Bucket, unreadable, MaxBytes).documents
                IN request' = [request EXCEPT ![q].pc = IF documents = <<>> THEN "refused" ELSE "create",
                                              ![q].documents = documents]
    /\ UNCHANGED <<store, job, work, tikaOk, runs, restarts>>

\* A mistaken registration: a batch that exists is reset.
CreateOrReset(q) ==
    /\ At(q, "create")
    /\ batch' = "queued"
    /\ GoTo(q, "add")
    /\ UNCHANGED <<rows, disk, job, work, tikaOk, runs, restarts>>
\* Store.create_batch: the batch's id is a primary key; the loser answers 500.
CreateBatch(q) ==
    /\ At(q, "create")
    /\ IF batch = "none" THEN batch' = "queued" /\ GoTo(q, "add")
       ELSE UNCHANGED batch /\ GoTo(q, "refused")
    /\ UNCHANGED <<rows, disk, job, work, tikaOk, runs, restarts>>

\* Store.add_candidate finds the same bytes among the batch's candidates.
Same(file) == {c \in Originals : rows[c].file.content = file.content}

\* The next document of PipelineRunner.create_batch: its row, then its bytes, of
\* which the write may fail: 500, and nothing is submitted.
AddDocument(q) ==
    /\ At(q, "add") /\ request[q].next <= Len(request[q].documents)
    /\ LET file == request[q].documents[request[q].next]
       IN IF Same(file) # {}
          THEN /\ rows' = Append(rows, NewRow(file, "duplicate", CHOOSE c \in Same(file) : TRUE))
               /\ request' = [request EXCEPT ![q].next = @ + 1]
               /\ UNCHANGED disk
          ELSE /\ rows' = Append(rows, NewRow(file, "pending", 0))
               /\ \/ disk' = disk \cup {Len(rows')} /\ request' = [request EXCEPT ![q].next = @ + 1]
                  \/ UNCHANGED disk /\ GoTo(q, "refused")
    /\ work' = Append(work, "none")
    /\ UNCHANGED <<batch, job, tikaOk, runs, restarts>>

Submit(q) ==
    /\ At(q, "add") /\ request[q].next > Len(request[q].documents)
    /\ GoTo(q, "accepted")
    /\ job' = "queued"
    /\ UNCHANGED <<store, work, tikaOk, runs, restarts>>

-----------------------------------------------------------------------------
(* process_batch.                                                          *)

\* Every pending candidate gets its reference, by its position.
Take ==
    /\ job = "queued"
    /\ job' = "running"
    /\ batch' = "running"
    /\ LET start == Cardinality({c \in DOMAIN rows : rows[c].ref # 0 /\ c \notin Pending})
       IN rows' = [c \in DOMAIN rows |->
                      IF c \in Pending THEN [rows[c] EXCEPT !.ref = start + Cardinality(Pending \cap 1..c)]
                      ELSE rows[c]]
    /\ work' = [c \in DOMAIN rows |-> IF c \in Pending THEN "waiting" ELSE "none"]
    /\ UNCHANGED <<request, disk, tikaOk, runs, restarts>>

Busy  == {c \in DOMAIN work : work[c] \notin {"none", "waiting", "raised", "done"}}
\* A candidate's columns, and its thread's place.
Store(c, row, place) ==
    /\ rows' = [rows EXCEPT ![c] = row]
    /\ work' = [work EXCEPT ![c] = place]
\* _dead_letter and _fail.
DeadLetter(c, error) ==
    Store(c, [rows[c] EXCEPT !.status = "needs_manual_review", !.error = error], "done")
Fail(c, error) == Store(c, [rows[c] EXCEPT !.status = "failed", !.error = error], "done")
\* An exception that _ingest_one does not catch.
Raise(c) == work' = [work EXCEPT ![c] = "raised"] /\ UNCHANGED rows

\* A thread takes the next candidate in line.
Begin(c) ==
    /\ job = "running" /\ work[c] = "waiting"
    /\ \A d \in 1..(c - 1) : work[d] # "waiting"
    /\ Cardinality(Busy) < Workers
    /\ IF c \notin disk THEN Fail(c, "missing")
       ELSE Store(c, [rows[c] EXCEPT !.status = "extracting"], "extract")
    /\ UNCHANGED <<request, batch, disk, job, tikaOk, runs, restarts>>

\* extract_path, up to two times.
Extract(c) ==
    /\ work[c] \in {"extract", "extract again"}
    /\ \E outcome \in Tika(tikaOk), installed \in BOOLEAN :
          /\ tikaOk' = outcome[2]
          /\ LET count == Extracted(rows[c].file, outcome[1], installed)
             IN IF count > 0
                THEN Store(c, [rows[c] EXCEPT !.status = "structuring"],
                           IF count < MIN_USABLE_CHARS THEN "short" ELSE "structure")
                ELSE IF work[c] = "extract"
                THEN work' = [work EXCEPT ![c] = "extract again"] /\ UNCHANGED rows
                ELSE DeadLetter(c, "extraction")
    /\ UNCHANGED <<request, batch, disk, job, runs, restarts>>

\* structure_resume: a short text, or a model that fails.
StructureFails(c) ==
    /\ work[c] \in {"short", "structure"}
    /\ DeadLetter(c, IF work[c] = "short" THEN "short" ELSE "structuring")
    /\ UNCHANGED <<request, batch, disk, job, tikaOk, runs, restarts>>

\* structure_resume: what the model read is normalised and validated.
Structure(c) ==
    /\ work[c] = "structure"
    /\ \E data \in Readings :
          IF Overflows(data.facts) THEN Raise(c)
          ELSE LET facts == Normalised(data.facts)
               IN IF ~Valid(facts) THEN DeadLetter(c, "schema")
                  ELSE Store(c, [rows[c] EXCEPT !.status = "anonymizing",
                                                !.resume = [data EXCEPT !.facts = facts]], "anonymize")
    /\ UNCHANGED <<request, batch, disk, job, tikaOk, runs, restarts>>

AnonymizeFails(c) ==
    /\ work[c] = "anonymize"
    /\ Fail(c, "anonymization")
    /\ UNCHANGED <<request, batch, disk, job, tikaOk, runs, restarts>>

\* anonymize_resume: an entry that is no redaction escapes; identity that is
\* left fails the candidate.
Anonymize(c) ==
    /\ work[c] = "anonymize"
    /\ \E answer \in Answers :
          IF ~answer.redactions_fit THEN Raise(c)
          ELSE LET profile == Profile(rows[c].resume, answer, rows[c].ref)
               IN IF leak_check(rows[c].resume, profile) # {} THEN Fail(c, "leak")
                  ELSE Store(c, [rows[c] EXCEPT !.status = "ready", !.profile = profile], "done")
    /\ UNCHANGED <<request, batch, disk, job, tikaOk, runs, restarts>>

\* list(pool.map(...)) meets the first exception in the candidates' order: those
\* still waiting are cancelled.
Observe ==
    /\ job = "running"
    /\ \E c \in DOMAIN work :
          work[c] = "raised" /\ \A d \in 1..(c - 1) : work[d] \in {"none", "done"}
    /\ job' = "unwinding"
    /\ UNCHANGED <<request, store, work, tikaOk, runs, restarts>>

\* A mistaken handler: the failure is logged only.
FailQuietly ==
    /\ job = "unwinding" /\ Busy = {}
    /\ job' = "over"
    /\ UNCHANGED <<request, store, work, tikaOk, runs, restarts>>
\* The pool ends with its last running thread, and the exception goes on.
FailBatch ==
    /\ job = "unwinding" /\ Busy = {}
    /\ job' = "over"
    /\ batch' = "failed"
    /\ UNCHANGED <<request, rows, disk, work, tikaOk, runs, restarts>>

\* A mistaken completion: it waits for no thread that still runs.
CompleteEarly ==
    /\ job = "running"
    /\ \A c \in DOMAIN work : work[c] \notin {"waiting", "raised"}
    /\ job' = "over"
    /\ batch' = "complete"
    /\ UNCHANGED <<request, rows, disk, work, tikaOk, runs, restarts>>
CompleteBatch ==
    /\ job = "running"
    /\ \A c \in DOMAIN work : work[c] \in {"none", "done"}
    /\ job' = "over"
    /\ batch' = "complete"
    /\ UNCHANGED <<request, rows, disk, work, tikaOk, runs, restarts>>

-----------------------------------------------------------------------------
\* create_run: BatchNotReady otherwise.
CreateRun ==
    /\ runs = 0   \* bound
    /\ batch = "complete"
    /\ runs' = 1
    /\ UNCHANGED <<request, store, job, work, tikaOk, restarts>>

Restart ==
    /\ restarts < MaxRestarts   \* bound
    /\ restarts' = restarts + 1
    /\ request' = [q \in Requests |->
                      IF request[q].pc = "accepted" THEN request[q] ELSE [request[q] EXCEPT !.pc = "lost"]]
    /\ job' = IF job = "over" THEN "over" ELSE "none"
    /\ work' = [c \in DOMAIN work |-> "none"]
    /\ tikaOk' = "unknown"
    /\ UNCHANGED <<store, runs>>

RequestStep(q) == Check(q) \/ PullBatch(q) \/ CreateBatch(q) \/ AddDocument(q) \/ Submit(q)
ThreadStep(c) ==
    Begin(c) \/ Extract(c) \/ StructureFails(c) \/ Structure(c) \/ AnonymizeFails(c) \/ Anonymize(c)
JobStep == Take \/ Observe \/ FailBatch \/ CompleteBatch

Next ==
    \/ \E q \in Requests : RequestStep(q)
    \/ \E c \in DOMAIN work : ThreadStep(c)
    \/ JobStep \/ CreateRun \/ Restart

\* The positions a candidate can have.
Positions == 1..Len(expand_uploads(Bucket, MaxBytes * Len(Bucket)))

\* Requests, the pool and its threads go on while the server is up.
FairSpec ==
    /\ Init /\ [][Next]_vars
    /\ \A q \in Requests : WF_vars(RequestStep(q))
    /\ \A c \in Positions : WF_vars(c \in DOMAIN work /\ ThreadStep(c))
    /\ WF_vars(JobStep)

-----------------------------------------------------------------------------
Settled == {"ready", "needs_manual_review", "failed", "duplicate"}

\* An accepted batch has one row for each document of its pull, in order; the
\* same bytes are processed once, and their document is on disk.
EveryDocumentOnce ==
    \A q \in Requests : At(q, "accepted") =>
        /\ [c \in DOMAIN rows |-> rows[c].file] = request[q].documents
        /\ Originals \subseteq disk
        /\ \A c \in DOMAIN rows : \E d \in Originals :
              /\ rows[d].file.content = rows[c].file.content
              /\ c \notin Originals => rows[c].duplicate_of = d
              /\ c \in Originals => c = d

\* The bytes of those files that are not objects of the folder themselves.
Unpacked(files) ==
    SumFunction([i \in DOMAIN files |-> IF files[i] \in ToSet(Bucket) THEN 0 ELSE files[i].size])

\* What archives unpack to stays within the limit of a batch, all together.
UnpackLimitHolds == Unpacked([c \in DOMAIN rows |-> rows[c].file]) <= MaxBytes

\* Whatever requests race and archives hold: a batch is its documents, and not more
\* of them than the limit allows.
BatchHoldsItsDocuments == EveryDocumentOnce /\ UnpackLimitHolds

\* No candidate is ready with a name, a contact, a suburb or an institution of
\* at least three letters in the profile.
ReadyIsAnonymous ==
    \A c \in DOMAIN rows : rows[c].status = "ready" =>
        LET id == rows[c].resume.identity
            private == id.full_name \cup id.name_parts \cup id.contacts \cup id.suburb
                       \cup rows[c].resume.universities
                       \cup {q.institution : q \in ToSet(rows[c].resume.qualifications)}
        IN /\ WordsOf(rows[c].profile) \cap (private \ (Short \cup {"none"})) = {}
           /\ rows[c].profile.candidate_ref = rows[c].ref
           /\ \A d \in DOMAIN rows : rows[d].ref = rows[c].ref => d = c

\* Identity that the model writes back is cleaned away: a candidate fails for a
\* leak only when what is copied without scrubbing names the candidate, or what
\* scrubbing writes does.
ModelCannotFailACandidate ==
    \A c \in DOMAIN rows : rows[c].error = "leak" =>
        identity_tokens(rows[c].resume) \cap (Unscrubbed(rows[c].resume) \cup {Redacted}) # {}

\* Identity is removed wherever it was quoted, and by no more failures than needed.
AnonymizationIsExact == ReadyIsAnonymous /\ ModelCannotFailACandidate

\* Whatever Tika and the OCR toolchain do, a document that Python can read is
\* not given up for want of text.
ReadableIsNotGivenUp ==
    \A c \in DOMAIN rows : rows[c].error = "extraction" => PythonText(rows[c].file) = 0

\* A run finds every candidate of its batch settled, and nothing changes there
\* afterwards.
RunsSeeSettledBatches ==
    [][/\ runs' > runs => \A c \in DOMAIN rows : rows[c].status \in Settled
       /\ runs > 0 => UNCHANGED rows]_vars

\* A batch that was accepted completes or fails, unless the server restarts.
BatchSettles == job = "queued" ~> (batch \in {"complete", "failed"} \/ restarts > 0)

-----------------------------------------------------------------------------
(* The inductive invariant behind EveryDocumentOnce and                    *)
(* RunsSeeSettledBatches: one request owns the batch, its rows are not     *)
(* touched before the pool has the job, nor after the job is over.         *)

Owners == {q \in Requests : request[q].pc \in {"add", "accepted"}}
Adding == {q \in Requests : At(q, "add")}

Shape ==
    /\ DOMAIN request = Requests
    /\ \A q \in Requests :
          /\ {"pc", "documents", "next"} \subseteq DOMAIN request[q]
          /\ IsSequence(request[q].documents) /\ request[q].next \in Nat
          /\ request[q].pc \in {"check", "pull", "create"} => request[q].next = 1
    /\ IsSequence(rows) /\ IsSequence(work) /\ Len(work) = Len(rows)
    /\ \A c \in DOMAIN rows : {"status", "file", "duplicate_of"} \subseteq DOMAIN rows[c]
    /\ runs \in Nat

OneOwner ==
    /\ \A q, r \in Owners : q = r
    /\ batch = "none" => Owners = {} /\ job = "none" /\ rows = <<>>
    /\ job # "none" => Adding = {}

\* The rows are the documents of the owner, as far as it has come.
RowsAreDocuments ==
    \A q \in Owners :
        /\ Len(rows) = IF At(q, "add") THEN request[q].next - 1 ELSE Len(request[q].documents)
        /\ \A c \in DOMAIN rows : c \in DOMAIN request[q].documents /\ rows[c].file = request[q].documents[c]
        /\ Originals \subseteq disk
        /\ \A c \in DOMAIN rows \ Originals :
              /\ rows[c].duplicate_of \in Originals
              /\ rows[rows[c].duplicate_of].file.content = rows[c].file.content
        /\ \A c, d \in Originals : rows[c].file.content = rows[d].file.content => c = d

\* Before the job runs no thread does, and threads have no duplicates.
UntouchedAtFirst ==
    /\ Adding # {} \/ job \in {"none", "queued"} => \A c \in DOMAIN work : work[c] = "none"
    /\ Adding # {} \/ job = "queued" => \A c \in DOMAIN rows : rows[c].status \in {"pending", "duplicate"}
    /\ \A c \in DOMAIN work : work[c] # "none" => rows[c].status # "duplicate"

SettledInTheEnd ==
    /\ job = "running" =>
          \A c \in DOMAIN rows : work[c] \in {"none", "done"} => rows[c].status \in Settled
    /\ batch = "complete" =>
          /\ job = "over"
          /\ \A c \in DOMAIN rows : work[c] \in {"none", "done"} /\ rows[c].status \in Settled
    /\ runs > 0 => batch = "complete"

IntakeInv == Shape /\ OneOwner /\ RowsAreDocuments /\ UntouchedAtFirst /\ SettledInTheEnd

-----------------------------------------------------------------------------
(* The inductive invariant behind AnonymizationIsExact and                 *)
(* ReadableIsNotGivenUp: what a row says of its candidate, and the         *)
(* numbers that process_batch gives.                                       *)

\* A row names what its status and its error rest on.
RowIsSound(row) ==
    /\ DOMAIN NewRow(0, "pending", 0) \subseteq DOMAIN row /\ Measured(row.file)
    /\ row.status = "pending" => row.error = "none"
    /\ row.status = "ready" => /\ leak_check(row.resume, row.profile) = {}
                               /\ row.profile.candidate_ref = row.ref /\ row.ref # 0
    /\ row.error = "leak" => identity_tokens(row.resume) \cap (Unscrubbed(row.resume) \cup {Redacted}) # {}
    /\ row.error = "extraction" => PythonText(row.file) = 0

\* References are given once, to every candidate that a thread takes.
RowsAreNumbered ==
    /\ Adding # {} \/ job = "queued" => \A c \in DOMAIN rows : rows[c].ref = 0
    /\ \A c \in DOMAIN work : work[c] # "none" => rows[c].ref # 0
    /\ \A c \in DOMAIN work : work[c] \notin {"none", "done"} => rows[c].error = "none"
    /\ \A c, d \in DOMAIN rows : rows[c].ref = rows[d].ref => c = d \/ rows[c].ref = 0

CandidateInv ==
    /\ \A q \in Requests : \A i \in DOMAIN request[q].documents : Measured(request[q].documents[i])
    /\ \A c \in DOMAIN rows : RowIsSound(rows[c])
    /\ RowsAreNumbered

\* The inductive invariant behind UnpackLimitHolds.
LimitInv == UnpackLimitHolds /\ \A q \in Requests : Unpacked(request[q].documents) <= MaxBytes
=============================================================================
