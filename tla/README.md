# Rescan: a verification development

TLA+ modules, model-checking configurations and machine-checked proofs for
Rescan. The repository holds two systems:

* the **batch service** (Java: `api/`, `common/`, `controller/`, `worker/`), which
  takes batches of résumé files, verifies the uploads, parses each document in a
  pool of workers and publishes one JSON result per document;
* the **screening pipeline** (Python: `rescan/`), which ingests candidates,
  anonymises them, compiles a recruiter's rules and ranks the candidates.

The batch service is where processes crash, leases lapse and messages are
delivered twice; it is modelled as concurrent processes over shared tables. The
screening pipeline is one server with two pools of threads, and most of its logic is
computation over data: rules, profiles, votes. Its concurrent parts (the intake of a
batch, the edits of a run, the inference client) are modelled as such, its
computations as operators that are checked against what they are for.

## 1. Inventory

### Batch service

| Part | State | Operations | What makes it correct |
|---|---|---|---|
| Job API (`BatchService`, `ResultsController`) | `jobs`, `documents` rows, upload URLs | create, issue URLs, submit, delete, read result | deletion is final and repeatable; a result link leads to an object |
| Upload verification (`Verification`, `Verifier`) | `verification_token/until/generation`, `verified_generation` | claim a job, HEAD a chunk of originals, save, release | the verdict is complete, current and given once; no partial batch |
| Work store (`WorkStore`) | `jobs`, `documents`, `outbox`, `processing_attempts`, `orphan_results` | claim, heartbeat, complete, fail, recover, dispatch | one owner per document, stale owners are fenced, retries are bounded, job status = summary of documents |
| Queue (`Queue`) | Redis stream and consumer group | publish, receive (auto-claim), acknowledge | none of its own: the database is authoritative |
| Worker (`WorkerMain`) | process-local | receive, claim, parse in a child, complete or fail, acknowledge | never publishes without owning the document |
| Controller (`Controller`) | `controller_state` lease | start verifiers, recover, dispatch, scale, cleanup | everything stuck comes loose; cleanup removes only what nobody needs |
| Bucket (`BlobStore`) | originals, result objects | presigned PUT, HEAD, put, delete by prefix | no published object is deleted, no other is left behind |
| Database client (`TursoDb`) | transaction session | BEGIN/COMMIT over HTTP | a transaction is atomic; a COMMIT's answer may be lost |

The parts meet only in the database, the stream and the bucket. The hard
behaviours are concurrency between workers, verifiers, controller and owner;
calls made between two transactions (S3 and Redis are never called inside one);
leases that lapse under a process that is still alive; duplicate, early and lost
deliveries; processes that die, and transactions that commit without the caller
learning of it. `PROJECT.json` lists each hazard at its line.

### Screening pipeline

| Part | State | What makes it correct |
|---|---|---|
| Intake (`api/main.py`, `pipeline/runner.py`, `store.py`, `ingest/`) | `batches`, `candidates`, files on disk, the pool's queue | a folder becomes one batch, every document one row; each candidate ends in a status; a batch ends complete or failed; a run sees settled candidates |
| Extraction and structuring (`extract/`, `pipeline/structure.py`) | the remembered health of Tika | a readable document is not given up; what passes fits the schema |
| Anonymisation (`pipeline/anonymize.py`) | none | no identity in a ready profile, wherever it was quoted |
| Rule language (`dsl/`) | none | an accepted text is well kinded and lawful; its canonical text means the same; three-valued evaluation decides only what every completion of the unknown facts agrees on |
| Rule review (`rules/`, `pipeline/query.py`) | none | a high-risk rule is never applied; an answer stays with its text |
| Judge, ensemble, ranking (`dsl/judge.py`, `pipeline/ensemble.py`, `pipeline/rank.py`) | the judge's memo | exclusion needs evidence; equal profiles get equal answers; failures of members move nobody |
| Runs (`pipeline/runner.py`, `store.py`, `api/main.py`) | `runs`, `run_results`, a pool of two threads | a run's results come from one rule set; no rule edit is lost; status agrees with the work under way |
| LLM client (`llm/client.py`) | two negotiated fields, permits | threads agree on a style that the server takes; every call ends |

A batch goes from the bucket through intake to `READY` candidates; a run over it
compiles the recruiter's rules (review), screens each candidate (rule language and
judge), scores those that pass (ranking, ensemble) and cuts the shortlist; edits
screen it again. All model calls go through the client. The parts share the store,
whose lock covers one statement, and nothing else.

Prompts, the stub, audit statistics, the MCP server, the frontend, scripts and
infrastructure carry no protocol and are left out; `PROJECT.json` gives the reason for
each.

## 2. Modules

```
Schema ── BlobStore ── WorkStore ─┐
   └───── Queue ──────────────────┴─ WorkerMain ── Controller ── BatchIngestion ── MCBatchIngestion
   │                                                                  │  └ INSTANCE BatchPromise
   │                                                                  └─ BatchIngestion_proofs
   └───── Verification ── Submission ── MCSubmission
                              └─ Submission_proofs

RunRules ── MCRunRules
   └─ RunRules_proofs

Uploads, Extraction, Structuring, Profiles, Lists ── Intake ── MCIntake
                                                      └─ Intake_proofs
DslFields ─┬─ DslEval ── RuleScreening ── MCRuleScreening
           └─ DslParser ─┬─ ReviewedTexts ── MCRuleReview
                         │
Lists ── RuleReview ─────┘
            └─ RuleReview_proofs
Judge, Lists ── Ranking ── MCRanking
            └─ Ranking_proofs
LlmClient ── MCLlmClient
   └─ LlmClient_proofs
Lists ── Lists_proofs, which the proofs of Intake, Ranking and RuleReview extend
```

* **Schema**: jobs, documents, status values and the naming of attempts. A claim's
  token is a fresh UUID and each claim increments `attempts`, so the attempt number
  stands for the token; a result key is a document and an attempt.
* **WorkStore**: one operator per transaction of `WorkStore.java`, of
  `ResultsController.delete` and of `Controller.cleanup`. The variables are the
  columns: `job`, `doc`, `outbox`, `ledger` (`processing_attempts`), `orphan`.
* **Queue**: the stream. Any entry in it may be received, even one in another
  worker's hands, because an entry idle for two minutes is handed on while parsing
  may take fifteen. Trimming and loss remove arbitrary entries.
* **BlobStore**: the result objects.
* **WorkerMain**: `main` and `process`. `pc` is `idle`, `claiming`, `parsing`,
  `uploading`, `publishing`: a step ends before the next call whose place among the
  other actors' steps matters.
* **Controller**: `recover`, `requeue`, `dispatch`, `dispatched`, `cleanup`, `erased`,
  `orphans`, `purge`, `untrack`: the steps of one run. An exception, the 40 s
  deadline or the Lambda's end is `RunAborts` between any two of them, and three
  operations may stop half way (`RecoverIncomplete`, `PublishIncomplete`,
  `EraseIncomplete`). Recovery's transactions for different jobs touch disjoint rows
  and are one step when all succeed. The code checks the time before a cleanup
  iteration and returns; that is also `RunAborts`, or a run that ends at its next step.
* **BatchIngestion**: the composition, with the owner's deletions, Redis' losses, the
  clock and fairness; the properties; the inductive invariant `IInv`.
* **BatchPromise**: what the owner of a job may rely on, with no workers, leases or
  retries. `BatchIngestion` implements it under a refinement mapping: a job that is
  queued or processing is `OPEN`, a document without a final status is `PENDING`, and a
  document is readable when it is published and its object is in the bucket.
* **Verification**: `Verification.chunk` in steps (claim, select, one HEAD at a time,
  save, release) with failing and dying verifiers.
* **Submission**: the owner's side (URLs, uploads, submission, deletion) and the
  controller's abandonment and sweep. Its `QUEUED` state is where `BatchIngestion`
  begins: `StoreInit` is what `SaveFindings` writes.
* **RunRules**: one analysis run of the screening pipeline. A request is `checked`
  (the 409 test), has `read` the rule set, has `edited` it, has `queued` the run and is
  `done`; a thread of the pool is `reading` the rules it will use, `starting`,
  `compiling`, `clearing`, `screening`, `scoring`, `completing`. A step is one statement on
  the store, because the store's lock covers no more. A rule is its number and the
  request that added it; a result remembers the rule set it was screened under and the
  one it was scored under. Which candidates a screening finds eligible is left open. The
  rule set at the start is any set of numbers (`PlanIds`): a compiled plan numbers from 1, a
  set copied from a tuned run may have gaps. A request is `hasty` when it was sent before the
  run had settled or while another was under way; the properties of patient clients are about
  behaviours without hasty requests.
* **Uploads**: which objects of a folder are pulled, and what archives unpack to
  (`pull_batch_documents`, `expand_uploads`), as folds over the sequence of objects.
* **Extraction**: the order of the backends, the remembered health of Tika, the OCR
  threshold. A document is what each backend can read of it, in characters.
* **Structuring**: `normalise_model_output` and the validation of the parts of the schema
  it is there for.
* **Profiles**: `anonymize_resume` and its leak check. A text is the set of words, names and
  phrases that a search on word boundaries finds in it. Lists of texts whose order nothing
  depends on (tiers, regions, safe entries) are sets.
* **Intake**: the composition of these four: requests for one folder, `process_batch`, a
  thread for each candidate with its dead letters, failures and exceptions, a run created over
  the batch, and restarts of the server, which only the store and the disk survive.
* **DslFields**: the vocabulary: fields and their kinds, records, aliases, forbidden names,
  and how each field reads a profile. A fact is a set, empty when it is not stated.
* **DslEval**: `evaluate` and its leaves, aggregates and connectives, and the outcome of a
  rule set. A verdict carries the questions that were put to the judge.
* **RuleScreening**: one candidate, one rule set and one judge, to compare the outcome with
  that of every completion of the profile; and which answers rest on stated evidence (`Backed`),
  by how each field, aggregate and connective reads a profile.
* **DslParser**: a recursive descent over tokens, function by function with its errors, and
  `to_dsl`, which writes the canonical text.
* **RuleReview**: `compile_plan` and `_build_rule` with the pattern table, the model's
  findings and one repair; `check_query`. The model's answers are a constant, and so is the
  language: what reads a clause or an expression, what writes one and what it quotes.
* **ReviewedTexts**: `RuleReview` with the texts, parser and writer of `DslParser` for its
  language, and the properties that are about the language.
* **Lists**: what a list is, and the order of positions that sorting brings about.
* **Judge** and **Ranking**: a vote and the majority; then one run from the screening of its
  candidates through triage, the ensemble and the merge to the shortlist. The judge that
  ranking uses has one member and a memo, the one that screens has as many as the ensemble.
* **LlmClient**: threads, each call in the steps between which another thread may read or
  write the shared fields: read the mode, read the extras, take a permit, send, remember
  one field, remember the other.

The RECURSIVE operators (an expression is a tree) are in `DslEval`, `DslParser` and
`ReviewedTexts`, about which nothing is proved; the review of a rule needs none of them and is
proved about for any language. Python's `sorted` and `statistics.median` are an ordering of
positions that is chosen by what comes before what (`Ordering` in `Lists`), its loops over lists
are folds, and its sums are `SumFunction`: each is evaluated and proved about alike.

### Time

No timestamp is compared with anything but the current time, so the models keep
the answer to that comparison (`live`/`expired`, `due`, `recent`/`stale`,
`young`/`old`, `graceOver`) and let time change it at any moment. Three relations
between durations are assumed, each a guard on an action of the clock:

* one result upload and the calls around it are over within 1200 s (S3 calls are
  limited to 20 s, database calls to a few seconds): `KeyTime`, `JobTime`;
* an upload URL (900 s) expires within the grace period (1200 s), and none is issued
  after a deletion: `Submission!GraceEnds`. A PUT that begins just before its URL
  expires and lasts over five minutes is outside the model;
* a document and its outbox row become available at the same second or the next one:
  `RowComesDue`.

A lease, on the other hand, may lapse under a worker at any time.

## 3. Runs

| Run | Instance | Question | Distinct states |
|---|---|---|---|
| `BatchRaces` | 1 document, 2 workers, 2 attempts, faults | fencing, orphan tracking, ledger, retries, withdrawal, the promise, when two workers meet over one document | 0.8 M |
| `BatchJob` | 1 job of 2 documents, 1 worker, 2 attempts, no faults | does the job's status always sum up its documents, with partial success and joint failures? | 2.1 M |
| `BatchLiveness` | 1 document, 1 worker, 2 attempts, faults that end | does everything that starts come to an end? | 0.2 M |
| `SubmissionRaces` | 1 job of 2 documents, 2 verifiers, chunks of 1, 2 submissions, faults | verdicts complete and current, deletions final | 1.2 M |
| `SubmissionLiveness` | the same with 1 verifier, faults that end | verdicts, deletions and abandonment arrive | 0.2 M |
| `Intake` | 2 requests, 4 objects (2 archives), 2 threads, 5 readings, 3 answers, 1 restart | one batch, whole and anonymous, settled before a run sees it | 95 k |
| `RuleTexts` | 1 text with any clause one token away from 18 right ones; 2 texts with 0–3 items | does a review let through what it must not, or show what it does not apply? | 28 k |
| `RuleScreening` | 295 rule sets, 222 profiles with facts left out, 2 judges | which decisions can what a person left out not turn, and which can it? | 0.3 M |
| `RunRanking` | 3 candidates, 3 members, 2 marks, a shortlist of 1 | are all treated alike and placed, whoever fails? | 0.2 M |
| `LlmStyles` | 2 threads, 2 calls each, 1 fault, 1 permit a server | does the negotiation without a lock hurt anyone? | 0.1 M |
| `RunEdits` | 2 edits, 2 threads, 1 candidate, screenings that fail | what holds of a run however edits and screenings overlap, and what more when clients wait? | 1.1 M |
| `RunLostEdit` | 2 edits at once | is an accepted edit kept? **No** | |

Every run but the last passes; that one is the finding of section 6.
Each property of a passing run is also run against one deliberately mistaken version
of a definition (operators introduced by "A mistaken ..."), and is found violated
there; the pairs are in `PROJECT.json` under `mutants`.

Bounds, and why they are enough:

* `Docs`, `Workers`, `Verifiers`: fencing is between two claims of one document and so
  between two workers; sums and partial batches need two documents. The proofs lift the
  first to any number.
* `MaxAttempts` 2 (3 in the code) gives a first and a last attempt. The proofs hold for
  every positive value.
* `EntryIds` bounds the copies of a document's message that exist at once (in the stream
  or in a worker's hands): a dispatch that would need another waits. Two or more copies
  occur in every run.
* `MaxLen` is 1, so that a second entry is trimmed at once.
* `RecoverLimit` (10 in the code) is 1, but there is one job: that jobs with lapsed leases
  do not starve behind others is not checked.
* `ChunkSize` is 1, so a verdict takes two chunks; `MaxSubmits` is 2, enough for a
  verifier of the first submission to act in the second.
* One dispatch takes all due rows, and one cleanup all jobs past their grace period
  and all old orphan rows: the code's batch sizes (100, 5, 20) only postpone the rest to
  the next run.
* `SYMMETRY` is used in safety runs only.
* `Threads` is two, as in the code. Two edits meet each other and the run's first
  execution. The plan of `RunEdits` has the number 2 only, as after a removal, so that a number
  found by counting is taken already.
* The folder of `Intake` has a document twice, one that only Tika and one that only OCR can
  read, a hidden member, a file of another type, and an archive that goes over the limit
  unless the first one is unreadable, but would not if each archive had a limit of its own. The readings and answers have each way in which identity
  can be quoted, a number that overflows, a category that is missing and an entry that is no
  redaction.
* `RuleTexts` replaces or removes one token of a text by any of 32: each error of the parser
  is one token away from a right text. `RuleScreening` has each comparison, aggregate and
  connective, with questions, over two values a fact, and every field that is read from stated
  facts only. Its profiles are one that leaves nothing open and families that differ from it in
  one part: roles, awards, skills, projects, stated facts. Completions fill what is missing with the
  listed values; a list with items is all there is, an empty one may have had one; durations,
  levels and counts are not negative.
* Two marks in `RunRanking` make scores tie, differ by less than the margin, and differ by more.
* `RunEdits` does not check deadlock: once the edits are done, the run is at rest. Nor do the
  other runs of the pipeline, which end.
* `SubmissionRaces` and `SubmissionLiveness` do not check deadlock: once the job's row
  and its URLs are gone, nothing is left to happen.

### Fairness

Faults (failed calls, deaths, lost answers, lost entries) occur while `faulty`
holds, and `Stabilise` ends them at a moment left open: no property could hold if
the bucket were down for ever. From then on:

* workers and the controller take their steps: ECS restarts a worker's loop, the
  schedule starts a controller every minute, and every call in them has a timeout;
* time passes, and a lease lapses once no worker holds its claim (heartbeats every 20 s
  keep a lease of 120 s otherwise);
* a verifier is started every minute for a job that has none. Its claim does not
  lapse while it is at work: a chunk takes seconds and the lease is 90 s.

A request or a screening that has begun goes on (`FairSpec` of `RunRules`): every model
call has a timeout and the store's lock is held for one statement. That a client sends
an edit is not assumed. The same is assumed of requests and threads in `Intake`, while the
server is up, and of a thread inside `LlmClient`: it may wait for a permit, and gets one because
the others make a limited number of calls (`MaxCalls`).

All fairness is weak. Nothing is assumed of the owner: `UploadsExpire` holds
because `MaxSubmits` bounds how often a job is sent back and resubmitted; an owner who
resubmitted a bad batch for ever could keep it.

## 4. Properties

`BatchIngestion`: `PublishedResultsExist`, `PublishedByLastClaim`,
`NoUntrackedObject`, `OneOwner` (fencing and garbage collection);
`JobStatusAgrees`, `TablesAgree` (`LedgerAgrees`, `WaitingCanBeClaimed`,
`DelayedRetriesAreQueued`, so that a dispatch takes no retry with it that was written since it read
the outbox, and `DeletedJobsQueueNothing`: bookkeeping across tables); `KeepsPromise` (refinement of `BatchPromise`);
`JobsComeToRest` (liveness: jobs get their outcome, deletions complete, orphans are reclaimed).

`Submission`: `AcceptedWhole` (`AcceptedIsComplete`, `NoPartialBatch`), `NoStaleRejection`,
`NothingLeftBehind`, `DeletionIsFinal`; `VerificationEnds`, `DeletionCompletes`,
`UploadsExpire` (liveness).

`RunRules`: `QuietRunsAreSettled`, `IdsAreUnique`, `RunSettles` hold of every
interleaving; `PatientEditsTakeEffect` says that no edit is lost (`AcceptedEditsHold`), no
stale completion is shown (`NoStaleComplete`) and the results follow the rules
(`ResultsAreCurrent`) when clients wait, and only then.

`Intake`: `BatchHoldsItsDocuments` (`EveryDocumentOnce` under racing requests, duplicates and
failed writes; `UnpackLimitHolds`: what archives bring, counted for each time it is listed), `AnonymizationIsExact` (`ReadyIsAnonymous`,
`ModelCannotFailACandidate`), `ReadableIsNotGivenUp`, `RunsSeeSettledBatches`, `BatchSettles`
(liveness).

`RuleReview`: `ProxiesNeverApplied`, `TextsKeepTheirAnswers`. `ReviewedTexts`: `AppliedIsLawful`,
`ReviewersSeeTheRule`. `RuleScreening`: `DecisionsStand` (a
decision that rests on answers in `Backed` is that of every completion of the profile; section 6 has
the others), `OrderIsHarmless` (`VerdictsAreKleene`, against Kleene's
tables, which know no order of evaluation; `QuestionsAreNeeded`).

`Ranking`: `ExclusionsHaveEvidence`, `EqualProfilesAreJudgedAlike`, `MajorityPlaces`,
`EveryoneIsPlaced` (once, in order, and with the score of the triage unless a member judged). `LlmClient`: `NegotiationIsSafe` (`RememberedIsAccepted`,
`NegotiationFailsNoOne`), `CallsEnd` (liveness).

Each is stated in words above its definition.

## 5. Proofs

Proved with TLAPS, for every value of the constants that the named assumptions allow: any
jobs, documents, workers, verifiers, entry ids and positive `MaxAttempts`; any requests,
threads, candidates and plan numbers; any folder, limits, readings, answers and restarts; any
criteria, members, shortlist and margin; any tasks, servers and permits; any requests, answers
and repairs, in any language of rules. Every safety property that a run checks is the property
of one of these theorems, but for four about the trees of the rule language (see the end of this
section).

| Module | Theorem | Statement |
|---|---|---|
| `BatchIngestion_proofs` | `TypeCorrect` | `Spec => []TypeOK` |
| | `Inductive` | `Spec => []IInv` |
| | `ResultsExist` | `Spec => []PublishedResultsExist` |
| | `LastClaimPublishes` | `Spec => []PublishedByLastClaim` |
| | `NothingLeaks` | `Spec => []NoUntrackedObject` |
| | `OwnersAreAlone` | `Spec => []OneOwner` |
| | `PromiseInvariant` | `Spec => []PromiseInv` |
| | `TablesStayInStep` | `Spec => []TablesAgree` |
| | `StatusSumsUp` | `Spec => []JobStatusAgrees` |
| | `ServiceKeepsPromise` | `Spec => KeepsPromise` (refinement) |
| `Submission_proofs` | `SubmissionIsConsistent` | `Spec => []SubmissionInv` |
| | `TypeCorrect` | `Spec => []TypeOK` |
| | `JobsAreAcceptedWhole` | `Spec => []AcceptedWhole` |
| | `RejectionsAreCurrent` | `Spec => []NoStaleRejection` |
| | `DeletionLeavesNothing` | `Spec => []NothingLeftBehind` |
| | `DeletionsAreFinal` | `Spec => DeletionIsFinal` |
| `RunRules_proofs` | `RunTypeCorrect` | `Spec => []TypeOK` |
| | `RuleIdsAreUnique` | `Spec => []IdsAreUnique` |
| | `QuietRunsSettle` | `Spec => []QuietRunsAreSettled` |
| | `PatientInductive` | `Spec => []PatientInv` |
| | `PatientEdits` | `Spec => []PatientEditsTakeEffect` |
| `Intake_proofs` | `OwnedAndSettled` | `Init /\ [][Next]_vars => []IntakeInv` |
| | `EveryDocument` | `FairSpec => []EveryDocumentOnce` |
| | `BatchesHoldTheirDocuments` | `FairSpec => []BatchHoldsItsDocuments` |
| | `RunsSettled` | `FairSpec => RunsSeeSettledBatches` |
| | `RowsAreSound` | `Init /\ [][Next]_vars => []CandidateInv` |
| | `CandidatesAreAnonymous` | `FairSpec => []AnonymizationIsExact` |
| | `ReadableAreKept` | `FairSpec => []ReadableIsNotGivenUp` |
| `RuleReview_proofs` | `ReviewIsConsistent` | `Spec => []ReviewInv` |
| | `NoProxyIsApplied` | `Spec => []ProxiesNeverApplied` |
| | `AnswersFindTheirTexts` | `Spec => []TextsKeepTheirAnswers` |
| `Ranking_proofs` | `RankingIsConsistent` | `Spec => []RankingInv` |
| | `NobodyIsExcludedOnAnAssertion` | `Spec => []ExclusionsHaveEvidence` |
| | `EqualProfilesGetOneAnswer` | `Spec => []EqualProfilesAreJudgedAlike` |
| | `MostMembersPlace` | `Spec => []MajorityPlaces` |
| | `NobodyIsLost` | `Spec => []EveryoneIsPlaced` |
| `LlmClient_proofs` | `ClientIsConsistent` | `UniformServers, SameRequest, Attempts >= 2` prove `Spec => []ClientInv` |
| | `ProbingTogetherIsSafe` | the same prove `Spec => []NegotiationIsSafe` |

### The assumptions

Each `ASSUME` is named, says of what kind the constants are, and is evaluated by TLC in the
runs. Those that say more than that a constant is a number or a set of some kind:

* `BucketIsListed` (`Intake`): a folder and an archive are lists, of files with a size and a
  number of characters for each backend;
* `RequestsAreLists` (`RuleReview`): a request's texts and plan are lists, and so is each answer;
* `RankingAssumption` (`Ranking`): marks are numbers, weights positive, and there is at least one
  criterion, as `criteria_for` sees to.

`ProbingTogetherIsSafe` has hypotheses, and the property is false without them. That a server
takes a style for every task or for none (`UniformServers`) is what `client.py` supposes when it
remembers one style for each server; that without extra fields the bare attempt is the same
request (`SameRequest`) is its comment on `json_call`; and `Attempts >= 2` is `max_retries` of at
least 1, its default in `config.py`. `LlmStyles` is an instance of all three.

### The batch service

`BatchIngestion_proofs` has one lemma per transaction, which keeps the tables well typed, and
combines them into `TypeCorrect`. Its second part proves `IInv` inductive, one lemma per
group of actions.

None of the four safety properties there is inductive. Whether publishing is safe
depends on what the worker's key has been through since the claim, so `IInv` adds:

* `ClaimsAreDistinct`: working workers hold different attempts, none of them the
  published one, none of them beyond the document's count;
* `UploadsAreTracked`: from before the upload to the publication the key has a young
  orphan row, and once uploaded the object is there unless the job is going;
* `CleanupIsConfined`: cleanup sweeps only jobs in deletion, purges only old and
  unpublished keys, and forgets a key only when its object is published or gone;
* `RowsFollowJobs` and `FutureIsBlank`: rows vanish with their job only, and an attempt
  that has not been made has no orphan row.

The two meet in the orphan row: a key being published is young, a key being purged is
old, so they differ. Most actions leave the part of the state `IInv` reads alone; the
lemma `QuietStep` disposes of them together.

The third part goes by transactions instead of actions. `StepsAreTransactions` shows that
a step, whoever takes it, is one transaction on the tables under the conditions its caller has
checked, or changes the bucket alone, and how. What the tables owe each other and the job's
status then needs one lemma per transaction, and so does the refinement: a transaction that
gives documents a final status is one `Decide` of the promise for all of them at once
(`Settles`), deletion, the sweep of the bucket and the removal of a row are its `Delete`,
`Withdraw` and `Erase`, and all else stutters. That a job's results are gone before its row is
rests on what cleanup has swept (`ErasedResultsAreGone`), which `PromiseInv` adds.

### Submissions

Verdicts are given from rows that were saved earlier, by a verifier that may have claimed the
job for an earlier submission. `SubmissionInv` follows a finding on its way: what a verifier has
found (`FindingsAreTrue`) and what is in a row (`RowsAreTrue`) holds of the bucket, and of the
submission whose generation it carries, until the job leaves; a verifier keeps to its job and
never has a later generation than the job (`VerifiersKeepToTheirJob`); a job goes back to its
owner with every document looked at (`RejectionsAreWhole`); and sweeps begin when no URL is left
(`SweepsAreLate`).

### Runs

The theorems follow from `RunInv` of `RunRules`. Unique ids are inductive
only if the sets that requests have read, and may write back long after, are numbered
as well as the stored one; the step of `add_rule` then rests on `NewIdIsFree`: among the
`n + 1` numbers above `n` one is free, so the loop ends and finds it. A quiet run is settled
because an unsettled status always has somebody who will settle it: a request between its
two last statements, a task in the queue, or a thread at work.

`PatientInv` is about behaviours without hasty requests. Its heart is `OneThingAtATime`: of
requests in flight, tasks and threads at work there is one at most. Then whoever works has the
current rules (`EditsAreMade`, `ScreeningIsCurrent`), the rows say how far it has come, and a
complete run stays current until the next edit (`CompleteIsCurrent`).

### Intake

`IntakeInv`: that rows are the documents of the accepted request needs that one request owns the
batch, since `create_batch`'s insert succeeds once (`OneOwner`), and that the rows are its
documents as far as it has come (`RowsAreDocuments`); that a run's rows never change needs that
a batch is complete only when the job is over and no thread is at work (`SettledInTheEnd`), and
that no thread starts before the job (`UntouchedAtFirst`). The six steps of a thread are disposed
of at once: each changes its own candidate's row, to a status that is no duplicate's, and ends
settled (`ThreadsAdvance`).

`CandidateInv` keeps beside each row what its status and its error rest on (`RowIsSound`): a
ready profile passed the search for leaks, a leak was found in something that is copied, a
document without text has none for Python. Anonymity follows because what is private of a
resume and what the search looks for are the same tokens, in every field of the profile; that
candidates have numbers of their own because the job numbers them before any thread starts.

What a folder and its archives bring is a fold within a fold. The library's induction theorems
are of no use here, since they take the predicate as a parameter; `Lists_proofs` does without:
what is left to prove at position `n` is a subset of `1..n`, and if that is not empty it has a
least member, for which the position before it holds (`SmallestSet`, `FoldStays`). `Folded` and
`FoldExists` say that `FoldLeft` is the last of such a sequence of values, and the sum lemmas what
`SumFunction` comes to when one position is added (`SumWith`) or a part taken
(`PartsSumToLess`). The rest is `LimitInv`: at each position the files unpacked so far sum up to
no more than the limit, whichever archives they came from (`AddedFits`), and the sum that
`UnpackLimitHolds` speaks of is over a part of those.

### Rule review

`ReviewInv` is the two properties with the little that they need: what is to be built and what
is built are lists, and nothing is built before the model answers. That no proxy is applied is
a fact about `BuildRule` and `Admits`: a finding of high risk in the source or in a literal makes
the merged risk high (`Merged` drops a finding only when the same pattern is there already), and
then there is no clause. That answers find their texts is a fact about `WorkOf`: the
first texts of the work are the request's, each with items of its number only, and building takes
from the front. Neither needs to know anything of the language.

### Ranking

`RankingInv` says that candidates are triaged once, and after the screening (`TriagedOnce`); that
a text that was asked about has its answer in the memo, and every score and opinion the same one
(`AnswersAreRemembered`); and that opinions are on those in doubt (`OpinionsAreOnDoubts`). The
work is in lemmas about the operators: an ordering by a strict total order exists and permutes
(`OrderingExists`, by counting what is before a position; `Ordered`), so sorting by score loses
and repeats nobody (`SortedByScore`); of `n` votes in order the `k`-th is below the cutoff only
if `k` are (`SideOfMost`), so the middle one is where most are (`MedianOfMost`); and of the
replies that arrived an exclusion has more than half (`ExcludedWithEvidence`).

### The client

`ClientInv`: each field holds its half of the style that a probe would come to first
(`FieldsAgree`), so two threads that write one half each write halves of one style; the styles a
thread has yet to try lead to it (`ProbesConverge`); and a call that failed once only because it
met another's half finds both settled the second time (`SecondAttemptsHit`), which is where the
retry is needed.

### Only model-checked

* Liveness (`JobsComeToRest`, `VerificationEnds`, `DeletionCompletes`, `UploadsExpire`,
  `BatchSettles`, `CallsEnd`, `RunSettles`): fairness and `ENABLED` are beyond
  the prover.
* `AppliedIsLawful` and `ReviewersSeeTheRule` (`ReviewedTexts`), `DecisionsStand` and
  `OrderIsHarmless` (`RuleScreening`): the parser, the writer and the evaluator walk trees by
  RECURSIVE operators, and what such an operator computes is induction over data.

## 6. Findings and divergences

**Lost edits** (`RunLostEdit`, `AcceptedEditsHold`). The API refuses an edit only while the run
is running, not while it is queued. `add_rule` and `remove_rule` write back the whole rule set
they read before a model call, and the first execution writes the compiled plan over whatever
is there. Two edits at once, or an edit of a run whose execution still waits for a thread,
are answered 202 and one of them is gone.

For the same reason `NoStaleComplete` and `ResultsAreCurrent` hold for patient clients only: an
earlier screening completes the run over a newer edit's `QUEUED`, and two threads may leave
results of two rule sets under a complete status.

**Silence that decides** (`RuleScreening`, `Backed`, `BackedIsTight`). `README.md:34`, `dsl/eval.py:6`
("a candidate fails a rule only when the stated evidence definitely fails it"), `rules/engine.py:8`
and `dsl/fields.py:18` ("Absence is unknown, never zero") promise that what a resume does not state
never decides a rule. For a fact that a field reads as it stands this is so, and for the quantifiers
and aggregates but one. It is not so of

* fields computed from stated facts only (`dsl/fields.py:164` and the lines after it): a role without
  a level is no leadership role, a role without months adds none. What is missing could only raise such
  a reading (`Rising`: sums and maxima of months, years and levels, `leadership_`, `contract_` and
  `permanent_role_count`, `degree_count`, `industry_count`, `technology_count`, the lists of what roles,
  awards, skills and projects state, the `has_...` fields, `has_management_experience` among them),
  only lower it (`Falling`: `shortest_role_months`), or change it either way (`Shifting`:
  `average_role_months`, `current_role_months`, `current_role_title`, `highest_qualification`,
  `highest_seniority`). So `leadership_role_count >= 1` excludes who states no level of any role;
  `test_dsl_eval.py:140` expects just this of a resume whose third role has no level;
* `COUNT(...)` with `=` or `!=` (`dsl/eval.py:311`), which compares the lowest and the highest
  count only and not those between;
* `work_rights IN (..., "unrestricted")`, false for a status outside the list although whether the
  right is unrestricted is not stated.

`DecisionsStand` therefore claims a decision only if it rests on answers in `Backed`, and the run has
every kind of test, those above included. That `Backed` leaves out no more than it must is
evaluated by the same run: by `BackedIsTight`, each answer that it leaves out is given to some resume
and is another one for a completion of that resume. A rule of `>=` on a field of `Rising` may
thus approve on stated evidence, but not exclude.

Other places where the code and its comments disagree, or where a property needed a
restriction, met while modelling and not demonstrated by a run:

* `_coerce` maps a missing category to `None`, which `Skill` does not take: the whole resume
  becomes a dead letter, against the comment of `structure.py:32`. In `Intake` it is one of
  the readings, with the error `schema`.
* An infinite `team_size` (an `OverflowError`) or a redaction of the wrong shape is not caught
  for its candidate but fails the whole batch (`Raise`).
* A candidate called "null", or like a field of the profile, always fails the leak check, and so
  does one whose university is named in a copied field: hence `Unscrubbed`.
* Archives that cannot be opened, and members beyond the limit, are not among the `skipped`
  objects that `bucket.py:43` says are reported.
* `_tika_ok` stays false for good when Tika is down at its first use.
* A failed write of a document, or a restart, leaves its batch queued or running for ever, and a
  retry of the request gets 409.
* The canonical text of `(ANY role WHERE a) AND b`, and of a connective inside one of its own
  kind, reads back as another tree (`Enclosable` excludes them from `ReviewersSeeTheRule`). An empty
  reason, which `parser.py:272` accepts, is not written (`ast.py:169`) and reads back as none
  (`Reasoned`); the test that screens is the same.
* A question nested in a connective can be asked although its neighbour decides (`FlatAsk`), and
  rules after one that excludes still ask theirs, against `eval.py:16`.
* The reason after `BECAUSE` and, in plan mode, the recruiter's own plan are not scanned for risky
  phrases; what is applied is.
* With an even number of members the median may fall on the other side of the cutoff than the
  majority (`MajorityPlaces` speaks of odd numbers).
* The client's two fields are written one after the other, so threads whose schemas a server
  treats differently can leave the mode of one beside the extras of another. `LlmStyles`
  has servers that judge a style by itself.
* While a style is probed, a fault that a server reports in the words of a rejection
  (`_is_rejection`, `client.py:254`) goes on to the next style and not to an error. A fault of
  `LlmClient` is an error of any other kind.

## 7. Not modelled

Of the batch service: the dead-letter stream (written, never read); the controller's own
lease, warm switch and worker count; idempotency of `create`; the choice of the two jobs
whose verifiers are started; the session protocol of `TursoDb`; parsing itself. A run of
the controller is taken to be alone, which its reserved concurrency of one and its lease
provide. Heartbeats that succeed change nothing the models keep.

Of the screening pipeline: the upload of a batch by form, which differs from the bucket's
request in where the bytes come from; an archive whose member cannot be read; the
characters of the rule language below its tokens; the wording of reasons; the audit
trail; of a run, a restart of the server (the queue of the pool is lost with it and no code
repairs it). The bias report is offline statistics in floating point, the stub a keyword
heuristic in place of a model, and the MCP server and `aqf.py` adapters and tables.

## 8. Plan

1. Proofs: the leaves and aggregates of `DslEval` apart from its recursion, so that what one
   comparison promises of an unknown fact is proved for every value.
2. `ControllerLease`: the controller's lease, warm switch and `desired`, with a paused
   controller; `Create`: idempotent creation under an uncertain COMMIT; the choice of
   jobs to verify.
3. `Retention`: the durations of section 2 as quantities, so that the three assumed
   relations become consequences of the code's numbers.
