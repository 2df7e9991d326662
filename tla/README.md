# Document archive: TLA+ models and proofs

This directory keeps a formal model of the document archive: what happens to a
document between its upload and its verdict when jobs are retried, duplicated
and lost, workers die, locks leak and several processes write the same row; what
is made of the ink and the words on a page; and what happens to the result when
reviewers correct it, decide flags, log out and are limited beside each other.
The models are translated from the Python code; line numbers refer to the
repository root (`pipeline/run.py:578` and so on).

## 1. Inventory

| Part (code) | State it keeps | Operations | Talks to |
| --- | --- | --- | --- |
| Document row, job queue (`storage/models.py`, `worker.py`) | `documents.status`, `error_message`; `run_ocr_job` messages with their retry count | publish, take, requeue | shared by everything below |
| Pipeline run (`pipeline/run.py`) and worker task (`worker.py:38-61`) | `pages`, `regions`, `ocr_results`, `entities`, `review_flags`; the Postgres advisory lock; the locals of a run | the page loop, its commits, retry, give up | row, queue, OCR router, anomaly checks |
| Intake (`review_api/documents.py:55-131`, `ingestion/batch.py`) and reconciliation (`worker.py:64-95`) | row and raw file; the set of file names a watcher has seen | upload, ingest, reprocess, watch, reconcile_orphans | row, queue |
| OCR router (`ocr/engine.py`) | threads of backends that timed out | run primary, fall back, time out | pipeline |
| Page reading and validation (`ocr/pages.py`, `ingestion/validate.py`, `ingestion/upload.py`) | none | count pages, iterate pages, check limits | intake, pipeline |
| Layout, preprocessing (`ocr/layout.py`, `ocr/preprocess.py`) | none | cluster, classify, order regions | pipeline |
| Entity extraction, typed values (`extraction/entities.py`, `storage/typed_values.py`) | none | find and normalise entities | pipeline, review desk |
| Anomaly detection (`extraction/anomalies.py`, `pipeline/run.py:320-430`) | `review_flags` of a page | the checks that raise flags, and which entity a flag names | pipeline, review desk |
| Review desk (`review_api/entities.py`, `review_flags.py`, `stats.py`) | `entities`, `entity_corrections`, `review_flags.status` | correct an entity, list and decide flags, count | entities, flags, web client |
| Access (`review_api/auth*.py`, `session*.py`, `rate_limit.py`) | revoked sessions, request counters in Redis, a circuit breaker per process | log in and out, check, count | Redis |
| Search, metrics, health (`search.py`, `queries.py`, `metrics.py`, `health.py`) | counters | read | database, Redis |
| Web client (`web/src`) | react-query's cache, queue cursor and offset, selection, object URL of the image shown | review queue, document view | API |
| Backups, migrations, evaluation (`scripts`, `alembic`, `eval`) | files | batch jobs | database |

What is hard, and what makes each part correct:

* **Pipeline.** Celery delivers at least once (`task_acks_late`,
  `task_reject_on_worker_lost`), so two runs of a document can overlap and a run
  can end between any two commits. Correct means: the rows alone let the next
  run resume; the verdict is the truth about the rows; nothing is inserted twice;
  an OCR result is never redone; the job always ends and leaves a verdict.
* **The advisory lock** belongs to a database connection, not to a run: it
  survives a rollback and the return of the connection to the pool, and it
  disappears with the connection. Correct means: one run at a time, and no lock
  without a run.
* **Intake and reconciliation** read the row, commit and publish in separate
  steps and take no lock. Correct means: a document nobody acts on has its verdict
  or will be picked up again.
* **OCR router.** A call that times out is given up, its thread is not: it goes on
  beside later calls and shares the lazily loaded model with them. Correct means:
  every region gets an answer although backends hang, and it is its own.
* **Watcher and upload requests** decide from names in memory what is new, and a file
  goes through a read, a check, a store, a commit and a publish, each of which can
  fail on its own. Correct means: every readable new scan becomes a document, only
  known failures make it two, and an answer says which documents were made.
* **Page reading** happens twice, at upload and in the worker, by different libraries.
  Correct means: what the first accepts the second can read.
* **Layout, extraction, anomalies** are pure but made of passes that undo each other:
  rows that grow while boxes join them, four span filters in a row, parsers that accept
  digits misread as letters, flags computed from what a run reloads. Correct means: what
  is above is read first; a span gives way only to one that overlaps it; a misread value
  is the clean one with less confidence; an interrupted run flags what one run would have.
* **Review desk.** Two sessions read one entity or flag and each commits what differs
  from its own copy. Correct means: the trail of corrections explains the value, and
  nobody's correction is torn who was alone.
* **Access** rests on a Redis without a volume, which may fail, restart or answer late.
  Correct means: logged out stays out and the limit holds unless Redis failed, and then
  in the way the code says (open for sessions, closed for changes where configured).
* **Web client.** Answers come late, in any order, to a page that has moved on. Correct
  means: what was decided is not offered again, no image is leaked or shown on a page it
  does not belong to, what is selected is on the page shown.

## 2. Modules

| Module | What it is |
| --- | --- |
| `DocumentStore` | the row and the queue, with the operations everybody uses |
| `DocumentPipeline` | `run_pipeline` under `run_ocr_job`: one action per step between two commits, and the faults |
| `PipelineProperties` | what the pipeline promises, the inductive invariants, and three sentences of the repository the code does not keep to |
| `DocumentLifecycle` | the abstract specification of one document: results are only added, and what is said of it is true when it is said |
| `PipelineProofs` | theorems about the pipeline: types, the lock taken and given back, the rows, no document stranded |
| `LifecycleProofs` | the verdicts are true, and `DocumentPipeline` implements `DocumentLifecycle` |
| `Intake` | upload/ingest publishing, `reprocess`, `reconcile_orphans` |
| `DocumentArchive` | intake and pipeline on one row and one queue, its properties |
| `ArchiveProofs` | theorems about the composition |
| `OcrRouter` | `OCRRouter.run` under `_run_ocr_with_retry` with the threads left behind, its properties |
| `OcrRouterProofs` | theorems about the router |
| `ScanIntake` | `watch_directory`, `ingest_one` and the files of one upload request, `check_document` and the page iterators, its properties |
| `ScanProofs` | theorems about them |
| `ReviewDesk` | `PATCH /entities/{id}`: concurrent corrections of one entity, its typed columns and its trail |
| `ReviewQueue` | `GET` and `PATCH /review_flags` and the queue page in front of them, with react-query's lists |
| `DocumentView` | the document page: selection, page, flag decisions, image loads |
| `ReviewProofs` | theorems about these three |
| `Sessions` | cookies, requests, logout and the denylist in Redis |
| `RateLimit` | the fixed-window limiter, the client behind a proxy, the circuit of each process |
| `AccessProofs` | theorems about these two |
| `Layout` | clusters, classification and reading order of the boxes on a page |
| `Entities` | the passes of `extract_entities` over the spans of a text |
| `Values` | what the parsers make of one match, and the confidence |
| `Anomalies` | the flags of a page, written by runs that are interrupted while entities are corrected |
| `ContentProofs` | theorems about these four |
| `MCPipeline`, `MCArchive`, `MCRouter`, `MCScan`, `MCReview`, `MCContent` | small instances for TLC |

### DocumentPipeline and the code

A state is the database, the queue, and for each prefork child its place in the
code (`pc`) and the locals that later steps read. All models follow one document:
runs of different documents share nothing that is modelled (their lock keys differ,
`run.py:165`, and their rows do too).

* A step is what the code does from one commit to the next, or from a SELECT to
  the commit that depends on it, so every overlap of two runs is a behaviour.
  `EnsurePage`/`InsertPage`, `OcrRegion`/`InsertOcr`,
  `ExtractRegion`/`InsertEntities`, `EmptyLayout`/`InsertEmptyFlag` and
  `AnomalyStage`/`InsertFlags` are such pairs. Where a unique constraint exists
  (`pages`, `ocr_results`) the insert step contains the IntegrityError branch;
  where none exists (`entities`, `review_flags`) the rows are counted.
* `loaded` is the status the ORM compares an assignment with. It matters twice:
  the row is read before the wait for the lock (`run.py:549`), and the last page may
  end without a commit (`run.py:491`), so `Start` and `FinishOcr` may emit no UPDATE.
* `fresh` holds the regions whose words this run has: only they get the
  word-level check (`run.py:335-340`).
* `AcquireLock`/`LockTimeout` stand for the poll of `_advisory_lock`: the lock is
  taken when it is free, and given up when it is not; how long 60 s are is not
  modelled. A worker process uses one session at a time, so it has one pooled
  connection, `holds[w]` counts that connection's session-level lock, and a second
  lock on the same connection succeeds.
* `Retry` publishes `retries + 1` and ends; after the last retry `MarkError`.
  The countdown of a retry is not modelled: it may be taken at once.

Faults, all optional and bounded by `MaxFaults` (per kind) and `MaxKinds`
(different kinds in one behaviour):

| Action | Code behaviour |
| --- | --- |
| `RunRaises`: `RaiseClean` | an exception in Python code; the session works and `finally` unlocks |
| `RunRaises`: `RaiseSql` | a statement or flush the database refuses: the session raises on everything until a rollback, also on the unlock, which is logged (`run.py:631-634`); the connection goes back to the pool with the lock |
| `RunRaises`: `RaiseDisconnect` | the connection breaks: the server drops the lock |
| `SoftLimitInOcr`, `HardTimeLimit` | the soft limit raised in an OCR call is caught by `OCRRouter.run` (`engine.py:316`); then the hard limit kills the child and its job is acknowledged |
| `WorkerLost`, `Redeliver` | the job of a dead child is requeued; the broker hands a job out twice |
| `RetryNotPublished`, `ErrorNotMarked` | the last step of a failed attempt fails too |
| `LockLost`, `Recycle` | `pool_recycle` or `pool_pre_ping` (`db.py:12-15`) replaces the connection at a checkout, inside a run or outside |

Celery, Postgres and the pool are not in the repository; their behaviour is taken
from the settings in `worker.py:23-28` and `db.py:10-17` and from how `run.py` uses
them, and is marked external in the map.

### Intake, DocumentArchive and the code

`Callers` go through `_enqueue` (an upload or ingest, whose row has just been
committed, and one `reprocess` call per client); `beat` is `reconcile_orphans`.
`seen[a]` is the row as that session last read it: its commits are UPDATEs of what
differs from it. `NotPublished` is a `delay()` that raises, whether or not the broker
took the message. `Requeue` may use a row read again just before publishing, because
the commit for an earlier orphan of the same batch expires the later ones. A caller
or the beat task may die between any two steps. The two-minute cutoff on `upload_time`
is not a clock: the document may be past it at any moment, which covers every delay.

`DocumentArchive` lets both act on the shared row and queue: each step of one
leaves the variables of the other alone.

### OcrRouter and the code

The main thread of a worker process reads the regions one after the other (of one
document or of many: `_router` lives as long as the process). A call of a backend is
named `<<region, attempt, role>>`; `at[c]` is where its thread is, `given` the calls the
main thread went on without. `Submit` is the fresh executor of `_run_with_timeout`;
`TakeResult`, `BackendRaised` and `TimedOut` are the three ends of `future.result`
(`engine.py:355-364`), `CallFailed` what the router and the retry loop make of the last
two. A thread may stand still anywhere, for a while or for ever. `CheckModel`,
`LoadProcessor` and `LoadModel` are the unguarded lazy load of `TrOCRBackend`, between
any two of which another thread may run. The soft time limit is raised in the main thread: inside a
call it counts as a failed backend, between calls it ends the run. The
outcomes are the three `InsertOcr` of `DocumentPipeline` chooses from, and
`SoftLimitRaised` is its `RunRaises`.

### ScanIntake and the code

An actor is a name of the directory, whose thread runs `ingest_one`, or the one upload
request, which does the same with its files one after the other. `at[a]` is where it
stands between the read, the commit of the row, `delay()` and the commit of
`enqueue_failed`; `result[a]` is what `future.result()` gives (`"id"`, `"None"`, or an
exception) or how the request is answered. `End` contains the difference between the
two: only the request goes on to a next file. `Poll`, `Collect` and `EndBatch` are the loop
of `watch_directory`; `ChangeDirectory` is everybody else, who may add, replace or take
away a file at any moment, also between the poll and the read.

A file is a record of what the libraries see of it: format, page count, largest page,
whether it opens and its first page decodes, whether a later page is broken, and
whether it is over the size limit. `CheckDocument`, `CountPages` and `PagesRead` are
functions of that record. `docs` and `raw` are the rows and stored files this intake
makes; that a document gets its verdict once its row exists is `DocumentArchive`'s part.

Faults: the disk is full (`SaveFails`), the database refuses the row or loses the answer
to its commit (`InsertFails`, `InsertUnacknowledged`), the broker refuses the job
(`NotPublished`), the database refuses the note of that too (`MarkFails`), the watcher is
restarted (`Restart`).

### ReviewDesk and the code

`ReadEntity` is `db.get` (`entities.py:27-32`): it begins the transaction, whose start is
the `created_at` of the correction, and keeps the row it saw in `calls[r].loaded`.
`CommitCorrection` is everything up to `db.commit()`: the typed columns are computed from
the new value for the entity's type, and the UPDATE names only the columns that differ
from the copy (`Updated`), so two calls that overlap each write a part. `CallFails` is any
refusal: a value that does not fit its column, or a lost database. A value is a record
of what the two parsers of `storage/typed_values.py` make of it.

### ReviewQueue and the code

The server's part is the two SELECTs of `list_review_flags` (`CountFlags`, `SelectFlags`,
which may see different flags) and the read and the commit of `update_review_flag`. The
page's part is `cache[o]`, react-query's list for each offset, `fetch[o]`, the GET for it in
flight, and the PATCHes of this browser. `AnswerDecision` contains the invalidation of
`useUpdateReviewFlag`: every list becomes stale, the one shown is fetched again (its GET is
cancelled and sent anew, unless it is its first), others when they are visited. `aged`
stands for `staleTime`, which may be over at any moment. `Press` is the hotkey, guarded by `isPending`;
`Click` are the buttons, which mostly are not. react-query is not in the repository: its
rules are taken from the options in `main.tsx` and the hooks, and marked external.

### DocumentView and the code

A handler, the renderings it causes and their effects are one step, since nothing else
runs in between; the answers to GETs and PATCHes and the images are steps of their own.
`LoadImages` and `Wanted` are the effect of `useDocumentImage`, its cleanup (`URL.revokeObjectURL`,
`cancelled`) and the check when the blob arrives. A GET of the document reads and answers
in one step: what the page does depends on when the answer comes, not on when it was read.

### Sessions, RateLimit and the code

Time passes in steps; a second of `Sessions` has `Ticks` of them, since `int(time.time())`
decides the expiry and two logins within a second get one cookie. `Decode`, `CheckRevoked`
and `Revoke` are the signature and expiry check, the GET and the SET of a request, between which
others act. `RevocationUnchecked` and `RevokeFails` are the two `except` branches of
`session_revocation.py`; `DenylistLost` is the restart of a Redis without a volume.

In `RateLimit` a check is one step: `_enforce` blocks the event loop of its process, and INCR and
EXPIRE are one transaction. `CountFails` opens the circuit of that process only. `ClientIp` is
`client_ip`; the requests of the instance are what arrives, including a header written by
the client. The repository's compose file runs one API process: two stand for replicas.

### Layout, Entities, Values, Anomalies and the code

What OpenCV, the regular expressions, spaCy's recognizer and rapidfuzz find is data: any boxes
and marks, any spans, any match of the patterns' numbers, any pair of similar names. What the
code does with them is translated: the clusters, the thresholds (as integer inequalities)
and the growing rows of `layout.py`; in `Entities` the two rulers, each with its own
`filter_spans` and a second one against what was there, `parsed` for what `span._` holds (which spaCy
keys by the range of tokens, not by the span), the fallbacks and the scan for places; in
`Values` the parsers, with `misread` for a letter `_OCR_DIGIT_TRANSLATION` turns into a digit and `unread` for
one it does not, and amounts as sets where a float may round a half cent either way.

Where the code loops over a sorted list and fills a result as it goes, the model says
which result it is: `FilterSpans` is the set in which a span is kept exactly if none kept before
it has its ends, `Rowed` the assignment in which a box joins the first row it fits, as far as
that row has grown by then. That such a set, or assignment, exists and is the only one is
proved (`FilterGreedy`, `RowsGreedy`), and the loops were compared with the definitions on every page and
text of `page_content`.

`Anomalies` is the page loop again, with content instead of places to crash: a region has a
reading and findings, a run reuses what is recorded (without words, in any order of
entities), `Interrupted` starts it over, `CorrectEntity` is a reviewer in between.
`ReadingFlags`, `ValueFlags`, `NameFlags` and `FailureFlags` are the checks. Flags are a set, in which
`nth` (of which word or entity it is) tells equal ones apart and keeps their order; `Named` is the
queue of entities with one raw text: a flag takes the next after those taken by the flags
before it.

## 3. Runs

All runs finish in under about three minutes with `tlc -workers 2 -config <cfg> <module>`.
Deadlock is not checked: the systems stop when the last job, call or request is done.

| Run | Question | Bounds |
| --- | --- | --- |
| `pipeline_recovery` | Are rows and verdict right whatever crashes, overlaps and is retried? | two workers (two overlapping runs is what the lock is about), one page with two regions and one empty page (both branches of the loop, a stage that ends half done, a page after a page), one retry; one lost worker, one redelivery and one lost lock, all three in one behaviour |
| `pipeline_review_verdict` | Do ready and needs_review agree with the flags and with what could be read? | as above with two pages of one region each (an empty page always ends in needs_review, so this is where ready is reached) and an exception as fourth fault, two faults of different kinds in one behaviour |
| `pipeline_settles` | Does every job end, and end with a verdict? | every kind of fault once, two kinds in one behaviour; one page, one region |
| `archive_answers` | Does every document get its verdict although its job was never published, published twice, or overtaken by a stale commit? | one worker, one reprocess call, one failed publish or crash of the intake, a crash, exception or redelivery in the pipeline; the reconciler adds jobs up to two waiting ones (`MaxQueued`, a bound only: the code publishes whatever waits, and two show a job added beside a waiting one) |
| `ocr_router` | Does every region get an answer, its own, whatever the backends do? | a handwritten and a typed region, two attempts (both roles of both backends, a retry, a second region to be confused with the first); `Late`: the handwriting threads of the first region may go on after their timeout, other threads given up hang for ever |
| `scan_intake` | Which files become documents, how often, and what is said of it? | two names and two threads (two ingests at once), two changes of the directory (a file, and its replacement or removal), every fault once and two kinds in one behaviour; the directory gets readable and undecodable files, the request brings a TIFF broken on page two, then a PDF whose page cannot be loaded or a file over the size limit (refused: the request ends there), then one more |
| `review_service` | Do corrections, decisions, late answers and images, logouts and limits hold up to being interleaved with each other and with a failing Redis? | see below |
| `page_content` | Are regions ordered, spans kept, values read and flags raised as they should, whatever is on the page? | see below |
| `pipeline_lock_timeout`, `pipeline_ready_flags`, `pipeline_soft_limit`, `archive_requeue` | each shows one sentence of the repository that the code does not keep to | see section 5 |

`review_service` and `page_content` each hold several parts that share no variable. `focus`
chooses one, and the others stay where they start: no behaviour is lost, since parts
that share nothing cannot disturb each other, and the state spaces add up instead of
multiplying.

| Part | Bounds |
| --- | --- |
| `ReviewDesk` | two reviewers, four clock readings (three corrections, two of them overlapping, or two in a row); values that differ in amount only, in currency only, that fit no column, and that change nothing |
| `ReviewQueue` | three flags and a page size of two (a second page, which a decision empties); one flag is added late; two decisions or failures |
| `DocumentView` | two documents of two pages, three flags, three image loads (two late ones beside the current) |
| `Sessions` | two reviewers, two requests at a time, lifetime one second of two ticks, two logins (twins), one fault of Redis |
| `RateLimit` | two processes, two clients and three kinds of request (direct, through the proxy with a forged header, plain), limit two, window three, circuit two, two faults: an outage that begins in one window and ends in the next |
| `Layout` | up to three boxes of eight positions and three heights, and every subset of a two by four grid of marks |
| `Entities` | four tokens (nested, crossing and adjacent spans), two spans of the recognizer, one date, two amounts |
| `Values` | every combination of the numbers at which a parser changes its answer (month ends, leap years, 999/1000, 2100/2101, 19/20 shillings, 11/12 pence) with every way to misread |
| `Anomalies` | a table and a signature, five readings (one for each branch of the reading checks) and five findings of up to three entities (a repeated raw text, two spellings of one name, values outside their range or their column); one interruption, one correction |

Safety properties:

* `VerdictMeansComplete`: a document past its OCR stage has every page, image,
  result and text.
* `OcrVerdictTruthful`, `ReviewVerdictTruthful`, `UnreadNeverReady`: ocr_done,
  ocr_partial, needs_review and ready agree with the rows, also when the run that
  says so reused the work of an interrupted one. `ready` without flags is only
  claimed while no run lost its lock; that a region nobody could read never ends
  in `ready` holds without that condition.
* `ImplementsLifecycle`: every behaviour of the pipeline is one of `DocumentLifecycle`
  under the mapping answer = `status`, result = `ocr`, complete = the pages
  with `PageComplete` (image, results and text are there), toReview = some flag row exists.
* `RunsExclusive`, `NoDuplicateRows`: while no connection is replaced inside a run.
* `OcrResultsFinal`: an action property, a committed result never changes.
* `LockHeldOnlyInRun`: while no session was broken by a refused statement.
* `NeverStranded`, `NeverForgotten`: when nothing is left to run the document has its
  verdict, or is one the reconciler selects. The exception is a job the broker or a
  time limit discarded (`JobDropped`).
* `OutcomeIsEarned`, `NeverHalfLoaded`, `ReloadsAreTimeouts`: of the router.
* `DocumentsReadable`, `SeenHasDocument`, `AnswerMatchesRows`: of the files taken in.
* `DuplicatesAccounted`: a version of a file becomes two documents only by a restart, a
  commit whose answer was lost, or a failed publish that could not be recorded.

* `TrailExplainsValue`: the committed text is the one of the newest correction in the trail,
  or of one in progress beside it. `created_at` is the start of a transaction, so the
  newest entry need not be the last commit.
* `TornOnlyByOverlap`: the text and the typed columns that search uses belong together
  unless the last correction overlapped another.
* `OwnDecisionsLeaveQueue`: a list taken for fresh offers no flag that was decided here.
  The exception: a GET of another page, or the first of this one, was in flight while the
  decision was answered, so that the invalidation did not restart it.
* `ImageUrlsAccounted`, `SelectionOnPage`: of the document page, however late the answers come.
* `RevokedStaysOut`: after a logout was answered the cookie gets in only if Redis failed or
  forgot, or in the instant of its expiry. `TwinsOnly`: a session is ended by no logout but
  one of the same reviewer from the same second.
* `LimitKept`: more than the limit passes only in a window with an outage or lost counters,
  and fail-closed not even an outage lets more changes through; nobody is refused for the
  requests of another, whatever X-Forwarded-For says.
* `ReadingOrderTopDown`: what lies wholly above a box is read before it, unless a third box
  reaches past that edge and ties it to a row above.
* `DroppedForLonger`: the spans left do not overlap, and each dropped one overlaps a proposed
  one at least as long. It holds although `filter_spans` compares only the ends of a span with
  those it has taken.
* `ParseIsOwn`: an amount has an amount's data and a date a date's. The exception is a date
  whose range the currency ruler matched too and lost to a longer match of its own, which
  was lost in turn.
* `MisreadNeverSurer`, `LedgerOrderKept`: of the parsers, against clean text and pence.
* `ResumeLosesOnlyWordFlags`, `FlagsNameTheirEntities`: the flags a resumed run writes are those
  of one run, less word-level flags (`run.py:332-340`), and each names an entity of its raw
  text and region, except where a correction came in between.

`RouterAnswers` assumes weak fairness of the main thread only (a timeout passes, a
backoff ends) and none of the backends' threads: they may hang for ever.

`NewScansIngested` assumes weak fairness of the watcher's loop and of its threads, which
nothing blocks for ever, and no fairness of the request or of whoever changes the
directory.

Liveness of the archive (`EventuallySettled`, `EventuallyAnswered`) assumes weak fairness of each
worker's next step (a child that is alive goes on; the poll for the lock is
bounded), of the calls that have begun, and of the beat task, which Celery starts
every 120 s. Nobody has to call `reprocess` and no fault has to happen. There is no
strong fairness: a lock timeout is a step like any other, and the bounded retries
make the jobs end.

Every property is tried against a mutant of the code's model (`Mutant...`
definitions beside the originals, listed in `PROJECT.json`), which it must refute.

## 4. Proofs

The theorems hold for any number of workers, pages, regions, retries, callers and
faults.

| Theorem | States | Argument |
| --- | --- | --- |
| `TypeCorrect`, `ArchiveTypeCorrect` | types | action by action |
| `NobodyStranded` | `NeverStranded` | `OutstandingWork`: an unfinished document has a waiting message or a worker *obliged* to publish, requeue or write a verdict. `NeverStranded` only speaks of quiet states and is not inductive; this says who will act. It needs `ExpiredInv`: the last two commits of a run follow a commit, so their UPDATE is emitted |
| `OneRunAtATime` | `RunsExclusive` | `LockInv`: at most one connection holds the lock, and while none is replaced every run's worker is the holder |
| `LockGivenBack` | `LockHeldOnlyInRun` | `HeldInv`: unless a statement was refused, a connection holds the lock at most once, and only between the poll that took it and the `finally` that gives it back; a session that is broken without a refused statement has lost its connection and with it the lock |
| `RowsInsertedOnce` | `NoDuplicateRows` | `RowInv` on top of `LockInv`: a run about to insert has seen no rows, and nobody else is in a run to add any |
| `NothingForgotten` | `NeverForgotten` | `OutstandingInArchive`: `OutstandingWork`, or the status is one the reconciler selects. Intake steps only write such statuses (`IntakeFrame`); a worker that changes the status goes on (`StatusWriters`) |
| `PipelineIsLifecycle` | `ImplementsLifecycle` | `LifeInv`, see below |
| `ArchiveIsLifecycle` | the same of the composition | every intake step is a step or a stutter of `DocumentLifecycle` (`IntakeKeepsLife`) |
| `VerdictsComplete`, `OcrVerdictsTrue`, `UnreadIsReviewed`, `ResultsFinal` | `VerdictMeansComplete`, `OcrVerdictTruthful`, `UnreadNeverReady`, `OcrResultsFinal` | from `LifeInv` and from the fact that rows only grow |
| `ReviewVerdictsTrue` | `ReviewVerdictTruthful` | `VerdictInv` on top of `LockInv`, see below |
| `ArchiveLocked`, `ArchiveVerdicts` | `RunsExclusive`, `NoDuplicateRows`, `LockHeldOnlyInRun`; the verdict properties, of the composition | `RunsInv`, the invariants above together: an intake step changes no row, lock or local of a run (`IntakeTouches`), and writes no status but `uploaded` and `enqueue_failed` (`IntakeKeepsRuns`) |
| `RouterTypes` | `RouterTypeOK` | with `InOrder` |
| `OutcomesEarned` | `OutcomeIsEarned` | `InOrder`: calls are made in order, those before the current one have failed, those after it do not exist; a finished call stays as it is (`CallsAreFinal`) |
| `NeverHalf` | `NeverHalfLoaded` | `LoadOrder`: the processor is set before the model |
| `ReloadsBounded` | `ReloadsAreTimeouts` | `LoadTally`: every load but one was made by a call given up that does not load any more; while the current call loads, all were. `Awaited`: only the current call runs without being given up |
| `CheckedIsReadable` | `check_document` against `count_pages` and `iter_page_images` | by format; not a property of a run but a lemma about the three functions |
| `ScanTypes` | `ScanTypeOK` | with `Stored` (rows and files are finitely many, so they can be counted) and `RequestInRange` |
| `RowsReadable` | `DocumentsReadable` | `ReadInv`: stored files were checked, and a row about to be inserted has its file |
| `SeenHaveRows` | `SeenHasDocument` | `SeenInv`: a name at or past its publish has a row, and only such a name becomes seen |
| `DuplicatesBounded` | `DuplicatesAccounted` | `CountInv`: the ingest of a version that can still make a row (`Fresh`) has one less than the bound, so making it stays within; `BatchInv` and `VersionInv` keep a version from becoming fresh again without a forgotten ingest |
| `AnswersMatch` | `AnswerMatchesRows` | `RequestInv`: at its k-th file a request has made exactly the documents before it, and that one once it is committed |
| `CorrectionsWhole`, `TrailExplains` | `TornOnlyByOverlap`, `TrailExplainsValue` | `DeskInv`: a call in progress has read the row as it is unless something was committed since it began (`FreshInv`); if the text has changed since, then to that of such a correction (`TextInv`); entries are in the order of their commits and end after they begin (`ClockInv`). From these the text is that of the newest entry or of one that overlaps it |
| `DecisionsLeave` | `OwnDecisionsLeaveQueue` | `QueueInv`: what was answered here is decided on the server (`DecidedInv`), so a SELECT made after it leaves it out; a list that is fresh or on its way offers it only if its GET went on through the answer (`ListsInv`) |
| `UrlsAccounted`, `SelectionShown` | `ImageUrlsAccounted`, `SelectionOnPage` | `ViewInv`: the load whose effect lives is of the document and page shown, and only it can have left an URL (`ImageInv`); every handler that turns the page clears or moves the selection |
| `LogoutHolds`, `LogoutSpares` | `RevokedStaysOut`, `TwinsOnly` | `SessionInv`: the entry of a recorded logout lasts until the session ends (`LogoutsLast`: `exp - int(time)` seconds from now end no earlier than `exp`, `EntryCovers`), and every entry is there because of a logout with its cookie (`EntriesInv`) |
| `LimitHolds` | `LimitKept` | `LimitInv`: a circuit is open only within `Cooldown` of a failed check (`CircuitInv`), so without an outage every request is counted; a counter is at most what arrived from its client and at least what was let through (`CountInv`). `OwnAddress`: behind the proxy or not, a client counts under its own address |
| `MisreadsLessSure`, `LedgerInOrder` | `MisreadNeverSurer`, `LedgerOrderKept` | `EntityInv`: what is read is a value of its match with the confidence blended; the rest is arithmetic over all numbers, halves of a cent included |
| `LongerWins` | `DroppedForLonger` | `SpansInv`. `Filtered`: of any spans, those kept are apart, and one dropped overlaps one kept and at least as long. It is enough that `filter_spans` looks at the ends, because a span kept before is not shorter and so cannot lie inside. `RulerSpans` carries it through the two filters of a ruler |
| `FilterGreedy`, `RowsGreedy` | `FilterSpans` and `Rowed` are the one solution of what defines them | a thing's place in the order is a number (`SpanRank`, `Place`) that only earlier things decide: see below |
| `OwnParse` | `ParseIsOwn` | `ParsedInv`: whose value a range has before each component |
| `TopDown` | `ReadingOrderTopDown` | `UntiedFitsNowhere`: a row that began above has by then no box reaching past the edge, so the box begins a row of its own, which comes later (`RowsBegin`) |
| `ResumedFlags` | `ResumeLosesOnlyWordFlags` | `AnomaliesInv`: the rows of a region are its entities but for corrected values (`RowsInv`); what a run works with is each entity once, in some order (`Matched`); a run that nothing interrupted before found nothing recorded (`FirstRunInv`). So its flags are those of one run but for words not read and values corrected (`PageJudged`) |
| `FlagsNamed` | `FlagsNameTheirEntities` | `Ranked`: the flags before a value's flag have taken fewer entities than share its text, since its own entity is one of these; two flags have different numbers before them, so they take different ones (`NamedApart`) |

The refinement needs no lock: it holds with overlapping runs. `LifeInv` has three
parts. `RowsInOrder` orders the rows of a page (its text follows its results, an unread
region is flagged before its page is left). `Place` says of each run that everything
before its place in the code is committed: the pages behind it are complete, the
regions behind it read. `Tally` says that what a run counted for itself
(`anyPartial`, `anyFlags`) agrees with the committed rows. They survive the steps of other runs because
rows are only added (`StepGrows`), so what was true of the rows when a
run counted them is still true when it writes its verdict; only "there is no flag" can
become false. So `ready` is true of the rows only while no connection is replaced inside a run,
and the abstract specification promises less about it. `VerdictInv` says what the lock
gives: while it is kept, a run that has counted no flag has left none behind it, nobody
else inserts one until its verdict is committed, and a `ready` left by an earlier run is taken
back by the commit of `ocr_running` before this run adds its first flag.

The greedy loops (`filter_spans`, the rows of `layout.py`) are proved without induction over data:
were there a rank at which no right answer for the things below it exists, there would be a
least such rank (`LeastNatural`), and the answer for the rank before it extends to it; were there
two answers, they would part at a least rank, where what decides is still the same.

Assumptions are the named ones of the modules: `MaxRetriesAssumption`, `PipelineAssumption`,
`IntakeAssumption`, `RouterAssumption`, `ScanAssumption`, `DeskAssumption`, `QueueAssumption`,
`ViewAssumption`, `SessionAssumption`, `LimitAssumption`, `ProxyAssumption`, `LayoutAssumption`,
`EntitiesAssumption`, `ValuesAssumption` and `AnomaliesAssumption`. Most give the constants their types.
Those that say more:

* the request of an upload is not a file name (`ScanAssumption`);
* some value a reviewer can enter fits its column (`DeskAssumption`): every entity was once
  inserted with one;
* the circuit stays open for at least a second (`LimitAssumption`): the code's constant
  `_CIRCUIT_COOLDOWN_SECONDS` is five;
* `trusted_proxy_ips` names exactly the peers that stand between clients and the API, and each of
  them appends the address it sees (`ProxyAssumption`); with its default, the empty list, that
  says that clients connect directly, so behind the web container of the compose file the
  assumption, and `LimitKept`, hold only once TRUSTED_PROXY_IPS is set;
* the recognizer has no labels of the rulers' names (`EntitiesAssumption`);
* two dates, or two amounts, of one raw text in one region have the same type and value, since a
  ruler matches a text wherever it stands and parses it alike (`AnomaliesAssumption`). Nothing is
  said of names, which the recognizer may label by their context.

Only model-checked: liveness (`EventuallySettled`, `EventuallyAnswered`, `RouterAnswers`, `NewScansIngested`),
because fairness and ENABLED are outside the prover, and the four sentences of section 5, which are
false. Every safety property of a passing run is a theorem.

## 5. Where the code and its documents part

* `pipeline_lock_timeout`: `DocumentLockTimeout` says "another run is still in
  progress"; a lock leaked by a run whose session was broken outlives that run.
* `pipeline_ready_flags`: README.md:136-138 decides by "any flags?"; a run that
  overlaps another, because the other's connection was recycled, can write `ready`
  while a flag is inserted.
* `pipeline_soft_limit`: README.md:523-524 promises a retry after the time limit; a
  limit that strikes inside an OCR call is swallowed and the hard limit drops the job.
* `archive_requeue`: `reconcile_orphans` says it re-enqueues documents stuck "after a
  broker drop"; it also re-enqueues those whose job is waiting in a long queue. The run
  shows an upload, the next pass of the beat task, and two jobs waiting for one document.

Met while modelling, and allowed for in the models; no document of the repository says
otherwise, except where quoted:

* Two overlapping corrections of one entity can leave the text of one with the amount of
  the other (`entities.py:39-48`), and the corrections name the same original.
* A correction such as "approximately 5" is answered 500: `parse_amount_value` takes the first
  word for the currency, and the column has eight characters.
* A hotkey pressed again before the list is fetched decides the same flag a second time
  (`ReviewQueuePage.tsx`); an offset beyond the total shows "No open flags"; a flag decided
  here can be shown once more (the exception of `OwnDecisionsLeaveQueue`).
* A late answer to a flag decision selects the next flag and turns the page under a
  reviewer who has gone on to another (`DocumentViewPage.tsx`).
* `metrics.py:24-27` says that `enforce_rate_limit` calls `inc()` on every request; it calls it on none.
* A single penny is read as "GBP 0.00". Because the patterns ignore case, a date with `s`, `z`,
  `b`, `L` or `G` for a digit matches and is then dropped.
* An amount beyond NUMERIC(14, 2) fails the insert of its region at every attempt, so the
  document ends in error and `detect_implausible_amounts` never sees it.
* Reloaded entities come in no order (`run.py` selects them without ORDER BY), so the flag of a
  resumed run may name the twin of an entity a reviewer has corrected.

## 6. Plan

Every component with state of its own is modelled, and every safety property that is checked
is proved. What is left is a property for the one hazard without any: the error of an exhausted
duplicate may land before the verdict of the run that goes on (`worker.py:59`).

## 7. Not modelled

* Pixel arithmetic: `preprocess.py` and the OpenCV half of `layout.py`, which have no state and
  no decisions but thresholds on images.
* The regular expressions, the recognizer, the similarity scores and the contents of the
  gazetteer: their answers are data.
* Single statements without state: `queries.py`, `search.py`, `stats.py`, and the metrics, health
  and request-id modules, which nothing else reads.
* Schema migrations (declarative, run once), backups (a linear script), evaluation and
  calibration (offline statistics over fixtures).
* Bearer tokens and passwords, which are compared with the settings and change nothing.
* Of the web client the entity panel's editor, hovering, search, dashboard and login.
* `pdf_render_scale` (floating point), `sanitize_filename` (characters), and the idle threads an
  executor leaves to the garbage collector.
* `mark_document_error` reads and writes the row in one step of the model. Deletion of a
  document does not exist in the code and so not in the models.
