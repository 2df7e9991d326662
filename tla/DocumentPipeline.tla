--------------------------- MODULE DocumentPipeline ---------------------------
(* pipeline/run.py under worker.py: the worker processes that run the stages    *)
(* of one document. A step of a worker is what the code does between two        *)
(* commits (or between a SELECT and the INSERT that depends on it), so every    *)
(* interleaving of two runs of the same document, and a failure after any       *)
(* commit, is a behaviour of this module. Image processing, OCR text and        *)
(* entity text are abstracted to which rows they lead to.                       *)
EXTENDS DocumentStore, FiniteSets

CONSTANTS
  Workers,          \* prefork children of the celery worker
  NumPages,         \* count_pages(raw_image_path): 0 if the file cannot be read
  Layout,           \* Layout[p]: number of regions detect_regions finds on page p
  EntityRegions,    \* regions whose text holds an entity
  FlagRegions,      \* regions a check of detect_all_anomalies flags whenever it runs
  WordFlagRegions,  \* regions only the word-level check flags (needs OCRResult.words)
  MaxFaults,        \* bound on the faults of each kind
  MaxKinds          \* bound on the kinds of fault in one behaviour

Pages == 1..NumPages
RegionsOf(p) == {p} \X (1..Layout[p])
\* A flag belongs to a region, or to the page itself when its layout is empty.
FlagSlotsOf(p) == {p} \X (0..Layout[p])
Regions == UNION {RegionsOf(p) : p \in Pages}
FlagSlots == UNION {FlagSlotsOf(p) : p \in Pages}

FaultKinds == {"workerLost", "redelivery", "error", "sqlError", "disconnect",
               "recycle", "lockLost", "softLimit", "hardLimit",
               "retryNotPublished", "errorNotMarked"}

ASSUME PipelineAssumption ==
  /\ NumPages \in Nat
  /\ Layout \in [Pages -> Nat]
  /\ EntityRegions \subseteq Regions
  /\ FlagRegions \subseteq Regions
  /\ WordFlagRegions \subseteq Regions
  /\ MaxFaults \in [FaultKinds -> Nat]
  /\ MaxKinds \in Nat

VARIABLES
  page,        \* page[p]: the row of `pages` (with its `regions`, same commit) exists
  image,       \* image[p]: pages.processed_image_path is set
  ocr,         \* ocr[r]: ocr_results.status of region r, "none" without a row
  entityRows,  \* entityRows[r]: copies of the entities of region r in `entities`
  fullText,    \* fullText[p]: pages.full_text is set
  flagRows,    \* flagRows[s]: copies of the flags of slot s in `review_flags`
  pc,          \* pc[w]: the next step of worker w, "idle" between jobs
  job,         \* job[w]: request.retries of the job w runs
  loaded,      \* loaded[w]: documents.status as w's session last read it, "expired"
               \* once a commit has expired the object
  holds,       \* holds[w]: how often w's pooled connection holds the advisory lock
  cur,         \* cur[w] = <<page, region>>: the loops of run_pipeline and its stages
  fresh,       \* fresh[w]: regions whose OCRResult in this run has its words
  partial,     \* partial[w]: any_partial
  flagged,     \* flagged[w]: total_flags > 0
  failed,      \* failed[w]: an exception is propagating out of run_pipeline
  broken,      \* broken[w]: w's session only accepts a rollback
  swallowed,   \* swallowed[w]: SoftTimeLimitExceeded was caught inside OCRRouter
  faults       \* faults[k]: faults of kind k so far

dataVars == <<page, image, ocr, entityRows, fullText, flagRows>>
tallyVars == <<cur, fresh, partial, flagged>>
localVars == <<loaded, tallyVars, failed, broken, swallowed>>
vars == <<status, errorMessage, jobs, page, image, ocr, entityRows, fullText, flagRows,
          pc, job, loaded, holds, cur, fresh, partial, flagged, failed, broken,
          swallowed, faults>>

OcrStatus == {"ok", "ocr_partial", "failed"}

\* The steps between acquiring the advisory lock and the `finally` clause.
RunSteps == {"start", "page", "insertPage", "image", "emptyFlag", "insertEmptyFlag",
             "ocrRunning", "ocr", "insertOcr", "extracting", "extract", "insertEntities",
             "text", "anomaly", "insertFlags", "ocrDone", "indexed", "final"}
Steps == RunSteps \cup {"idle", "load", "lock", "release", "retry", "markError"}

InRun(w) == pc[w] \in RunSteps

\* The locals of run_ocr_job and run_pipeline.
LocalTypeOK ==
  /\ loaded \in [Workers -> Status \cup {"expired"}]
  /\ cur \in [Workers -> Nat \X Nat]
  /\ fresh \in [Workers -> SUBSET (Nat \X Nat)]
  /\ partial \in [Workers -> BOOLEAN]
  /\ flagged \in [Workers -> BOOLEAN]
  /\ failed \in [Workers -> BOOLEAN]
  /\ broken \in [Workers -> BOOLEAN]
  /\ swallowed \in [Workers -> BOOLEAN]

TypeOK ==
  /\ StoreTypeOK
  /\ page \in [Pages -> BOOLEAN]
  /\ image \in [Pages -> BOOLEAN]
  /\ ocr \in [Regions -> OcrStatus \cup {"none"}]
  /\ entityRows \in [Regions -> Nat]
  /\ fullText \in [Pages -> BOOLEAN]
  /\ flagRows \in [FlagSlots -> Nat]
  /\ pc \in [Workers -> Steps]
  /\ job \in [Workers -> Attempts]
  /\ holds \in [Workers -> Nat]
  /\ LocalTypeOK
  /\ faults \in [FaultKinds -> Nat]

\* No worker has run for the document yet.
RunInit ==
  /\ page = [p \in Pages |-> FALSE]
  /\ image = [p \in Pages |-> FALSE]
  /\ ocr = [r \in Regions |-> "none"]
  /\ entityRows = [r \in Regions |-> 0]
  /\ fullText = [p \in Pages |-> FALSE]
  /\ flagRows = [s \in FlagSlots |-> 0]
  /\ pc = [w \in Workers |-> "idle"]
  /\ job = [w \in Workers |-> 0]
  /\ loaded = [w \in Workers |-> "expired"]
  /\ holds = [w \in Workers |-> 0]
  /\ cur = [w \in Workers |-> <<1, 1>>]
  /\ fresh = [w \in Workers |-> {}]
  /\ partial = [w \in Workers |-> FALSE]
  /\ flagged = [w \in Workers |-> FALSE]
  /\ failed = [w \in Workers |-> FALSE]
  /\ broken = [w \in Workers |-> FALSE]
  /\ swallowed = [w \in Workers |-> FALSE]
  /\ faults = [k \in FaultKinds |-> 0]

\* POST /documents or ingest_one has committed the row and published its job.
Init ==
  /\ status = "uploaded"
  /\ errorMessage = FALSE
  /\ jobs = [n \in Attempts |-> IF n = 0 THEN 1 ELSE 0]
  /\ RunInit

-------------------------------------------------------------------------------
(* Helpers *)

\* A fault of kind k; MaxFaults and MaxKinds bound the faults, not the code.
Fault(k) ==
  /\ faults[k] < MaxFaults[k]
  /\ Cardinality({j \in FaultKinds \ {k} : faults[j] > 0}) < MaxKinds
  /\ faults' = [faults EXCEPT ![k] = @ + 1]

Goto(w, step) == pc' = [pc EXCEPT ![w] = step]

At(w, step) == pc[w] = step

\* document.status = s; session.commit(). The ORM emits no UPDATE when the value it
\* has loaded is the one assigned, and the commit expires what it has loaded.
AssignStatus(w, s) ==
  /\ status' = IF loaded[w] = s THEN status ELSE s
  /\ loaded' = [loaded EXCEPT ![w] = "expired"]

\* The document is read anew, by the access to document.id after a commit.
ReloadDocument(w) == loaded' = [loaded EXCEPT ![w] = status]

\* What is left of a call of run_ocr_job once it is over.
Forget(w) ==
  /\ loaded' = [loaded EXCEPT ![w] = "expired"]
  /\ cur' = [cur EXCEPT ![w] = <<1, 1>>]
  /\ fresh' = [fresh EXCEPT ![w] = {}]
  /\ partial' = [partial EXCEPT ![w] = FALSE]
  /\ flagged' = [flagged EXCEPT ![w] = FALSE]
  /\ failed' = [failed EXCEPT ![w] = FALSE]
  /\ broken' = [broken EXCEPT ![w] = FALSE]
  /\ swallowed' = [swallowed EXCEPT ![w] = FALSE]

PageRowExists(p) == page[p]
PageFlagged(p) == \E s \in FlagSlotsOf(p) : flagRows[s] > 0
ReadOk(r) == ocr[r] \in {"ok", "ocr_partial"}     \* text.strip() is not empty

\* Mutant: only what this run has words for is checked.
MutantAnomalyFlags(p, withWords) ==
  {r \in RegionsOf(p) \cap withWords : ocr[r] = "failed" \/ r \in FlagRegions \cup WordFlagRegions}

\* detect_all_anomalies for page p, given the regions whose words are at hand.
\* A failed region has confidence 0.0 and is always illegible.
AnomalyFlags(p, withWords) ==
  {r \in RegionsOf(p) : \/ ocr[r] = "failed"
                        \/ r \in FlagRegions
                        \/ r \in WordFlagRegions \cap withWords}

NextPage(w) ==
  IF cur[w][1] < NumPages
  THEN /\ cur' = [cur EXCEPT ![w] = <<@[1] + 1, 1>>]
       /\ Goto(w, "page")
  ELSE /\ UNCHANGED cur
       /\ Goto(w, "ocrDone")

\* The stages' `for idx, region in enumerate(db_regions)`.
NextRegion(w, loop, after) ==
  IF cur[w][2] < Layout[cur[w][1]]
  THEN /\ cur' = [cur EXCEPT ![w] = <<@[1], @[2] + 1>>]
       /\ Goto(w, loop)
  ELSE /\ cur' = [cur EXCEPT ![w] = <<@[1], 1>>]
       /\ Goto(w, after)

-------------------------------------------------------------------------------
(* The job and the lock *)

Receive(w) ==
  /\ At(w, "idle")
  /\ \E n \in Attempts : Take(n) /\ job' = [job EXCEPT ![w] = n]
  /\ Goto(w, "load")
  /\ UNCHANGED <<status, errorMessage, dataVars, localVars, holds, faults>>

\* session.get(Document, ...): the row is read before the wait for the lock.
LoadDocument(w) ==
  /\ At(w, "load")
  /\ ReloadDocument(w)
  /\ Goto(w, "lock")
  /\ UNCHANGED <<storeVars, dataVars, job, holds, tallyVars, failed, broken, swallowed,
                 faults>>

\* Mutant: the lock is taken without asking.
MutantLockFree(w) == TRUE

LockFree(w) == \A v \in Workers \ {w} : holds[v] = 0

\* Session-level locks are re-entrant within one connection.
AcquireLock(w) ==
  /\ At(w, "lock")
  /\ LockFree(w)
  /\ holds' = [holds EXCEPT ![w] = @ + 1]
  /\ Goto(w, "start")
  /\ UNCHANGED <<storeVars, dataVars, localVars, job, faults>>

\* Mutant: pg_advisory_lock() instead of the bounded poll.
MutantLockTimeout(w) == At(w, "lock") /\ ~LockFree(w) /\ UNCHANGED vars

\* DocumentLockTimeout. lock_id is still None: `finally` does not unlock.
LockTimeout(w) ==
  /\ At(w, "lock")
  /\ ~LockFree(w)
  /\ Goto(w, "retry")
  /\ UNCHANGED <<storeVars, dataVars, localVars, job, holds, faults>>

\* count_pages, then the first status, compared with the row read before the lock.
Start(w) ==
  /\ At(w, "start")
  /\ IF NumPages = 0
     THEN /\ Goto(w, "release")
          /\ failed' = [failed EXCEPT ![w] = TRUE]
          /\ UNCHANGED <<status, loaded>>
     ELSE /\ Goto(w, "page")
          /\ AssignStatus(w, "preprocessing")
          /\ UNCHANGED failed
  /\ UNCHANGED <<errorMessage, jobs, dataVars, job, holds, tallyVars, broken, swallowed,
                 faults>>

\* Mutant: the lock is assumed to be still there.
MutantUnlock(w) == holds' = [holds EXCEPT ![w] = @ - 1]

Unlock(w) ==
  IF broken[w] \/ holds[w] = 0
  THEN UNCHANGED holds     \* the statement raises and is logged, or finds no lock
  ELSE holds' = [holds EXCEPT ![w] = @ - 1]

\* Mutant: a failed run does not unlock.
MutantRelease(w) ==
  /\ At(w, "release")
  /\ IF failed[w]
     THEN Goto(w, "retry") /\ UNCHANGED <<holds, localVars>>
     ELSE Unlock(w) /\ Goto(w, "idle") /\ Forget(w)
  /\ UNCHANGED <<storeVars, dataVars, job, faults>>

Release(w) ==
  /\ At(w, "release")
  /\ Unlock(w)
  /\ IF failed[w]
     THEN Goto(w, "retry") /\ UNCHANGED localVars
     ELSE Goto(w, "idle") /\ Forget(w)
  /\ UNCHANGED <<storeVars, dataVars, job, faults>>

Retry(w) ==
  /\ At(w, "retry")
  /\ IF job[w] >= MaxRetries
     THEN Goto(w, "markError") /\ UNCHANGED <<jobs, localVars>>
     ELSE Publish(job[w] + 1) /\ Goto(w, "idle") /\ Forget(w)
  /\ UNCHANGED <<status, errorMessage, dataVars, job, holds, faults>>

\* Mutant: only the message is stored.
MutantMarkError(w) ==
  /\ At(w, "markError")
  /\ errorMessage' = TRUE
  /\ Goto(w, "idle")
  /\ Forget(w)
  /\ UNCHANGED <<status, jobs, dataVars, job, holds, faults>>

\* mark_document_error takes no lock.
MarkError(w) ==
  /\ At(w, "markError")
  /\ SetStatus("error")
  /\ errorMessage' = TRUE
  /\ Goto(w, "idle")
  /\ Forget(w)
  /\ UNCHANGED <<jobs, dataVars, job, holds, faults>>

-------------------------------------------------------------------------------
(* The page loop of run_pipeline *)

\* What the steps of the loop leave alone, except that some (re)load the document.
jobVars == <<storeVars, job, holds, failed, broken, swallowed, faults>>
controlVars == <<jobVars, loaded>>

CommitStatus(w, step, s, next) ==
  /\ At(w, step)
  /\ AssignStatus(w, s)
  /\ Goto(w, next)
  /\ UNCHANGED <<errorMessage, jobs, dataVars, tallyVars, failed, broken, swallowed, job,
                 holds, faults>>

\* Mutant: a page that exists is taken for a page that is done.
MutantEnsurePage(w) ==
  /\ At(w, "page")
  /\ IF PageRowExists(cur[w][1]) THEN NextPage(w) ELSE Goto(w, "insertPage") /\ UNCHANGED cur
  /\ UNCHANGED <<controlVars, dataVars, fresh, partial, flagged>>

\* _ensure_page_and_regions: reuse the page, or detect its regions and insert them.
EnsurePage(w) ==
  LET p == cur[w][1] IN
  /\ At(w, "page")
  /\ Goto(w, IF PageRowExists(p) THEN "image" ELSE "insertPage")
  /\ UNCHANGED <<controlVars, dataVars, tallyVars>>

\* The page and its regions are one commit. If another run committed the page since
\* the SELECT, the flush raises IntegrityError and the winner's page is reused.
InsertPage(w) ==
  LET p == cur[w][1] IN
  /\ At(w, "insertPage")
  /\ page' = [page EXCEPT ![p] = TRUE]
  /\ Goto(w, "image")
  /\ UNCHANGED <<controlVars, image, ocr, entityRows, fullText, flagRows, tallyVars>>

\* _persist_processed_image, and the branch on `not db_regions`.
PersistImage(w) ==
  LET p == cur[w][1] IN
  /\ At(w, "image")
  /\ image' = [image EXCEPT ![p] = TRUE]
  /\ loaded' = [loaded EXCEPT ![w] = "expired"]
  /\ Goto(w, IF Layout[p] = 0 THEN "emptyFlag" ELSE "ocrRunning")
  /\ UNCHANGED <<jobVars, page, ocr, entityRows, fullText, flagRows, tallyVars>>

\* _flag_empty_layout: the flag is inserted unless the page has one already, and then
\* nothing is committed; the run counts a flag in both cases.
EmptyLayout(w) ==
  LET p == cur[w][1] IN
  /\ At(w, "emptyFlag")
  /\ IF flagRows[<<p, 0>>] > 0
     THEN NextPage(w) /\ flagged' = [flagged EXCEPT ![w] = TRUE] /\ ReloadDocument(w)
     ELSE Goto(w, "insertEmptyFlag") /\ UNCHANGED <<cur, flagged, loaded>>
  /\ UNCHANGED <<jobVars, dataVars, fresh, partial>>

InsertEmptyFlag(w) ==
  LET p == cur[w][1] IN
  /\ At(w, "insertEmptyFlag")
  /\ flagRows' = [flagRows EXCEPT ![<<p, 0>>] = @ + 1]
  /\ flagged' = [flagged EXCEPT ![w] = TRUE]
  /\ NextPage(w)
  /\ UNCHANGED <<controlVars, page, image, ocr, entityRows, fullText, fresh, partial>>

OcrRunning(w) == CommitStatus(w, "ocrRunning", "ocr_running", "ocr")

\* Mutant: a reused result does not count for any_partial.
MutantOcrRegion(w) ==
  /\ At(w, "ocr")
  /\ IF ocr[cur[w]] # "none"
     THEN NextRegion(w, "ocr", "extracting")
     ELSE Goto(w, "insertOcr") /\ UNCHANGED cur
  /\ UNCHANGED <<controlVars, dataVars, fresh, partial, flagged>>

\* _run_ocr_stage, one region: a persisted result is reused without its words.
OcrRegion(w) ==
  LET r == cur[w] IN
  /\ At(w, "ocr")
  /\ IF ocr[r] # "none"
     THEN /\ partial' = [partial EXCEPT ![w] = @ \/ ocr[r] # "ok"]
          /\ NextRegion(w, "ocr", "extracting")
     ELSE Goto(w, "insertOcr") /\ UNCHANGED <<cur, partial>>
  /\ UNCHANGED <<controlVars, dataVars, fresh, flagged>>

\* Mutant: the loser of the race replaces the winner's row.
MutantInsertOcr(w) ==
  /\ At(w, "insertOcr")
  /\ \E result \in OcrStatus :
       /\ ocr' = [ocr EXCEPT ![cur[w]] = result]
       /\ fresh' = [fresh EXCEPT ![w] = @ \cup {cur[w]}]
       /\ partial' = [partial EXCEPT ![w] = @ \/ result # "ok"]
  /\ NextRegion(w, "ocr", "extracting")
  /\ UNCHANGED <<controlVars, page, image, entityRows, fullText, flagRows, flagged>>

\* _run_ocr_with_retry answered `result`; region_id is unique, so the loser of a
\* race reads the winner's row instead.
InsertOcr(w) ==
  LET r == cur[w] IN
  /\ At(w, "insertOcr")
  /\ \E result \in OcrStatus :
       IF ocr[r] = "none"
       THEN /\ ocr' = [ocr EXCEPT ![r] = result]
            /\ fresh' = [fresh EXCEPT ![w] = @ \cup {r}]
            /\ partial' = [partial EXCEPT ![w] = @ \/ result # "ok"]
       ELSE /\ partial' = [partial EXCEPT ![w] = @ \/ ocr[r] # "ok"]
            /\ UNCHANGED <<ocr, fresh>>
  /\ NextRegion(w, "ocr", "extracting")
  /\ UNCHANGED <<controlVars, page, image, entityRows, fullText, flagRows, flagged>>

Extracting(w) == CommitStatus(w, "extracting", "extracting", "extract")

\* Mutant: existing entities are not looked for.
MutantExtractRegion(w) ==
  /\ At(w, "extract")
  /\ IF ~ReadOk(cur[w])
     THEN NextRegion(w, "extract", "text")
     ELSE Goto(w, "insertEntities") /\ UNCHANGED cur
  /\ UNCHANGED <<controlVars, dataVars, fresh, partial, flagged>>

\* _run_extraction_stage, one region: no text, or entities already there, or extract.
ExtractRegion(w) ==
  LET r == cur[w] IN
  /\ At(w, "extract")
  /\ IF ~ReadOk(r) \/ entityRows[r] > 0
     THEN NextRegion(w, "extract", "text")
     ELSE Goto(w, "insertEntities") /\ UNCHANGED cur
  /\ UNCHANGED <<controlVars, dataVars, fresh, partial, flagged>>

\* All entities of the region in one commit; no constraint stops a second copy.
InsertEntities(w) ==
  LET r == cur[w] IN
  /\ At(w, "insertEntities")
  /\ entityRows' = [entityRows EXCEPT ![r] = IF r \in EntityRegions THEN @ + 1 ELSE @]
  /\ NextRegion(w, "extract", "text")
  /\ UNCHANGED <<controlVars, page, image, ocr, fullText, flagRows, fresh, partial, flagged>>

UpdateFullText(w) ==
  LET p == cur[w][1] IN
  /\ At(w, "text")
  /\ fullText' = [fullText EXCEPT ![p] = TRUE]
  /\ Goto(w, "anomaly")
  /\ UNCHANGED <<controlVars, page, image, ocr, entityRows, flagRows, tallyVars>>

\* Mutant: flags of an earlier run are not counted.
MutantAnomalyStage(w) ==
  /\ At(w, "anomaly")
  /\ IF PageFlagged(cur[w][1])
     THEN NextPage(w)
     ELSE Goto(w, "insertFlags") /\ UNCHANGED cur
  /\ UNCHANGED <<controlVars, dataVars, fresh, partial, flagged>>

\* _run_anomaly_stage: any flag of the page, of whatever review status, ends it
\* without a commit.
AnomalyStage(w) ==
  /\ At(w, "anomaly")
  /\ IF PageFlagged(cur[w][1])
     THEN NextPage(w) /\ flagged' = [flagged EXCEPT ![w] = TRUE] /\ ReloadDocument(w)
     ELSE Goto(w, "insertFlags") /\ UNCHANGED <<cur, flagged, loaded>>
  /\ UNCHANGED <<jobVars, dataVars, fresh, partial>>

\* Mutant: total_flags = page_flags instead of +=.
MutantInsertFlags(w) ==
  LET new == AnomalyFlags(cur[w][1], fresh[w]) IN
  /\ At(w, "insertFlags")
  /\ flagRows' = [s \in FlagSlots |-> IF s \in new THEN flagRows[s] + 1 ELSE flagRows[s]]
  /\ flagged' = [flagged EXCEPT ![w] = new # {}]
  /\ NextPage(w)
  /\ UNCHANGED <<controlVars, page, image, ocr, entityRows, fullText, fresh, partial>>

\* All flags of the page in one commit; no constraint stops a second copy.
InsertFlags(w) ==
  LET new == AnomalyFlags(cur[w][1], fresh[w]) IN
  /\ At(w, "insertFlags")
  /\ flagRows' = [s \in FlagSlots |-> IF s \in new THEN flagRows[s] + 1 ELSE flagRows[s]]
  /\ flagged' = [flagged EXCEPT ![w] = @ \/ new # {}]
  /\ NextPage(w)
  /\ UNCHANGED <<controlVars, page, image, ocr, entityRows, fullText, fresh, partial>>

\* The three commits that end a run.
FinishOcr(w) ==
  CommitStatus(w, "ocrDone", IF partial[w] THEN "ocr_partial" ELSE "ocr_done", "indexed")
FinishIndex(w) == CommitStatus(w, "indexed", "indexed", "final")
FinishReview(w) ==
  CommitStatus(w, "final", IF flagged[w] THEN "needs_review" ELSE "ready", "release")

-------------------------------------------------------------------------------
(* Faults *)

\* An exception that leaves the session usable: an unreadable frame, cv2.imwrite
\* returning False, a bug, or the soft time limit outside an OCR call.
RaiseClean(w) ==
  /\ Fault("error")
  /\ failed' = [failed EXCEPT ![w] = TRUE]
  /\ UNCHANGED <<holds, broken>>

\* A statement or flush the database refuses: until a rollback the session raises.
RaiseSql(w) ==
  /\ Fault("sqlError")
  /\ failed' = [failed EXCEPT ![w] = TRUE]
  /\ broken' = [broken EXCEPT ![w] = TRUE]
  /\ UNCHANGED holds

\* The connection is lost inside a statement: the server drops its locks.
RaiseDisconnect(w) ==
  /\ Fault("disconnect")
  /\ failed' = [failed EXCEPT ![w] = TRUE]
  /\ broken' = [broken EXCEPT ![w] = TRUE]
  /\ holds' = [holds EXCEPT ![w] = 0]

\* Any step of run_pipeline may raise instead; what it had not committed is lost.
RunRaises(w) ==
  /\ InRun(w) \/ pc[w] \in {"load", "lock"}
  /\ RaiseClean(w) \/ RaiseSql(w) \/ RaiseDisconnect(w)
  /\ Goto(w, IF InRun(w) THEN "release" ELSE "retry")
  /\ UNCHANGED <<storeVars, dataVars, job, loaded, tallyVars, swallowed>>

\* SoftTimeLimitExceeded is an Exception: raised inside OCRRouter.run it is taken
\* for a backend failure, and the run goes on.
SoftLimitInOcr(w) ==
  /\ At(w, "insertOcr")
  /\ ~swallowed[w]
  /\ Fault("softLimit")
  /\ swallowed' = [swallowed EXCEPT ![w] = TRUE]
  /\ UNCHANGED <<storeVars, dataVars, pc, job, holds, loaded, tallyVars, failed,
                 broken>>

Die(w) ==
  /\ Goto(w, "idle")
  /\ Forget(w)
  /\ holds' = [holds EXCEPT ![w] = 0]

\* task_time_limit: the child is killed and the job acknowledged as failed.
HardTimeLimit(w) ==
  /\ InRun(w)
  /\ swallowed[w]
  /\ Fault("hardLimit")
  /\ Die(w)
  /\ UNCHANGED <<storeVars, dataVars, job>>

\* The child is lost (out of memory, restart): task_reject_on_worker_lost requeues.
WorkerLost(w) ==
  /\ ~At(w, "idle")
  /\ Fault("workerLost")
  /\ Publish(job[w])
  /\ Die(w)
  /\ UNCHANGED <<status, errorMessage, dataVars, job>>

\* At-least-once delivery: the broker hands out an unacknowledged message again.
Redeliver(w) ==
  /\ ~At(w, "idle")
  /\ Fault("redelivery")
  /\ Publish(job[w])
  /\ UNCHANGED <<status, errorMessage, dataVars, localVars, pc, job, holds>>

\* Task.retry() cannot publish: the message is rejected without requeueing.
RetryNotPublished(w) ==
  /\ At(w, "retry")
  /\ job[w] < MaxRetries
  /\ Fault("retryNotPublished")
  /\ Goto(w, "idle")
  /\ Forget(w)
  /\ UNCHANGED <<storeVars, dataVars, job, holds>>

\* mark_document_error itself fails, and the failed job is acknowledged.
ErrorNotMarked(w) ==
  /\ At(w, "markError")
  /\ Fault("errorNotMarked")
  /\ Goto(w, "idle")
  /\ Forget(w)
  /\ UNCHANGED <<storeVars, dataVars, job, holds>>

\* Steps that begin a transaction, and so check a connection out of the pool.
CheckoutSteps == {"page", "image", "emptyFlag", "ocrRunning", "ocr", "extracting",
                  "extract", "text", "anomaly", "ocrDone", "indexed", "final"}

\* pool_recycle or pool_pre_ping replaces the connection between two transactions:
\* the lock goes with the old one and the run does not notice.
LockLost(w) ==
  /\ pc[w] \in CheckoutSteps
  /\ holds[w] > 0
  /\ Fault("lockLost")
  /\ holds' = [holds EXCEPT ![w] = 0]
  /\ UNCHANGED <<storeVars, dataVars, localVars, pc, job>>

\* The same outside a run, where only a lock that was never released is lost.
Recycle(w) ==
  /\ pc[w] \in {"idle", "load", "release"}
  /\ holds[w] > 0
  /\ Fault("recycle")
  /\ holds' = [holds EXCEPT ![w] = 0]
  /\ UNCHANGED <<storeVars, dataVars, localVars, pc, job>>

-------------------------------------------------------------------------------
RunStep(w) ==
  \/ EnsurePage(w) \/ InsertPage(w) \/ PersistImage(w)
  \/ EmptyLayout(w) \/ InsertEmptyFlag(w)
  \/ OcrRunning(w) \/ OcrRegion(w) \/ InsertOcr(w)
  \/ Extracting(w) \/ ExtractRegion(w) \/ InsertEntities(w)
  \/ UpdateFullText(w) \/ AnomalyStage(w) \/ InsertFlags(w)
  \/ FinishOcr(w) \/ FinishIndex(w) \/ FinishReview(w)

WorkerStep(w) ==
  \/ Receive(w) \/ LoadDocument(w) \/ AcquireLock(w) \/ LockTimeout(w) \/ Start(w)
  \/ RunStep(w)
  \/ Release(w) \/ Retry(w) \/ MarkError(w)

FaultStep(w) ==
  \/ RunRaises(w) \/ SoftLimitInOcr(w) \/ HardTimeLimit(w) \/ WorkerLost(w)
  \/ Redeliver(w) \/ RetryNotPublished(w) \/ ErrorNotMarked(w) \/ LockLost(w) \/ Recycle(w)

Next == \E w \in Workers : WorkerStep(w) \/ FaultStep(w)

Spec == Init /\ [][Next]_vars

\* A live worker takes its next step; no fault is ever obliged to happen.
FairSpec == Spec /\ \A w \in Workers : WF_vars(WorkerStep(w))
=============================================================================
