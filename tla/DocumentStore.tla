---------------------------- MODULE DocumentStore ----------------------------
(* What the API process, the beat scheduler and the worker processes share     *)
(* about one document: its row in `documents` (storage/models.py) and the      *)
(* run_ocr_job messages the broker holds for it (worker.py).                   *)
EXTENDS Naturals

CONSTANT MaxRetries        \* @celery_app.task(max_retries=3)

ASSUME MaxRetriesAssumption == MaxRetries \in Nat

VARIABLES
  status,         \* documents.status
  errorMessage,   \* TRUE iff documents.error_message is not NULL
  jobs            \* jobs[n]: waiting run_ocr_job messages with request.retries = n

storeVars == <<status, errorMessage, jobs>>

Attempts == 0..MaxRetries

Status == {"uploaded", "preprocessing", "ocr_running", "ocr_done", "ocr_partial",
           "extracting", "indexed", "needs_review", "ready", "enqueue_failed", "error"}

\* The statuses in which the pipeline has said its last word on the document.
Terminal == {"ready", "needs_review", "error"}

StoreTypeOK ==
  /\ status \in Status
  /\ errorMessage \in BOOLEAN
  /\ jobs \in [Attempts -> Nat]

NoJobWaiting == \A n \in Attempts : jobs[n] = 0

\* run_ocr_job.delay() publishes at n = 0, Task.retry() at n > 0, and the broker
\* puts a message back at the n it was delivered with.
Publish(n) == jobs' = [jobs EXCEPT ![n] = @ + 1]

Take(n) ==
  /\ jobs[n] > 0
  /\ jobs' = [jobs EXCEPT ![n] = @ - 1]

SetStatus(s) == status' = s
=============================================================================
