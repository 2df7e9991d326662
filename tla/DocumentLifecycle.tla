--------------------------- MODULE DocumentLifecycle ---------------------------
(* What the archive promises about one document, without workers, locks, jobs or *)
(* retries: results are only ever added, and what the document is said to be is   *)
(* the truth about them at the moment it is said.                                *)
CONSTANTS
  Pages,
  Regions     \* pairs <<page, number>>

VARIABLES
  answer,     \* what documents.status says
  result,     \* result[r]: how region r was read, "none" as long as it was not
  complete,   \* pages with nothing left to do before the document is answered
  toReview    \* something was put into the review queue

lifeVars == <<answer, result, complete, toReview>>

RegionsOn(p) == {r \in Regions : r[1] = p}

Underway == {"uploaded", "preprocessing", "ocr_running", "extracting", "enqueue_failed"}

LifeInit ==
  /\ answer = "uploaded"
  /\ result = [r \in Regions |-> "none"]
  /\ complete = {}
  /\ toReview = FALSE

\* A region is read once.
Read(r) ==
  /\ result[r] = "none"
  /\ \E x \in {"ok", "ocr_partial", "failed"} : result' = [result EXCEPT ![r] = x]
  /\ UNCHANGED <<answer, complete, toReview>>

\* A page is complete when its regions are read; one without regions goes to review.
Complete(p) ==
  /\ \A r \in RegionsOn(p) : result[r] # "none"
  /\ complete' = complete \cup {p}
  /\ toReview' = (toReview \/ RegionsOn(p) = {})
  /\ UNCHANGED <<answer, result>>

Flag ==
  /\ toReview' = TRUE
  /\ UNCHANGED <<answer, result, complete>>

\* An attempt begins or goes on, even after an answer.
Work ==
  /\ answer' \in Underway
  /\ UNCHANGED <<result, complete, toReview>>

\* What may be said of a document only when it is true.
True(a) ==
  CASE a = "ocr_done"     -> \A r \in Regions : result[r] = "ok"
    [] a = "ocr_partial"  -> \E r \in Regions : result[r] # "ok"
    [] a = "indexed"      -> TRUE
    [] a = "ready"        -> \A r \in Regions : result[r] # "failed"
    [] a = "needs_review" -> toReview

Answer ==
  /\ Pages # {} /\ complete = Pages
  /\ \E a \in {"ocr_done", "ocr_partial", "indexed", "ready", "needs_review"} :
       True(a) /\ answer' = a
  /\ UNCHANGED <<result, complete, toReview>>

GiveUp ==
  /\ answer' = "error"
  /\ UNCHANGED <<result, complete, toReview>>

LifeNext ==
  \/ \E r \in Regions : Read(r)
  \/ \E p \in Pages : Complete(p)
  \/ Flag \/ Work \/ Answer \/ GiveUp

LifeSpec == LifeInit /\ [][LifeNext]_lifeVars
=============================================================================
