-------------------------- MODULE PipelineProperties --------------------------
(* What pipeline/run.py and worker.py promise about one document.              *)
EXTENDS DocumentPipeline

JobDropped == faults["hardLimit"] + faults["retryNotPublished"] + faults["errorNotMarked"] > 0
LockKept == faults["lockLost"] = 0

PageComplete(p) ==
  /\ page[p] /\ image[p]
  /\ IF Layout[p] = 0
     THEN flagRows[<<p, 0>>] > 0
     ELSE fullText[p] /\ \A r \in RegionsOf(p) : ocr[r] # "none"

\* The verdict of a run is the truth about the rows, whatever crashed, was retried
\* or overlapped on the way: a document past its OCR stage has every page laid out,
\* imaged, OCR'd and indexed (run_pipeline's loop, lines 578-622).
VerdictMeansComplete ==
  status \in {"ocr_done", "ocr_partial", "indexed", "needs_review", "ready"}
    => NumPages > 0 /\ \A p \in Pages : PageComplete(p)

\* ocr_done is only said when every region was read without a fallback, also by a
\* run that reuses the results of an interrupted one (any_partial, lines 359 and 400).
OcrVerdictTruthful ==
  /\ status = "ocr_done" => \A r \in Regions : ocr[r] = "ok"
  /\ status = "ocr_partial" => \E r \in Regions : ocr[r] # "ok"

\* The final verdict agrees with the review queue (README.md:136-138): needs_review
\* has flags to review and, as long as no run lost its lock, ready has none.
ReviewVerdictTruthful ==
  /\ status = "needs_review" => \E s \in FlagSlots : flagRows[s] > 0
  /\ status = "ready" /\ LockKept => \A s \in FlagSlots : flagRows[s] = 0

\* A region no engine could read never ends in a ready document, not even when the
\* run that read it died before flagging it or lost the insert to another run.
UnreadNeverReady == status = "ready" => \A r \in Regions : ocr[r] # "failed"

\* The advisory lock keeps two runs of the document apart: as long as no connection
\* was replaced inside a run, at most one worker is between lock and unlock.
RunsExclusive == LockKept => \A v, w \in Workers : InRun(v) /\ InRun(w) => v = w

\* Neither retries, redeliveries nor crashes duplicate entities or flags, which no
\* unique constraint protects (lines 430-461 and 485-537).
NoDuplicateRows ==
  LockKept => /\ \A r \in Regions : entityRows[r] <= 1
              /\ \A s \in FlagSlots : flagRows[s] <= 1

\* When nothing is left to run, the document has its verdict, unless the broker or a
\* time limit discarded the job: no order of crash, retry, duplicate and lock timeout
\* leaves it in a passing status with nobody to move it on.
NeverStranded ==
  NoJobWaiting /\ (\A w \in Workers : pc[w] = "idle") => JobDropped \/ status \in Terminal

\* An OCR result, once committed, is never replaced or lost: the expensive stage is
\* what resuming protects (module docstring, lines 4-12).
OcrResultsFinal == [][\A r \in Regions : ocr[r] # "none" => ocr'[r] = ocr[r]]_vars

\* Nobody keeps the lock of a document it is not running: without a session broken by
\* a refused statement (the case `finally` only logs, lines 629-635), a held lock means
\* a run, so waiting for it is waiting for that run.
LockHeldOnlyInRun ==
  faults["sqlError"] = 0 => \A w \in Workers : holds[w] > 0 => InRun(w) \/ pc[w] = "release"

\* Every job comes to an end and leaves a verdict.
EventuallySettled ==
  <>[](/\ NoJobWaiting
       /\ \A w \in Workers : pc[w] = "idle"
       /\ JobDropped \/ status \in Terminal)

-------------------------------------------------------------------------------
(* The pipeline implements DocumentLifecycle. *)

Life == INSTANCE DocumentLifecycle WITH
          answer   <- status,
          result   <- ocr,
          complete <- {p \in Pages : PageComplete(p)},
          toReview <- \E s \in FlagSlots : flagRows[s] > 0

\* Whatever overlaps, dies, is retried or loses its lock, each step of the pipeline adds
\* to the document's results or says something of it that is true at that moment
\* (the resumable stages of run.py:578-622 and their verdict).
ImplementsLifecycle == Life!LifeSpec

-------------------------------------------------------------------------------
(* Inductive invariants behind the safety properties. *)

\* A worker that still has to publish, requeue or give a verdict before it is idle.
Obliged(w) == pc[w] # "idle" /\ ~(pc[w] = "release" /\ ~failed[w])

\* An unfinished document has a waiting message or an obliged worker. This, unlike
\* NeverStranded itself, is preserved by every step: it also says who will act.
OutstandingWork ==
  \/ JobDropped
  \/ status \in Terminal
  \/ ~NoJobWaiting
  \/ \E w \in Workers : Obliged(w)

\* The last two commits of a run follow a commit that expired the row, so their UPDATE
\* is emitted: without this the verdict might not be written.
ExpiredInv == \A w \in Workers : pc[w] \in {"indexed", "final"} => loaded[w] = "expired"

\* One connection holds the lock, and it is the one of the run (until it is replaced).
LockInv ==
  /\ \A v, w \in Workers : holds[v] > 0 /\ holds[w] > 0 => v = w
  /\ LockKept => \A w \in Workers : InRun(w) => holds[w] > 0

\* Without a refused statement, a connection holds the lock once at most, from the lock
\* to the unlock, and a session is only broken once the lock has gone with its connection.
BrokenSteps == {"release", "retry", "markError"}
Held(w) ==
  /\ holds[w] <= 1
  /\ holds[w] > 0 => InRun(w) \/ pc[w] = "release"
  /\ broken[w] => holds[w] = 0 /\ pc[w] \in BrokenSteps
HeldInv == faults["sqlError"] = 0 => \A w \in Workers : Held(w)

\* A run about to insert rows has seen none, and nobody else can have added any.
RowInv ==
  LockKept =>
    /\ \A r \in Regions : entityRows[r] <= 1
    /\ \A s \in FlagSlots : flagRows[s] <= 1
    /\ \A w \in Workers :
         /\ pc[w] = "insertEntities" => ~(entityRows[cur[w]] > 0)
         /\ pc[w] = "insertEmptyFlag" => ~(flagRows[<<cur[w][1], 0>>] > 0)
         /\ pc[w] = "insertFlags" => ~PageFlagged(cur[w][1])

\* Where a run is, and what it may rely on: the steps of the loop, by the part of the
\* page they come after.
PageSteps == RunSteps \ {"start", "ocrDone", "indexed", "final"}
AfterPage == PageSteps \ {"page", "insertPage"}
AfterImage == AfterPage \ {"image"}
EmptySteps == {"emptyFlag", "insertEmptyFlag"}
OcrSteps == {"ocr", "insertOcr"}
AfterOcr == {"extracting", "extract", "insertEntities", "text", "anomaly", "insertFlags"}
AfterText == {"anomaly", "insertFlags"}
Closing == {"ocrDone", "indexed", "final"}

\* The regions any_partial of worker w's run tells about, and the pages total_flags does.
Counted(w) ==
  {r \in Regions :
     \/ pc[w] \in Closing
     \/ pc[w] \in PageSteps /\ r[1] < cur[w][1]
     \/ pc[w] \in AfterOcr /\ r[1] = cur[w][1]
     \/ pc[w] \in OcrSteps /\ r[1] = cur[w][1] /\ r[2] < cur[w][2]}
PagesBehind(w) ==
  {p \in Pages : pc[w] \in Closing \/ (pc[w] \in PageSteps /\ p < cur[w][1])}

\* A page with its last row has all the rows before it.
RowsInOrder ==
  \A p \in Pages :
    (fullText[p] \/ flagRows[<<p, 0>>] > 0) =>
      /\ page[p] /\ image[p]
      /\ \A r \in RegionsOf(p) : ocr[r] # "none"

\* A run is where the rows say it can be.
Place(w) ==
  /\ pc[w] \in {"idle", "load", "lock", "start"} => cur[w] = <<1, 1>>
  /\ pc[w] \in PageSteps => cur[w][1] \in Pages
  /\ pc[w] \in Closing => NumPages > 0
  /\ pc[w] \in {"page", "insertPage", "image", "ocrRunning"} => cur[w][2] = 1
  /\ pc[w] \in AfterPage => page[cur[w][1]]
  /\ pc[w] \in AfterImage =>
       image[cur[w][1]] /\ (Layout[cur[w][1]] = 0 <=> pc[w] \in EmptySteps)
  /\ pc[w] \in OcrSteps => cur[w][2] \in 1..Layout[cur[w][1]]
  /\ pc[w] \in AfterText => fullText[cur[w][1]]
  /\ \A p \in PagesBehind(w) : PageComplete(p)

\* The tallies of a run are the truth about what it has been through.
Tally(w) ==
  /\ \A r \in Counted(w) : ocr[r] # "none" /\ (ocr[r] = "ok" \/ partial[w])
  /\ partial[w] => \E r \in Regions : ocr[r] \in {"ocr_partial", "failed"}
  /\ flagged[w] => \E s \in FlagSlots : flagRows[s] > 0
  /\ \A p \in PagesBehind(w) : \A r \in RegionsOf(p) : ocr[r] = "failed" => flagged[w]

LifeInv == RowsInOrder /\ \A w \in Workers : Place(w) /\ Tally(w)

\* A run that has counted no flag has left none on the pages behind it.
FlagsCounted(w) == flagged[w] \/ \A p \in PagesBehind(w) : ~PageFlagged(p)

\* A run that may still flag a region has taken an earlier ready back: the row it
\* commits ocr_running to is expired, so the UPDATE is emitted.
ReadyTakenBack(w) ==
  /\ pc[w] = "ocrRunning" => loaded[w] = "expired"
  /\ pc[w] \in OcrSteps \cup AfterOcr => status # "ready"

VerdictInv ==
  LockKept =>
    /\ status = "ready" => \A s \in FlagSlots : flagRows[s] = 0
    /\ \A w \in Workers : FlagsCounted(w) /\ ReadyTakenBack(w)

-------------------------------------------------------------------------------
(* What the repository says and the code does not keep to. *)

\* "(another run is still in progress)", the message of DocumentLockTimeout
\* (lines 179-182), says why the lock could not be had.
LockTimeoutMeansOtherRun ==
  [][\A w \in Workers :
       pc[w] = "lock" /\ pc'[w] = "retry" /\ faults' = faults
         => \E v \in Workers \ {w} : pc[v] \in RunSteps \cup {"release"}]_vars

\* README.md:136-138, "any flags? no -> status=ready", with no exception.
ReadyHasNoFlags == status = "ready" => \A s \in FlagSlots : flagRows[s] = 0

\* README.md:523-524, "if a long PDF hits that limit, the job's normal retry carries
\* on": a run the soft time limit was raised in is never the last of an unfinished
\* document.
SoftLimitIsRetried ==
  NoJobWaiting /\ (\A w \in Workers : pc[w] = "idle") /\ faults["softLimit"] > 0
    => status \in Terminal
=============================================================================
