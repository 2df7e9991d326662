----------------------------- MODULE ArchiveProofs -----------------------------
(* Proofs about the intake and the pipeline together.                           *)
EXTENDS DocumentArchive, LifecycleProofs

-------------------------------------------------------------------------------
(* What a step of the intake does to the row and to the queue *)

IntakeTouches ==
  /\ \/ UNCHANGED <<status, errorMessage>>
     \/ \E a \in Actors, s \in {"uploaded", "enqueue_failed"}, m, same \in BOOLEAN :
          CommitRow(a, s, m, same)
  /\ Publish(0) \/ UNCHANGED jobs

LEMMA IntakeFrame == IntakeStep => IntakeTouches
<1> SUFFICES ASSUME IntakeStep PROVE IntakeTouches
  OBVIOUS
<1> USE DEF Actors, Callers
<1>1. ASSUME NEW c \in Clients, ReprocessStep(c) PROVE IntakeTouches
  <2>1. CASE BeginReprocess(c)
    BY <2>1 DEF BeginReprocess, storeVars, IntakeTouches
  <2>2. CASE ResetStatus(c)
    BY <2>2 DEF ResetStatus, IntakeTouches
  <2>3. CASE Reload(c)
    BY <2>3 DEF Reload, storeVars, IntakeTouches
  <2> QED BY <1>1, <2>1, <2>2, <2>3 DEF ReprocessStep
<1>2. ASSUME NEW a \in Callers, CallStep(a) \/ CallerCrash(a) PROVE IntakeTouches
  <2>1. CASE Enqueue(a)
    BY <2>1 DEF Enqueue, Published, NotPublished, IntakeTouches
  <2>2. CASE MarkNotEnqueued(a)
    BY <2>2 DEF MarkNotEnqueued, IntakeTouches
  <2>3. CASE CallerCrash(a)
    BY <2>3 DEF CallerCrash, storeVars, IntakeTouches
  <2> QED BY <1>2, <2>1, <2>2, <2>3 DEF CallStep
<1>3. CASE SelectOrphan
  BY <1>3 DEF SelectOrphan, storeVars, IntakeTouches
<1>4. CASE Requeue
  BY <1>4 DEF Requeue, Published, NotPublished, IntakeTouches
<1>5. CASE ClearFailure
  BY <1>5 DEF ClearFailure, IntakeTouches
<1>6. CASE BeatCrash
  BY <1>6 DEF BeatCrash, storeVars, IntakeTouches
<1> QED BY <1>1, <1>2, <1>3, <1>4, <1>5, <1>6 DEF IntakeStep, BeatStep

-------------------------------------------------------------------------------
(* Type correctness *)

LEMMA StoreTypeKept == StoreTypeOK /\ IntakeTouches => StoreTypeOK'
<1> SUFFICES ASSUME StoreTypeOK, IntakeTouches PROVE StoreTypeOK'
  OBVIOUS
<1>1. status' \in Status /\ errorMessage' \in BOOLEAN
  BY DEF StoreTypeOK, IntakeTouches, CommitRow, Status
<1>2. jobs' \in [Attempts -> Nat]
  BY DEF StoreTypeOK, IntakeTouches, Publish
<1> QED BY <1>1, <1>2 DEF StoreTypeOK

StepNames == {"idle", "reset", "reload", "enqueue", "failed", "requeue", "clear", "done"}

\* An actor moves on and its session reads the row, or nothing, or is closed.
LEMMA MovesOn ==
  ASSUME NEW a \in Actors, NEW to \in StepNames, NEW row \in Status \X BOOLEAN,
         IntakeTypeOK, step' = [step EXCEPT ![a] = to],
         seen' = [seen EXCEPT ![a] = row] \/ UNCHANGED seen,
         Mishap \/ UNCHANGED mishaps
  PROVE  IntakeTypeOK'
<1>1. mishaps' \in Nat
  BY DEF IntakeTypeOK, Mishap
<1>2. step' \in [Actors -> StepNames]
  BY DEF IntakeTypeOK, StepNames
<1>3. seen' \in [Actors -> Status \X BOOLEAN]
  BY DEF IntakeTypeOK
<1> QED BY <1>1, <1>2, <1>3 DEF IntakeTypeOK, StepNames

LEMMA IntakeTypeNext == StoreTypeOK /\ IntakeTypeOK /\ IntakeStep => IntakeTypeOK'
<1> SUFFICES ASSUME StoreTypeOK, IntakeTypeOK, IntakeStep PROVE IntakeTypeOK'
  OBVIOUS
<1> USE DEF Actors, Callers, StepNames, GoOn
<1>r. /\ Row \in Status \X BOOLEAN
      /\ <<"uploaded", FALSE>> \in Status \X BOOLEAN
      /\ \A a \in Actors : seen[a] \in Status \X BOOLEAN
  BY DEF StoreTypeOK, IntakeTypeOK, Row, Status
<1>1. ASSUME NEW c \in Clients, ReprocessStep(c) PROVE IntakeTypeOK'
  <2>1. CASE BeginReprocess(c)
    BY <2>1, <1>r, MovesOn DEF BeginReprocess
  <2>2. CASE ResetStatus(c)
    BY <2>2, <1>r, MovesOn DEF ResetStatus
  <2>3. CASE Reload(c)
    BY <2>3, <1>r, MovesOn DEF Reload
  <2> QED BY <1>1, <2>1, <2>2, <2>3 DEF ReprocessStep
<1>2. ASSUME NEW a \in Callers, CallStep(a) \/ CallerCrash(a) PROVE IntakeTypeOK'
  <2>1. CASE Enqueue(a)
    <3>1. CASE Finish(a, "enqueue", "done") /\ Published
      BY <3>1, <1>r, MovesOn DEF Finish, Published
    <3>2. ASSUME NEW row \in {seen[a], Row}, GoOn(a, "enqueue", "failed"), NotPublished,
                 seen' = [seen EXCEPT ![a] = row]
          PROVE  IntakeTypeOK'
      <4>1. row \in Status \X BOOLEAN
        BY <3>2, <1>r
      <4> QED BY <3>2, <4>1, MovesOn DEF NotPublished
    <3> QED BY <2>1, <3>1, <3>2 DEF Enqueue
  <2>2. CASE MarkNotEnqueued(a)
    BY <2>2, <1>r, MovesOn DEF MarkNotEnqueued, Finish
  <2>3. CASE CallerCrash(a)
    BY <2>3, <1>r, MovesOn DEF CallerCrash, Finish
  <2> QED BY <1>2, <2>1, <2>2, <2>3 DEF CallStep
<1>3. CASE SelectOrphan
  BY <1>3, <1>r, MovesOn DEF SelectOrphan
<1>4. CASE Requeue
  <2>1. PICK row \in {seen["beat"], Row} :
          \/ /\ GoOn("beat", "requeue", "clear")
             /\ seen' = [seen EXCEPT !["beat"] = row]
             /\ Published
          \/ Finish("beat", "requeue", "idle") /\ (Published \/ NotPublished)
    BY <1>4 DEF Requeue
  <2>2. row \in Status \X BOOLEAN
    BY <2>1, <1>r
  <2>3. Mishap \/ UNCHANGED mishaps
    BY <2>1 DEF Published, NotPublished
  <2>4. CASE GoOn("beat", "requeue", "clear") /\ seen' = [seen EXCEPT !["beat"] = row]
    BY <2>4, <2>2, <2>3, MovesOn
  <2>5. CASE Finish("beat", "requeue", "idle")
    BY <2>5, <1>r, <2>3, MovesOn DEF Finish
  <2> QED BY <2>1, <2>4, <2>5
<1>5. CASE ClearFailure
  BY <1>5, <1>r, MovesOn DEF ClearFailure, Finish
<1>6. CASE BeatCrash
  BY <1>6, <1>r, MovesOn DEF BeatCrash, Finish
<1> QED BY <1>1, <1>2, <1>3, <1>4, <1>5, <1>6 DEF IntakeStep, BeatStep

LEMMA ArchiveTypeInit == ArchiveInit => ArchiveTypeOK
<1> SUFFICES ASSUME ArchiveInit PROVE ArchiveTypeOK
  OBVIOUS
<1>1. StoreTypeOK
  BY DEF ArchiveInit, IntakeInit, StoreTypeOK, Status
<1>2. IntakeTypeOK
  BY DEF ArchiveInit, IntakeInit, IntakeTypeOK, Status
<1> QED BY <1>1, <1>2, RunTypeInit DEF ArchiveInit, ArchiveTypeOK

LEMMA ArchiveTypeNext == ArchiveTypeOK /\ [ArchiveNext]_archiveVars => ArchiveTypeOK'
<1> SUFFICES ASSUME ArchiveTypeOK, [ArchiveNext]_archiveVars PROVE ArchiveTypeOK'
  OBVIOUS
<1> USE DEF ArchiveTypeOK
<1>1. CASE [Next]_vars /\ UNCHANGED intakeVars
  <2>1. TypeOK'
    BY <1>1, TypeNext
  <2>2. IntakeTypeOK'
    BY <1>1 DEF IntakeTypeOK, intakeVars
  <2> QED BY <2>1, <2>2
<1>2. CASE IntakeStep /\ UNCHANGED runVars
  <2>1. StoreTypeOK'
    BY <1>2, IntakeFrame, StoreTypeKept DEF TypeOK
  <2>2. TypeOK'
    BY <1>2, <2>1 DEF TypeOK, LocalTypeOK, runVars, dataVars, localVars, tallyVars
  <2>3. IntakeTypeOK'
    BY <1>2, IntakeTypeNext DEF TypeOK
  <2> QED BY <2>2, <2>3
<1> QED BY <1>1, <1>2 DEF ArchiveNext, archiveVars

\* The intake and the pipeline keep the types of what they share and of their own.
THEOREM ArchiveTypeCorrect == ArchiveSpec => []ArchiveTypeOK
<1> QED BY ArchiveTypeInit, ArchiveTypeNext, PTL DEF ArchiveSpec

-------------------------------------------------------------------------------
(* Nobody forgets a document *)

\* A worker that changes the status goes on, or has written a verdict.
LEMMA StatusWriters ==
  ASSUME TypeOK, ExpiredInv, [Next]_vars
  PROVE  UNCHANGED status \/ OutstandingWork'
<1> USE DEF At
<1>t. pc \in [Workers -> Steps]
  BY DEF TypeOK
<1>1. CASE UNCHANGED vars
  BY <1>1 DEF vars
<1>2. ASSUME NEW w \in Workers, WorkerStep(w) \/ FaultStep(w)
      PROVE  UNCHANGED status \/ OutstandingWork'
  <2>1. CASE Start(w)
    <3>1. CASE NumPages = 0
      BY <2>1, <3>1 DEF Start
    <3>2. CASE NumPages # 0
      BY <2>1, <3>2, <1>t, KeepsJob DEF Start, Goto
    <3> QED BY <3>1, <3>2
  <2>2. CASE OcrRunning(w)
    BY <2>2, <1>t, KeepsJob DEF OcrRunning, CommitStatus, Goto
  <2>3. CASE Extracting(w)
    BY <2>3, <1>t, KeepsJob DEF Extracting, CommitStatus, Goto
  <2>4. CASE FinishOcr(w)
    BY <2>4, <1>t, KeepsJob DEF FinishOcr, CommitStatus, Goto
  <2>5. CASE FinishIndex(w)
    BY <2>5, <1>t, KeepsJob DEF FinishIndex, CommitStatus, Goto
  <2>6. CASE FinishReview(w)
    <3>1. loaded[w] = "expired"
      BY <2>6 DEF FinishReview, CommitStatus, ExpiredInv
    <3>2. status' \in Terminal
      BY <2>6, <3>1 DEF FinishReview, CommitStatus, AssignStatus, Terminal
    <3> QED BY <3>2 DEF OutstandingWork
  <2>7. CASE MarkError(w)
    BY <2>7 DEF MarkError, SetStatus, Terminal, OutstandingWork
  <2>8. CASE Receive(w) \/ LoadDocument(w) \/ AcquireLock(w) \/ LockTimeout(w)
             \/ Release(w) \/ Retry(w)
    BY <2>8 DEF Receive, LoadDocument, AcquireLock, LockTimeout, Release, Retry, storeVars
  <2>9. CASE \/ EnsurePage(w) \/ InsertPage(w) \/ PersistImage(w) \/ EmptyLayout(w)
             \/ InsertEmptyFlag(w) \/ OcrRegion(w) \/ InsertOcr(w) \/ ExtractRegion(w)
             \/ InsertEntities(w) \/ UpdateFullText(w) \/ AnomalyStage(w) \/ InsertFlags(w)
    BY <2>9 DEF EnsurePage, InsertPage, PersistImage, EmptyLayout, InsertEmptyFlag,
       OcrRegion, InsertOcr, ExtractRegion, InsertEntities, UpdateFullText, AnomalyStage,
       InsertFlags, controlVars, jobVars, storeVars
  <2>10. CASE FaultStep(w)
    BY <2>10 DEF FaultStep, RunRaises, SoftLimitInOcr, HardTimeLimit, WorkerLost, Redeliver,
       RetryNotPublished, ErrorNotMarked, LockLost, Recycle, storeVars
  <2> QED
    BY <1>2, <2>1, <2>2, <2>3, <2>4, <2>5, <2>6, <2>7, <2>8, <2>9, <2>10
    DEF WorkerStep, RunStep
<1> QED BY <1>1, <1>2 DEF Next

LEMMA OutstandingArchiveNext ==
  ASSUME ArchiveTypeOK, ExpiredInv, OutstandingInArchive, [ArchiveNext]_archiveVars
  PROVE  OutstandingInArchive'
<1> USE DEF ArchiveTypeOK
<1>1. CASE [Next]_vars /\ UNCHANGED intakeVars
  <2>1. CASE OutstandingWork
    BY <1>1, <2>1, OutstandingNext DEF OutstandingInArchive
  <2>2. CASE Orphaned
    BY <1>1, <2>2, StatusWriters DEF OutstandingInArchive, Orphaned
  <2> QED BY <2>1, <2>2 DEF OutstandingInArchive
<1>2. CASE IntakeStep /\ UNCHANGED runVars
  <2>1. UNCHANGED status \/ Orphaned'
    BY <1>2, IntakeFrame DEF IntakeTouches, CommitRow, Orphaned
  <2>2. ~NoJobWaiting => ~NoJobWaiting'
    BY <1>2, IntakeFrame DEF IntakeTouches, Publish, NoJobWaiting, TypeOK, StoreTypeOK
  <2>3. /\ JobDropped => JobDropped'
        /\ \A w \in Workers : Obliged(w) => Obliged(w)'
    BY <1>2 DEF runVars, localVars, JobDropped, Obliged
  <2> QED BY <2>1, <2>2, <2>3 DEF OutstandingInArchive, OutstandingWork, Orphaned
<1> QED BY <1>1, <1>2 DEF ArchiveNext, archiveVars

\* No order of uploads, reprocess calls, reconciliations, crashes, failed publishes and
\* pipeline runs leaves the document where neither a job, nor a worker, nor the next
\* reconciliation will act on it, unless a job was discarded.
THEOREM NothingForgotten == ArchiveSpec => []NeverForgotten
<1>1. OutstandingInArchive => NeverForgotten
  BY DEF OutstandingInArchive, OutstandingWork, NeverForgotten, Obliged
<1>2. ArchiveInit => ExpiredInv /\ OutstandingInArchive
  BY ExpiredInit DEF ArchiveInit, IntakeInit, OutstandingInArchive, Orphaned
<1>3. ArchiveTypeOK /\ ExpiredInv /\ [ArchiveNext]_archiveVars => ExpiredInv'
  <2> SUFFICES ASSUME ArchiveTypeOK, ExpiredInv, [ArchiveNext]_archiveVars PROVE ExpiredInv'
    OBVIOUS
  <2>1. CASE [Next]_vars
    BY <2>1, ExpiredNext DEF ArchiveTypeOK
  <2>2. CASE UNCHANGED runVars
    BY <2>2 DEF runVars, localVars, ExpiredInv
  <2> QED BY <2>1, <2>2 DEF ArchiveNext, archiveVars
<1> QED BY <1>1, <1>2, <1>3, ArchiveTypeInit, ArchiveTypeNext, OutstandingArchiveNext,
           PTL DEF ArchiveSpec

-------------------------------------------------------------------------------
(* The composition implements DocumentLifecycle too. *)

LEMMA IntakeKeepsLife ==
  ASSUME LifeInv, IntakeStep, UNCHANGED runVars
  PROVE  LifeInv' /\ (Life!LifeNext \/ UNCHANGED Life!lifeVars)
<1>1. UNCHANGED <<page, image, ocr, fullText, flagRows, pc, cur, partial, flagged>>
  BY DEF runVars, dataVars, localVars, tallyVars
<1>2. LifeInv'
  <2>1. RowsInOrder'
    BY <1>1 DEF LifeInv, RowsInOrder
  <2>2. \A w \in Workers : Place(w)' /\ Tally(w)'
    BY <1>1 DEF LifeInv, Place, Tally, Counted, PagesBehind, PageComplete
  <2> QED BY <2>1, <2>2 DEF LifeInv
<1>3. UNCHANGED <<ocr, Done, Review>>
  BY <1>1 DEF Done, Review, PageComplete
<1>4. CASE status' = status
  BY <1>2, <1>3, <1>4 DEF Life!lifeVars, Done, Review
<1>5. CASE status' # status
  <2>1. status' \in {"uploaded", "enqueue_failed"}
    BY <1>5, IntakeFrame DEF IntakeTouches, CommitRow
  <2>2. Life!Work
    BY <1>3, <2>1 DEF Life!Work, Life!Underway, Done, Review
  <2> QED BY <1>2, <2>2 DEF Life!LifeNext
<1> QED BY <1>2, <1>4, <1>5

\* Uploads, reprocess calls and reconciliation, with all that can go wrong in them, do
\* not make the archive say anything of a document that is not true either.
THEOREM ArchiveIsLifecycle == ArchiveSpec => ImplementsLifecycle
<1>1. ArchiveInit => LifeInv /\ Life!LifeInit
  <2> SUFFICES ASSUME ArchiveInit PROVE LifeInv /\ Life!LifeInit
    OBVIOUS
  <2>1. \A p \in Pages : ~PageComplete(p)
    BY DEF ArchiveInit, RunInit, PageComplete
  <2>2. ~ \E s \in FlagSlots : flagRows[s] > 0
    BY DEF ArchiveInit, RunInit
  <2> QED BY <2>1, <2>2, LifeInit DEF ArchiveInit, RunInit, IntakeInit, Life!LifeInit
<1>2. ArchiveTypeOK /\ LifeInv /\ [ArchiveNext]_archiveVars
        => LifeInv' /\ [Life!LifeNext]_(Life!lifeVars)
  <2> SUFFICES ASSUME ArchiveTypeOK, LifeInv, [ArchiveNext]_archiveVars
               PROVE  LifeInv' /\ (Life!LifeNext \/ UNCHANGED Life!lifeVars)
    OBVIOUS
  <2>1. CASE [Next]_vars
    BY <2>1, LifeNext, RefineNext DEF ArchiveTypeOK
  <2>2. CASE IntakeStep /\ UNCHANGED runVars
    BY <2>2, IntakeKeepsLife
  <2> QED BY <2>1, <2>2 DEF ArchiveNext, archiveVars
<1> QED BY <1>1, <1>2, ArchiveTypeInit, ArchiveTypeNext,
           PTL DEF ArchiveSpec, ImplementsLifecycle, Life!LifeSpec

-------------------------------------------------------------------------------
(* What the pipeline promises of the lock, the rows and the verdict, it keeps with the  *)
(* intake writing the same row beside it.                                              *)

RunsInv == LockInv /\ HeldInv /\ RowInv /\ LifeInv /\ SaidInv /\ VerdictInv

LEMMA RunsInit == ArchiveInit => RunsInv
<1> SUFFICES ASSUME RunInit, status \in {"uploaded", "enqueue_failed"} PROVE RunsInv
  BY DEF ArchiveInit, IntakeInit
<1>1. LockInv /\ HeldInv /\ RowInv
  BY DEF RunInit, LockInv, HeldInv, Held, RowInv, PageFlagged, InRun, RunSteps
<1>2. LifeInv /\ SaidInv
  BY LifeInit DEF SaidInv, Said
<1>3. \A w \in Workers : PagesBehind(w) = {}
  BY DEF RunInit, PagesBehind, PageSteps, RunSteps, Closing
<1>4. VerdictInv
  BY <1>3 DEF RunInit, VerdictInv, FlagsCounted, ReadyTakenBack, OcrSteps, AfterOcr
<1> QED BY <1>1, <1>2, <1>4 DEF RunsInv

\* The intake only says of a document that it is to be worked on.
LEMMA IntakeKeepsRuns ==
  ASSUME RunsInv, IntakeStep, UNCHANGED runVars
  PROVE  RunsInv'
<1>1. /\ UNCHANGED <<page, image, ocr, fullText, entityRows, flagRows, pc, cur, partial, flagged>>
      /\ UNCHANGED <<holds, loaded, broken, faults>>
  BY DEF runVars, dataVars, localVars, tallyVars
<1>2. status' = status \/ status' \in {"uploaded", "enqueue_failed"}
  BY IntakeFrame DEF IntakeTouches, CommitRow
<1>3. LockInv' /\ HeldInv' /\ RowInv'
  BY <1>1 DEF RunsInv, LockInv, LockKept, HeldInv, Held, RowInv, PageFlagged, InRun
<1>4. LifeInv'
  BY IntakeKeepsLife DEF RunsInv
<1>5. SaidInv'
  <2>1. \A a : Spoken(a)' = Spoken(a)
    BY <1>1 DEF Spoken, PageComplete
  <2> QED BY <1>1, <1>2, <2>1 DEF RunsInv, SaidInv, Said, Spoken, PageComplete
<1>6. VerdictInv'
  BY <1>1, <1>2 DEF RunsInv, VerdictInv, LockKept, FlagsCounted, ReadyTakenBack, PagesBehind, PageFlagged
<1> QED BY <1>3, <1>4, <1>5, <1>6 DEF RunsInv

LEMMA RunsNext == ArchiveTypeOK /\ RunsInv /\ [ArchiveNext]_archiveVars => RunsInv'
<1> SUFFICES ASSUME ArchiveTypeOK, RunsInv, [ArchiveNext]_archiveVars PROVE RunsInv'
  OBVIOUS
<1>1. CASE [Next]_vars
  <2>1. TypeOK
    BY DEF ArchiveTypeOK
  <2> QED BY <1>1, <2>1, LockNext, HeldNext, RowNext, LifeNext, SaidNext, VerdictNext
          DEF RunsInv, VerdictBase
<1>2. CASE IntakeStep /\ UNCHANGED runVars
  BY <1>2, IntakeKeepsRuns
<1> QED BY <1>1, <1>2 DEF ArchiveNext, archiveVars

LEMMA RunsAlways == ArchiveSpec => []RunsInv
BY RunsInit, RunsNext, ArchiveTypeInit, ArchiveTypeNext, PTL DEF ArchiveSpec

\* Reprocess calls and reconciliations publish jobs, however many: unless a connection is
\* replaced inside a run or a statement refused, one run at a time works on the document,
\* inserts each row once and gives the lock back.
THEOREM ArchiveLocked == ArchiveSpec => [](RunsExclusive /\ NoDuplicateRows /\ LockHeldOnlyInRun)
<1>1. RunsInv => RunsExclusive /\ NoDuplicateRows /\ LockHeldOnlyInRun
  BY DEF RunsInv, LockInv, RunsExclusive, RowInv, NoDuplicateRows, HeldInv, Held, LockHeldOnlyInRun
<1> QED BY <1>1, RunsAlways, PTL

\* A status reset under a run, or set back by a stale commit of the reconciliation, makes no
\* later verdict untrue.
THEOREM ArchiveVerdicts ==
  ArchiveSpec =>
    [](VerdictMeansComplete /\ OcrVerdictTruthful /\ ReviewVerdictTruthful /\ UnreadNeverReady)
<1>1. RunsInv => VerdictMeansComplete /\ OcrVerdictTruthful /\ UnreadNeverReady
  BY DEF RunsInv, SaidInv, Said, Spoken, VerdictMeansComplete, OcrVerdictTruthful, UnreadNeverReady
<1>2. RunsInv => ReviewVerdictTruthful
  BY DEF RunsInv, SaidInv, Said, Spoken, VerdictInv, ReviewVerdictTruthful
<1> QED BY <1>1, <1>2, RunsAlways, PTL
=============================================================================
