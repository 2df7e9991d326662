---------------------------- MODULE PipelineProofs ----------------------------
(* Proofs about DocumentPipeline, for every set of workers, layout and bound    *)
(* on the faults.                                                               *)
EXTENDS PipelineProperties, TLAPS

-------------------------------------------------------------------------------
(* What the helpers do to the types of the variables they assign. *)

LEMMA BumpType ==
  ASSUME NEW S, NEW f \in [S -> Nat], NEW x
  PROVE  [f EXCEPT ![x] = @ + 1] \in [S -> Nat]
<1> DEFINE g == [f EXCEPT ![x] = @ + 1]
<1>1. ASSUME NEW s \in S PROVE g[s] \in Nat
  <2>1. f[s] \in Nat
    OBVIOUS
  <2>2. CASE s = x
    BY <2>1, <2>2
  <2>3. CASE s # x
    BY <2>1, <2>3
  <2> QED BY <2>2, <2>3
<1>2. g = [s \in S |-> g[s]]
  OBVIOUS
<1> QED BY <1>1, <1>2

LEMMA ForgetType ==
  ASSUME NEW w \in Workers, TypeOK, Forget(w)
  PROVE  LocalTypeOK'
BY DEF TypeOK, LocalTypeOK, Forget, Status

LEMMA FaultType ==
  ASSUME NEW k \in FaultKinds, TypeOK, Fault(k)
  PROVE  faults' \in [FaultKinds -> Nat]
BY DEF TypeOK, Fault

LEMMA PublishType ==
  ASSUME NEW n \in Attempts, TypeOK, Publish(n)
  PROVE  jobs' \in [Attempts -> Nat]
BY DEF TypeOK, StoreTypeOK, Publish

LEMMA NextPageType ==
  ASSUME NEW w \in Workers, TypeOK, NextPage(w)
  PROVE  pc' \in [Workers -> Steps] /\ cur' \in [Workers -> Nat \X Nat]
<1>1. "page" \in Steps /\ "ocrDone" \in Steps
  BY DEF Steps, RunSteps
<1>2. pc \in [Workers -> Steps] /\ cur \in [Workers -> Nat \X Nat]
  BY DEF TypeOK, LocalTypeOK
<1>3. pc' \in [Workers -> Steps]
  BY <1>1, <1>2 DEF NextPage, Goto
<1>4. PICK place \in Nat \X Nat : cur' = cur \/ cur' = [cur EXCEPT ![w] = place]
  <2>1. cur[w] \in Nat \X Nat
    BY <1>2
  <2>2. <<cur[w][1] + 1, 1>> \in Nat \X Nat
    BY <2>1
  <2>3. cur' = cur \/ cur' = [cur EXCEPT ![w] = <<cur[w][1] + 1, 1>>]
    BY DEF NextPage
  <2> QED BY <2>2, <2>3
<1>5. cur' \in [Workers -> Nat \X Nat]
  BY <1>2, <1>4
<1> QED BY <1>3, <1>5

LEMMA NextRegionType ==
  ASSUME NEW w \in Workers, NEW s \in Steps, NEW t \in Steps, TypeOK, NextRegion(w, s, t)
  PROVE  pc' \in [Workers -> Steps] /\ cur' \in [Workers -> Nat \X Nat]
<1>1. pc \in [Workers -> Steps] /\ cur \in [Workers -> Nat \X Nat]
  BY DEF TypeOK, LocalTypeOK
<1>2. pc' \in [Workers -> Steps]
  BY <1>1 DEF NextRegion, Goto
<1>3. PICK place \in Nat \X Nat : cur' = [cur EXCEPT ![w] = place]
  <2>1. cur[w] \in Nat \X Nat
    BY <1>1
  <2>2. <<cur[w][1], cur[w][2] + 1>> \in Nat \X Nat /\ <<cur[w][1], 1>> \in Nat \X Nat
    BY <2>1
  <2>3. \/ cur' = [cur EXCEPT ![w] = <<cur[w][1], cur[w][2] + 1>>]
        \/ cur' = [cur EXCEPT ![w] = <<cur[w][1], 1>>]
    BY DEF NextRegion
  <2> QED BY <2>2, <2>3
<1>4. cur' \in [Workers -> Nat \X Nat]
  BY <1>1, <1>3
<1> QED BY <1>2, <1>4

-------------------------------------------------------------------------------
(* Type correctness *)

LEMMA RunTypeInit == RunInit /\ StoreTypeOK => TypeOK
<1> SUFFICES ASSUME RunInit, StoreTypeOK PROVE TypeOK
  OBVIOUS
<1>1. LocalTypeOK
  BY DEF RunInit, LocalTypeOK
<1> QED BY <1>1, MaxRetriesAssumption DEF RunInit, TypeOK, Attempts, OcrStatus, Steps

LEMMA TypeInit == Init => TypeOK
<1> SUFFICES ASSUME Init PROVE StoreTypeOK
  BY RunTypeInit DEF Init
<1> QED BY MaxRetriesAssumption DEF Init, StoreTypeOK, Attempts, Status

LEMMA AssignType ==
  ASSUME NEW w \in Workers, NEW s \in Status, TypeOK, AssignStatus(w, s)
  PROVE  status' \in Status /\ loaded' \in [Workers -> Status \cup {"expired"}]
BY DEF TypeOK, StoreTypeOK, LocalTypeOK, AssignStatus

LEMMA ReloadType ==
  ASSUME NEW w \in Workers, TypeOK, ReloadDocument(w)
  PROVE  loaded' \in [Workers -> Status \cup {"expired"}]
BY DEF TypeOK, StoreTypeOK, LocalTypeOK, ReloadDocument

LEMMA TypeNext == TypeOK /\ [Next]_vars => TypeOK'
<1> SUFFICES ASSUME TypeOK, [Next]_vars PROVE TypeOK'
  OBVIOUS
<1>1. CASE UNCHANGED vars
  BY <1>1 DEF TypeOK, StoreTypeOK, LocalTypeOK, vars
<1>2. ASSUME NEW w \in Workers, WorkerStep(w) \/ FaultStep(w) PROVE TypeOK'
  <2>1. CASE Receive(w)
    <3>1. jobs' \in [Attempts -> Nat]
      BY <2>1 DEF Receive, TypeOK, StoreTypeOK, Take
    <3>2. job' \in [Workers -> Attempts]
      BY <2>1 DEF Receive, TypeOK
    <3>3. pc' \in [Workers -> Steps]
      BY <2>1 DEF Receive, TypeOK, Goto, Steps, RunSteps
    <3> QED
      BY <2>1, <3>1, <3>2, <3>3
      DEF TypeOK, StoreTypeOK, LocalTypeOK, Receive, storeVars, dataVars, controlVars, jobVars, tallyVars, localVars
  <2>2. CASE LoadDocument(w)
    <3>1. loaded' \in [Workers -> Status \cup {"expired"}]
      BY <2>2, ReloadType DEF LoadDocument
    <3>2. pc' \in [Workers -> Steps]
      BY <2>2 DEF LoadDocument, TypeOK, Goto, Steps, RunSteps
    <3> QED
      BY <2>2, <3>1, <3>2
      DEF TypeOK, StoreTypeOK, LocalTypeOK, LoadDocument, storeVars, dataVars, controlVars, jobVars, tallyVars, localVars
  <2>3. CASE AcquireLock(w)
    <3>1. holds' \in [Workers -> Nat]
      BY <2>3 DEF AcquireLock, TypeOK
    <3>2. pc' \in [Workers -> Steps]
      BY <2>3 DEF AcquireLock, TypeOK, Goto, Steps, RunSteps
    <3> QED
      BY <2>3, <3>1, <3>2
      DEF TypeOK, StoreTypeOK, LocalTypeOK, AcquireLock, storeVars, dataVars, controlVars, jobVars, tallyVars, localVars
  <2>4. CASE LockTimeout(w)
    <3>1. pc' \in [Workers -> Steps]
      BY <2>4 DEF LockTimeout, TypeOK, Goto, Steps, RunSteps
    <3> QED
      BY <2>4, <3>1
      DEF TypeOK, StoreTypeOK, LocalTypeOK, LockTimeout, storeVars, dataVars, controlVars, jobVars, tallyVars, localVars
  <2>5. CASE Start(w)
    <3>1. status' \in Status /\ loaded' \in [Workers -> Status \cup {"expired"}]
      BY <2>5, AssignType DEF Start, TypeOK, StoreTypeOK, LocalTypeOK, Status
    <3>2. failed' \in [Workers -> BOOLEAN]
      BY <2>5 DEF Start, TypeOK, LocalTypeOK
    <3>3. pc' \in [Workers -> Steps]
      BY <2>5 DEF Start, TypeOK, Goto, Steps, RunSteps
    <3> QED
      BY <2>5, <3>1, <3>2, <3>3
      DEF TypeOK, StoreTypeOK, LocalTypeOK, Start, storeVars, dataVars, controlVars, jobVars, tallyVars, localVars
  <2>6. CASE EnsurePage(w)
    <3>1. pc' \in [Workers -> Steps]
      BY <2>6 DEF EnsurePage, TypeOK, Goto, Steps, RunSteps
    <3> QED
      BY <2>6, <3>1
      DEF TypeOK, StoreTypeOK, LocalTypeOK, EnsurePage, storeVars, dataVars, controlVars, jobVars, tallyVars, localVars
  <2>7. CASE InsertPage(w)
    <3>1. page' \in [Pages -> BOOLEAN]
      BY <2>7 DEF InsertPage, TypeOK
    <3>2. pc' \in [Workers -> Steps]
      BY <2>7 DEF InsertPage, TypeOK, Goto, Steps, RunSteps
    <3> QED
      BY <2>7, <3>1, <3>2
      DEF TypeOK, StoreTypeOK, LocalTypeOK, InsertPage, storeVars, dataVars, controlVars, jobVars, tallyVars, localVars
  <2>8. CASE PersistImage(w)
    <3>1. image' \in [Pages -> BOOLEAN]
      BY <2>8 DEF PersistImage, TypeOK
    <3>2. pc' \in [Workers -> Steps]
      BY <2>8 DEF PersistImage, TypeOK, Goto, Steps, RunSteps
    <3>3. loaded' \in [Workers -> Status \cup {"expired"}]
      BY <2>8 DEF PersistImage, TypeOK, LocalTypeOK
    <3> QED
      BY <2>8, <3>1, <3>2, <3>3
      DEF TypeOK, StoreTypeOK, LocalTypeOK, PersistImage, storeVars, dataVars, controlVars, jobVars, tallyVars, localVars
  <2>9. CASE EmptyLayout(w)
    <3>1. flagged' \in [Workers -> BOOLEAN]
      BY <2>9 DEF EmptyLayout, TypeOK, LocalTypeOK
    <3>2. pc' \in [Workers -> Steps] /\ cur' \in [Workers -> Nat \X Nat]
      BY <2>9, NextPageType DEF EmptyLayout, TypeOK, LocalTypeOK, Goto, Steps, RunSteps
    <3>3. loaded' \in [Workers -> Status \cup {"expired"}]
      BY <2>9, ReloadType DEF EmptyLayout, TypeOK, LocalTypeOK
    <3> QED
      BY <2>9, <3>1, <3>2, <3>3
      DEF TypeOK, StoreTypeOK, LocalTypeOK, EmptyLayout, storeVars, dataVars, controlVars, jobVars, tallyVars, localVars
  <2>10. CASE InsertEmptyFlag(w)
    <3>1. flagged' \in [Workers -> BOOLEAN]
      BY <2>10 DEF InsertEmptyFlag, TypeOK, LocalTypeOK
    <3>2. flagRows' \in [FlagSlots -> Nat]
      <4>1. flagRows' = [flagRows EXCEPT ![<<cur[w][1], 0>>] = @ + 1]
        BY <2>10 DEF InsertEmptyFlag
      <4> QED BY <4>1, BumpType DEF TypeOK
    <3>3. pc' \in [Workers -> Steps] /\ cur' \in [Workers -> Nat \X Nat]
      BY <2>10, NextPageType DEF InsertEmptyFlag
    <3> QED
      BY <2>10, <3>1, <3>2, <3>3
      DEF TypeOK, StoreTypeOK, LocalTypeOK, InsertEmptyFlag, storeVars, dataVars, controlVars, jobVars, tallyVars, localVars
  <2>11. CASE OcrRunning(w)
    <3>1. status' \in Status /\ loaded' \in [Workers -> Status \cup {"expired"}]
      BY <2>11, AssignType DEF OcrRunning, CommitStatus, Status
    <3>2. pc' \in [Workers -> Steps]
      BY <2>11 DEF OcrRunning, TypeOK, Goto, Steps, RunSteps, CommitStatus
    <3> QED
      BY <2>11, <3>1, <3>2
      DEF TypeOK, StoreTypeOK, LocalTypeOK, OcrRunning, CommitStatus, storeVars, dataVars, controlVars, jobVars, tallyVars, localVars
  <2>12. CASE Extracting(w)
    <3>1. status' \in Status /\ loaded' \in [Workers -> Status \cup {"expired"}]
      BY <2>12, AssignType DEF Extracting, CommitStatus, Status
    <3>2. pc' \in [Workers -> Steps]
      BY <2>12 DEF Extracting, TypeOK, Goto, Steps, RunSteps, CommitStatus
    <3> QED
      BY <2>12, <3>1, <3>2
      DEF TypeOK, StoreTypeOK, LocalTypeOK, Extracting, CommitStatus, storeVars, dataVars, controlVars, jobVars, tallyVars, localVars
  <2>13. CASE FinishOcr(w)
    <3>1. status' \in Status /\ loaded' \in [Workers -> Status \cup {"expired"}]
      BY <2>13, AssignType DEF FinishOcr, CommitStatus, Status
    <3>2. pc' \in [Workers -> Steps]
      BY <2>13 DEF FinishOcr, TypeOK, Goto, Steps, RunSteps, CommitStatus
    <3> QED
      BY <2>13, <3>1, <3>2
      DEF TypeOK, StoreTypeOK, LocalTypeOK, FinishOcr, CommitStatus, storeVars, dataVars, controlVars, jobVars, tallyVars, localVars
  <2>14. CASE FinishIndex(w)
    <3>1. status' \in Status /\ loaded' \in [Workers -> Status \cup {"expired"}]
      BY <2>14, AssignType DEF FinishIndex, CommitStatus, Status
    <3>2. pc' \in [Workers -> Steps]
      BY <2>14 DEF FinishIndex, TypeOK, Goto, Steps, RunSteps, CommitStatus
    <3> QED
      BY <2>14, <3>1, <3>2
      DEF TypeOK, StoreTypeOK, LocalTypeOK, FinishIndex, CommitStatus, storeVars, dataVars, controlVars, jobVars, tallyVars, localVars
  <2>15. CASE FinishReview(w)
    <3>1. status' \in Status /\ loaded' \in [Workers -> Status \cup {"expired"}]
      BY <2>15, AssignType DEF FinishReview, CommitStatus, Status
    <3>2. pc' \in [Workers -> Steps]
      BY <2>15 DEF FinishReview, TypeOK, Goto, Steps, RunSteps, CommitStatus
    <3> QED
      BY <2>15, <3>1, <3>2
      DEF TypeOK, StoreTypeOK, LocalTypeOK, FinishReview, CommitStatus, storeVars, dataVars, controlVars, jobVars, tallyVars, localVars
  <2>16. CASE OcrRegion(w)
    <3>1. partial' \in [Workers -> BOOLEAN]
      BY <2>16 DEF OcrRegion, TypeOK, LocalTypeOK
    <3>2. pc' \in [Workers -> Steps] /\ cur' \in [Workers -> Nat \X Nat]
      BY <2>16, NextRegionType DEF OcrRegion, Steps, RunSteps, TypeOK, LocalTypeOK, Goto
    <3> QED
      BY <2>16, <3>1, <3>2
      DEF TypeOK, StoreTypeOK, LocalTypeOK, OcrRegion, storeVars, dataVars, controlVars, jobVars, tallyVars, localVars
  <2>17. CASE InsertOcr(w)
    <3>1. ocr' \in [Regions -> OcrStatus \cup {"none"}]
      BY <2>17 DEF InsertOcr, TypeOK
    <3>2. fresh' \in [Workers -> SUBSET (Nat \X Nat)]
      <4>1. fresh \in [Workers -> SUBSET (Nat \X Nat)] /\ cur[w] \in Nat \X Nat
        BY DEF TypeOK, LocalTypeOK
      <4>2. \/ fresh' = [fresh EXCEPT ![w] = @ \cup {cur[w]}]
            \/ fresh' = fresh
        BY <2>17 DEF InsertOcr
      <4> QED BY <4>1, <4>2
    <3>3. partial' \in [Workers -> BOOLEAN]
      <4>1. CASE ocr[cur[w]] = "none"
        BY <2>17, <4>1 DEF InsertOcr, TypeOK, LocalTypeOK
      <4>2. CASE ocr[cur[w]] # "none"
        BY <2>17, <4>2 DEF InsertOcr, TypeOK, LocalTypeOK
      <4> QED BY <4>1, <4>2
    <3>4. pc' \in [Workers -> Steps] /\ cur' \in [Workers -> Nat \X Nat]
      BY <2>17, NextRegionType DEF InsertOcr, Steps, RunSteps
    <3> QED
      BY <2>17, <3>1, <3>2, <3>3, <3>4
      DEF TypeOK, StoreTypeOK, LocalTypeOK, InsertOcr, storeVars, dataVars, controlVars, jobVars, tallyVars, localVars
  <2>18. CASE ExtractRegion(w)
    <3>1. pc' \in [Workers -> Steps] /\ cur' \in [Workers -> Nat \X Nat]
      BY <2>18, NextRegionType DEF ExtractRegion, Steps, RunSteps, TypeOK, LocalTypeOK, Goto
    <3> QED
      BY <2>18, <3>1
      DEF TypeOK, StoreTypeOK, LocalTypeOK, ExtractRegion, storeVars, dataVars, controlVars, jobVars, tallyVars, localVars
  <2>19. CASE InsertEntities(w)
    <3>1. entityRows' \in [Regions -> Nat]
      <4>1. \/ entityRows' = [entityRows EXCEPT ![cur[w]] = @ + 1]
            \/ entityRows' = entityRows
        BY <2>19 DEF InsertEntities, TypeOK
      <4> QED BY <4>1, BumpType DEF TypeOK
    <3>2. pc' \in [Workers -> Steps] /\ cur' \in [Workers -> Nat \X Nat]
      BY <2>19, NextRegionType DEF InsertEntities, Steps, RunSteps
    <3> QED
      BY <2>19, <3>1, <3>2
      DEF TypeOK, StoreTypeOK, LocalTypeOK, InsertEntities, storeVars, dataVars, controlVars, jobVars, tallyVars, localVars
  <2>20. CASE UpdateFullText(w)
    <3>1. fullText' \in [Pages -> BOOLEAN]
      BY <2>20 DEF UpdateFullText, TypeOK
    <3>2. pc' \in [Workers -> Steps]
      BY <2>20 DEF UpdateFullText, TypeOK, Goto, Steps, RunSteps
    <3> QED
      BY <2>20, <3>1, <3>2
      DEF TypeOK, StoreTypeOK, LocalTypeOK, UpdateFullText, storeVars, dataVars, controlVars, jobVars, tallyVars, localVars
  <2>21. CASE AnomalyStage(w)
    <3>1. flagged' \in [Workers -> BOOLEAN]
      BY <2>21 DEF AnomalyStage, TypeOK, LocalTypeOK
    <3>2. pc' \in [Workers -> Steps] /\ cur' \in [Workers -> Nat \X Nat]
      BY <2>21, NextPageType DEF AnomalyStage, TypeOK, LocalTypeOK, Goto, Steps, RunSteps
    <3>3. loaded' \in [Workers -> Status \cup {"expired"}]
      BY <2>21, ReloadType DEF AnomalyStage, TypeOK, LocalTypeOK
    <3> QED
      BY <2>21, <3>1, <3>2, <3>3
      DEF TypeOK, StoreTypeOK, LocalTypeOK, AnomalyStage, storeVars, dataVars, controlVars, jobVars, tallyVars, localVars
  <2>22. CASE InsertFlags(w)
    <3>1. flagged' \in [Workers -> BOOLEAN]
      BY <2>22 DEF InsertFlags, TypeOK, LocalTypeOK
    <3>2. flagRows' \in [FlagSlots -> Nat]
      BY <2>22 DEF InsertFlags, TypeOK
    <3>3. pc' \in [Workers -> Steps] /\ cur' \in [Workers -> Nat \X Nat]
      BY <2>22, NextPageType DEF InsertFlags
    <3> QED
      BY <2>22, <3>1, <3>2, <3>3
      DEF TypeOK, StoreTypeOK, LocalTypeOK, InsertFlags, storeVars, dataVars, controlVars, jobVars, tallyVars, localVars
  <2>23. CASE Release(w)
    <3>1. holds' \in [Workers -> Nat]
      BY <2>23 DEF Release, TypeOK, Unlock
    <3>2. pc' \in [Workers -> Steps]
      BY <2>23 DEF Release, TypeOK, Goto, Steps, RunSteps
    <3>3. LocalTypeOK'
      BY <2>23, ForgetType DEF Release, TypeOK, LocalTypeOK, localVars, tallyVars
    <3> QED
      BY <2>23, <3>1, <3>2, <3>3
      DEF TypeOK, StoreTypeOK, LocalTypeOK, Release, storeVars, dataVars, controlVars, jobVars, tallyVars, localVars
  <2>24. CASE Retry(w)
    <3>1. jobs' \in [Attempts -> Nat]
      BY <2>24, PublishType, MaxRetriesAssumption DEF Retry, TypeOK, StoreTypeOK, Attempts, Publish
    <3>2. pc' \in [Workers -> Steps]
      BY <2>24 DEF Retry, TypeOK, Goto, Steps, RunSteps
    <3>3. LocalTypeOK'
      BY <2>24, ForgetType DEF Retry, TypeOK, LocalTypeOK, localVars, tallyVars
    <3> QED
      BY <2>24, <3>1, <3>2, <3>3
      DEF TypeOK, StoreTypeOK, LocalTypeOK, Retry, storeVars, dataVars, controlVars, jobVars, tallyVars, localVars
  <2>25. CASE MarkError(w)
    <3>1. status' \in Status
      BY <2>25 DEF MarkError, SetStatus, Status
    <3>2. errorMessage' \in BOOLEAN
      BY <2>25 DEF MarkError
    <3>3. pc' \in [Workers -> Steps]
      BY <2>25 DEF MarkError, TypeOK, Goto, Steps, RunSteps
    <3>4. LocalTypeOK'
      BY <2>25, ForgetType DEF MarkError
    <3> QED
      BY <2>25, <3>1, <3>2, <3>3, <3>4
      DEF TypeOK, StoreTypeOK, LocalTypeOK, MarkError, storeVars, dataVars, controlVars, jobVars, tallyVars, localVars
  <2>26. CASE RunRaises(w)
    <3>1. faults' \in [FaultKinds -> Nat]
      BY <2>26 DEF RunRaises, TypeOK, RaiseClean, RaiseSql, RaiseDisconnect, Fault, FaultKinds
    <3>2. holds' \in [Workers -> Nat]
      BY <2>26 DEF RunRaises, TypeOK, RaiseClean, RaiseSql, RaiseDisconnect
    <3>3. failed' \in [Workers -> BOOLEAN]
      BY <2>26 DEF RunRaises, TypeOK, LocalTypeOK, RaiseClean, RaiseSql, RaiseDisconnect
    <3>4. broken' \in [Workers -> BOOLEAN]
      BY <2>26 DEF RunRaises, TypeOK, LocalTypeOK, RaiseClean, RaiseSql, RaiseDisconnect
    <3>5. pc' \in [Workers -> Steps]
      BY <2>26 DEF RunRaises, TypeOK, Goto, Steps, RunSteps
    <3> QED
      BY <2>26, <3>1, <3>2, <3>3, <3>4, <3>5
      DEF TypeOK, StoreTypeOK, LocalTypeOK, RunRaises, storeVars, dataVars, controlVars, jobVars, tallyVars, localVars
  <2>27. CASE SoftLimitInOcr(w)
    <3>1. faults' \in [FaultKinds -> Nat]
      BY <2>27 DEF SoftLimitInOcr, TypeOK, Fault, FaultKinds
    <3>2. swallowed' \in [Workers -> BOOLEAN]
      BY <2>27 DEF SoftLimitInOcr, TypeOK, LocalTypeOK
    <3> QED
      BY <2>27, <3>1, <3>2
      DEF TypeOK, StoreTypeOK, LocalTypeOK, SoftLimitInOcr, storeVars, dataVars, controlVars, jobVars, tallyVars, localVars
  <2>28. CASE HardTimeLimit(w)
    <3>1. faults' \in [FaultKinds -> Nat]
      BY <2>28 DEF HardTimeLimit, TypeOK, Fault, FaultKinds
    <3>2. holds' \in [Workers -> Nat]
      BY <2>28 DEF HardTimeLimit, TypeOK, Die
    <3>3. pc' \in [Workers -> Steps]
      BY <2>28 DEF HardTimeLimit, TypeOK, Goto, Steps, RunSteps, Die
    <3>4. LocalTypeOK'
      BY <2>28, ForgetType DEF HardTimeLimit, Die
    <3> QED
      BY <2>28, <3>1, <3>2, <3>3, <3>4
      DEF TypeOK, StoreTypeOK, LocalTypeOK, HardTimeLimit, Die, storeVars, dataVars, controlVars, jobVars, tallyVars, localVars
  <2>29. CASE WorkerLost(w)
    <3>1. faults' \in [FaultKinds -> Nat]
      BY <2>29 DEF WorkerLost, TypeOK, Fault, FaultKinds
    <3>2. jobs' \in [Attempts -> Nat]
      BY <2>29 DEF WorkerLost, TypeOK, StoreTypeOK, Publish
    <3>3. holds' \in [Workers -> Nat]
      BY <2>29 DEF WorkerLost, TypeOK, Die
    <3>4. pc' \in [Workers -> Steps]
      BY <2>29 DEF WorkerLost, TypeOK, Goto, Steps, RunSteps, Die
    <3>5. LocalTypeOK'
      BY <2>29, ForgetType DEF WorkerLost, Die
    <3> QED
      BY <2>29, <3>1, <3>2, <3>3, <3>4, <3>5
      DEF TypeOK, StoreTypeOK, LocalTypeOK, WorkerLost, Die, storeVars, dataVars, controlVars, jobVars, tallyVars, localVars
  <2>30. CASE Redeliver(w)
    <3>1. faults' \in [FaultKinds -> Nat]
      BY <2>30 DEF Redeliver, TypeOK, Fault, FaultKinds
    <3>2. jobs' \in [Attempts -> Nat]
      BY <2>30 DEF Redeliver, TypeOK, StoreTypeOK, Publish
    <3> QED
      BY <2>30, <3>1, <3>2
      DEF TypeOK, StoreTypeOK, LocalTypeOK, Redeliver, storeVars, dataVars, controlVars, jobVars, tallyVars, localVars
  <2>31. CASE RetryNotPublished(w)
    <3>1. faults' \in [FaultKinds -> Nat]
      BY <2>31 DEF RetryNotPublished, TypeOK, Fault, FaultKinds
    <3>2. pc' \in [Workers -> Steps]
      BY <2>31 DEF RetryNotPublished, TypeOK, Goto, Steps, RunSteps
    <3>3. LocalTypeOK'
      BY <2>31, ForgetType DEF RetryNotPublished
    <3> QED
      BY <2>31, <3>1, <3>2, <3>3
      DEF TypeOK, StoreTypeOK, LocalTypeOK, RetryNotPublished, storeVars, dataVars, controlVars, jobVars, tallyVars, localVars
  <2>32. CASE ErrorNotMarked(w)
    <3>1. faults' \in [FaultKinds -> Nat]
      BY <2>32 DEF ErrorNotMarked, TypeOK, Fault, FaultKinds
    <3>2. pc' \in [Workers -> Steps]
      BY <2>32 DEF ErrorNotMarked, TypeOK, Goto, Steps, RunSteps
    <3>3. LocalTypeOK'
      BY <2>32, ForgetType DEF ErrorNotMarked
    <3> QED
      BY <2>32, <3>1, <3>2, <3>3
      DEF TypeOK, StoreTypeOK, LocalTypeOK, ErrorNotMarked, storeVars, dataVars, controlVars, jobVars, tallyVars, localVars
  <2>33. CASE LockLost(w)
    <3>1. faults' \in [FaultKinds -> Nat]
      BY <2>33 DEF LockLost, TypeOK, Fault, FaultKinds
    <3>2. holds' \in [Workers -> Nat]
      BY <2>33 DEF LockLost, TypeOK
    <3> QED
      BY <2>33, <3>1, <3>2
      DEF TypeOK, StoreTypeOK, LocalTypeOK, LockLost, storeVars, dataVars, controlVars, jobVars, tallyVars, localVars
  <2>34. CASE Recycle(w)
    <3>1. faults' \in [FaultKinds -> Nat]
      BY <2>34 DEF Recycle, TypeOK, Fault, FaultKinds
    <3>2. holds' \in [Workers -> Nat]
      BY <2>34 DEF Recycle, TypeOK
    <3> QED
      BY <2>34, <3>1, <3>2
      DEF TypeOK, StoreTypeOK, LocalTypeOK, Recycle, storeVars, dataVars, controlVars, jobVars, tallyVars, localVars
  <2> QED
    BY <1>2, <2>1, <2>2, <2>3, <2>4, <2>5, <2>6, <2>7, <2>8, <2>9, <2>10, <2>11, <2>12, <2>13, <2>14, <2>15, <2>16, <2>17, <2>18, <2>19, <2>20, <2>21, <2>22, <2>23, <2>24, <2>25, <2>26, <2>27, <2>28, <2>29, <2>30, <2>31, <2>32, <2>33, <2>34
    DEF WorkerStep, FaultStep, RunStep
<1> QED BY <1>1, <1>2 DEF Next

\* Every variable keeps its type, however many workers run and whatever fails.
THEOREM TypeCorrect == Spec => []TypeOK
<1> QED BY TypeInit, TypeNext, PTL DEF Spec

-------------------------------------------------------------------------------
(* Nobody forgets an unfinished document *)

LEMMA ExpiredInit == RunInit => ExpiredInv
BY DEF RunInit, ExpiredInv

\* Of the steps that lead to one of the last two commits, each has just committed.
LEMMA ExpiredNext == TypeOK /\ ExpiredInv /\ [Next]_vars => ExpiredInv'
<1> SUFFICES ASSUME TypeOK, ExpiredInv, [Next]_vars PROVE ExpiredInv'
  OBVIOUS
<1>t. /\ pc \in [Workers -> Steps]
      /\ loaded \in [Workers -> Status \cup {"expired"}]
  BY DEF TypeOK, LocalTypeOK
<1>1. CASE UNCHANGED vars
  BY <1>1 DEF ExpiredInv, vars
<1>2. ASSUME NEW w \in Workers, WorkerStep(w) \/ FaultStep(w) PROVE ExpiredInv'
  <2>1. \A v \in Workers \ {w} : pc'[v] = pc[v] /\ loaded'[v] = loaded[v]
    BY <1>2, <1>t
    DEF WorkerStep, FaultStep, RunStep, Receive, LoadDocument, AcquireLock, LockTimeout,
      Start, EnsurePage, InsertPage, PersistImage, EmptyLayout, InsertEmptyFlag,
      OcrRunning, OcrRegion, InsertOcr, Extracting, ExtractRegion, InsertEntities,
      UpdateFullText, AnomalyStage, InsertFlags, FinishOcr, FinishIndex, FinishReview,
      CommitStatus, Release, Retry, MarkError, RunRaises, SoftLimitInOcr, HardTimeLimit,
      WorkerLost, Redeliver, RetryNotPublished, ErrorNotMarked, LockLost, Recycle, Die,
      Goto, Forget, AssignStatus, ReloadDocument, NextPage, NextRegion, localVars,
      controlVars, jobVars
  <2>2. \/ pc'[w] \notin {"indexed", "final"}
        \/ loaded'[w] = "expired"
        \/ pc'[w] = pc[w] /\ loaded'[w] = loaded[w]
    BY <1>2, <1>t
    DEF WorkerStep, FaultStep, RunStep, Receive, LoadDocument, AcquireLock, LockTimeout,
      Start, EnsurePage, InsertPage, PersistImage, EmptyLayout, InsertEmptyFlag,
      OcrRunning, OcrRegion, InsertOcr, Extracting, ExtractRegion, InsertEntities,
      UpdateFullText, AnomalyStage, InsertFlags, FinishOcr, FinishIndex, FinishReview,
      CommitStatus, Release, Retry, MarkError, RunRaises, SoftLimitInOcr, HardTimeLimit,
      WorkerLost, Redeliver, RetryNotPublished, ErrorNotMarked, LockLost, Recycle, Die,
      Goto, Forget, AssignStatus, ReloadDocument, NextPage, NextRegion, localVars,
      controlVars, jobVars
  <2> QED BY <2>1, <2>2 DEF ExpiredInv
<1> QED BY <1>1, <1>2 DEF Next

LEMMA OutstandingInit == Init => OutstandingWork
<1> SUFFICES ASSUME Init PROVE ~NoJobWaiting
  BY DEF OutstandingWork
<1>1. 0 \in Attempts
  BY MaxRetriesAssumption DEF Attempts
<1> QED BY <1>1 DEF Init, RunInit, NoJobWaiting

\* A worker that keeps the job in hand, or that has just put it back, is enough.
LEMMA KeepsJob ==
  ASSUME NEW w \in Workers, pc'[w] \notin {"idle", "release"}
  PROVE  OutstandingWork'
<1>1. Obliged(w)'
  BY DEF Obliged
<1> QED BY <1>1 DEF OutstandingWork

LEMMA PutsJobBack ==
  ASSUME NEW n \in Attempts, TypeOK, Publish(n)
  PROVE  OutstandingWork'
<1>1. jobs'[n] = jobs[n] + 1 /\ jobs[n] \in Nat
  BY DEF TypeOK, StoreTypeOK, Publish
<1>2. jobs'[n] # 0
  BY <1>1
<1> QED BY <1>2 DEF OutstandingWork, NoJobWaiting

LEMMA DropsJob ==
  ASSUME NEW k \in {"hardLimit", "retryNotPublished", "errorNotMarked"}, TypeOK, Fault(k)
  PROVE  OutstandingWork'
<1>1. {"hardLimit", "retryNotPublished", "errorNotMarked"} \subseteq FaultKinds
  BY DEF FaultKinds
<1>2. faults \in [FaultKinds -> Nat]
  BY DEF TypeOK
<1>3. JobDropped'
  BY <1>1, <1>2 DEF Fault, JobDropped
<1> QED BY <1>3 DEF OutstandingWork

\* A step that takes nothing away from the broker, the status, the record of dropped
\* jobs and the obliged workers.
LEMMA StaysOutstanding ==
  ASSUME OutstandingWork, UNCHANGED <<status, jobs>>,
         JobDropped => JobDropped',
         \A v \in Workers : Obliged(v) => Obliged(v)'
  PROVE  OutstandingWork'
BY DEF OutstandingWork, NoJobWaiting

LEMMA OutstandingNext == TypeOK /\ ExpiredInv /\ OutstandingWork /\ [Next]_vars => OutstandingWork'
<1> SUFFICES ASSUME TypeOK, ExpiredInv, OutstandingWork, [Next]_vars PROVE OutstandingWork'
  OBVIOUS
<1> USE DEF At
<1>t. pc \in [Workers -> Steps] /\ failed \in [Workers -> BOOLEAN] /\ job \in [Workers -> Attempts]
  BY DEF TypeOK, LocalTypeOK
<1>1. CASE UNCHANGED vars
  BY <1>1, StaysOutstanding DEF vars, JobDropped, Obliged
<1>2. ASSUME NEW w \in Workers, WorkerStep(w) \/ FaultStep(w) PROVE OutstandingWork'
  <2>1. CASE Receive(w)
    BY <2>1, <1>t, KeepsJob DEF Receive, Goto
  <2>2. CASE LoadDocument(w)
    BY <2>2, <1>t, KeepsJob DEF LoadDocument, Goto
  <2>3. CASE AcquireLock(w)
    BY <2>3, <1>t, KeepsJob DEF AcquireLock, Goto
  <2>4. CASE LockTimeout(w)
    BY <2>4, <1>t, KeepsJob DEF LockTimeout, Goto
  <2>5. CASE EnsurePage(w)
    BY <2>5, <1>t, KeepsJob DEF EnsurePage, Goto
  <2>6. CASE InsertPage(w)
    BY <2>6, <1>t, KeepsJob DEF InsertPage, Goto
  <2>7. CASE PersistImage(w)
    BY <2>7, <1>t, KeepsJob DEF PersistImage, Goto
  <2>8. CASE EmptyLayout(w)
    BY <2>8, <1>t, KeepsJob DEF EmptyLayout, Goto, NextPage
  <2>9. CASE InsertEmptyFlag(w)
    BY <2>9, <1>t, KeepsJob DEF InsertEmptyFlag, Goto, NextPage
  <2>10. CASE OcrRunning(w)
    BY <2>10, <1>t, KeepsJob DEF OcrRunning, Goto, CommitStatus
  <2>11. CASE OcrRegion(w)
    BY <2>11, <1>t, KeepsJob DEF OcrRegion, Goto, NextRegion
  <2>12. CASE InsertOcr(w)
    BY <2>12, <1>t, KeepsJob DEF InsertOcr, Goto, NextRegion
  <2>13. CASE Extracting(w)
    BY <2>13, <1>t, KeepsJob DEF Extracting, Goto, CommitStatus
  <2>14. CASE ExtractRegion(w)
    BY <2>14, <1>t, KeepsJob DEF ExtractRegion, Goto, NextRegion
  <2>15. CASE InsertEntities(w)
    BY <2>15, <1>t, KeepsJob DEF InsertEntities, Goto, NextRegion
  <2>16. CASE UpdateFullText(w)
    BY <2>16, <1>t, KeepsJob DEF UpdateFullText, Goto
  <2>17. CASE AnomalyStage(w)
    BY <2>17, <1>t, KeepsJob DEF AnomalyStage, Goto, NextPage
  <2>18. CASE InsertFlags(w)
    BY <2>18, <1>t, KeepsJob DEF InsertFlags, Goto, NextPage
  <2>19. CASE FinishOcr(w)
    BY <2>19, <1>t, KeepsJob DEF FinishOcr, Goto, CommitStatus
  <2>20. CASE FinishIndex(w)
    BY <2>20, <1>t, KeepsJob DEF FinishIndex, Goto, CommitStatus
  <2>21. CASE Start(w)
    <3>1. CASE NumPages = 0
      <4>1. Obliged(w)'
        BY <2>21, <3>1, <1>t DEF Start, Goto, Obliged
      <4> QED BY <4>1 DEF OutstandingWork
    <3>2. CASE NumPages # 0
      BY <2>21, <3>2, <1>t, KeepsJob DEF Start, Goto
    <3> QED BY <3>1, <3>2
  <2>22. CASE FinishReview(w)
    <3>1. loaded[w] = "expired"
      BY <2>22 DEF FinishReview, CommitStatus, At, ExpiredInv
    <3>2. status' \in Terminal
      BY <2>22, <3>1 DEF FinishReview, CommitStatus, AssignStatus, Terminal
    <3> QED BY <3>2 DEF OutstandingWork
  <2>23. CASE Release(w)
    <3>1. CASE failed[w]
      BY <2>23, <3>1, <1>t, KeepsJob DEF Release, Goto
    <3>2. CASE ~failed[w]
      <4>1. UNCHANGED <<status, jobs>> /\ (JobDropped => JobDropped')
        BY <2>23 DEF Release, storeVars, JobDropped
      <4>2. ASSUME NEW v \in Workers, Obliged(v) PROVE Obliged(v)'
        <5>1. v # w
          BY <2>23, <3>2, <4>2 DEF Release, Obliged
        <5>2. pc'[v] = pc[v] /\ failed'[v] = failed[v]
          BY <2>23, <3>2, <5>1, <1>t DEF Release, Goto, Forget
        <5> QED BY <4>2, <5>2 DEF Obliged
      <4> QED BY <4>1, <4>2, StaysOutstanding
    <3> QED BY <3>1, <3>2
  <2>24. CASE Retry(w)
    <3>1. CASE job[w] >= MaxRetries
      BY <2>24, <3>1, <1>t, KeepsJob DEF Retry, Goto
    <3>2. CASE ~(job[w] >= MaxRetries)
      <4>1. job[w] + 1 \in Attempts
        BY <3>2, <1>t, MaxRetriesAssumption DEF Attempts
      <4> QED BY <2>24, <3>2, <4>1, PutsJobBack DEF Retry
    <3> QED BY <3>1, <3>2
  <2>25. CASE MarkError(w)
    BY <2>25 DEF MarkError, SetStatus, Terminal, OutstandingWork
  <2>26. CASE RunRaises(w)
    <3>1. CASE InRun(w)
      <4>1. Obliged(w)'
        BY <2>26, <3>1, <1>t DEF RunRaises, RaiseClean, RaiseSql, RaiseDisconnect, Goto, Obliged
      <4> QED BY <4>1 DEF OutstandingWork
    <3>2. CASE ~InRun(w)
      BY <2>26, <3>2, <1>t, KeepsJob DEF RunRaises, Goto
    <3> QED BY <3>1, <3>2
  <2>27. CASE SoftLimitInOcr(w)
    BY <2>27, <1>t, KeepsJob DEF SoftLimitInOcr
  <2>28. CASE HardTimeLimit(w)
    BY <2>28, DropsJob DEF HardTimeLimit
  <2>29. CASE RetryNotPublished(w)
    BY <2>29, DropsJob DEF RetryNotPublished
  <2>30. CASE ErrorNotMarked(w)
    BY <2>30, DropsJob DEF ErrorNotMarked
  <2>31. CASE WorkerLost(w)
    BY <2>31, <1>t, PutsJobBack DEF WorkerLost
  <2>32. CASE Redeliver(w)
    BY <2>32, <1>t, PutsJobBack DEF Redeliver
  <2>33. CASE LockLost(w)
    <3>1. UNCHANGED <<status, jobs, pc, failed>>
      BY <2>33 DEF LockLost, storeVars, localVars
    <3>2. JobDropped => JobDropped'
      BY <2>33 DEF LockLost, Fault, TypeOK, FaultKinds, JobDropped
    <3> QED BY <3>1, <3>2, StaysOutstanding DEF Obliged
  <2>34. CASE Recycle(w)
    <3>1. UNCHANGED <<status, jobs, pc, failed>>
      BY <2>34 DEF Recycle, storeVars, localVars
    <3>2. JobDropped => JobDropped'
      BY <2>34 DEF Recycle, Fault, TypeOK, FaultKinds, JobDropped
    <3> QED BY <3>1, <3>2, StaysOutstanding DEF Obliged
  <2> QED
    BY <1>2, <2>1, <2>2, <2>3, <2>4, <2>5, <2>6, <2>7, <2>8, <2>9, <2>10, <2>11, <2>12, <2>13, <2>14, <2>15, <2>16, <2>17, <2>18, <2>19, <2>20, <2>21, <2>22, <2>23, <2>24, <2>25, <2>26, <2>27, <2>28, <2>29, <2>30, <2>31, <2>32, <2>33, <2>34
    DEF WorkerStep, FaultStep, RunStep
<1> QED BY <1>1, <1>2 DEF Next

\* No interleaving of crashes, retries, duplicates and lock timeouts leaves the
\* document in a passing status with nobody to move it on, unless a job was discarded.
THEOREM NobodyStranded == Spec => []NeverStranded
<1>1. OutstandingWork => NeverStranded
  BY DEF OutstandingWork, NeverStranded, Obliged
<1>2. Init => ExpiredInv
  BY ExpiredInit DEF Init
<1> QED BY <1>1, <1>2, TypeInit, TypeNext, ExpiredNext, OutstandingInit, OutstandingNext,
           PTL DEF Spec

-------------------------------------------------------------------------------
(* The advisory lock keeps runs apart *)

LEMMA LockInit == Init => LockInv
BY DEF Init, RunInit, LockInv, InRun, RunSteps

\* A step that leaves the lock table alone and starts no run.
LEMMA SameHolders ==
  ASSUME LockInv, UNCHANGED holds, LockKept' => LockKept,
         \A v \in Workers : InRun(v)' => InRun(v)
  PROVE  LockInv'
BY DEF LockInv

\* A step that ends a run, if there was one, and leaves w with at most what it held.
LEMMA FewerHolds ==
  ASSUME NEW w \in Workers, LockInv, TypeOK, LockKept' => LockKept,
         NEW n \in Nat, n <= holds[w], holds' = [holds EXCEPT ![w] = n],
         ~InRun(w)', \A v \in Workers \ {w} : InRun(v)' => InRun(v)
  PROVE  LockInv'
<1>1. holds \in [Workers -> Nat]
  BY DEF TypeOK
<1>2. \A v \in Workers : holds'[v] > 0 => holds[v] > 0
  BY <1>1
<1>3. \A v \in Workers : InRun(v)' => v # w /\ InRun(v) /\ holds'[v] = holds[v]
  BY <1>1
<1> QED BY <1>2, <1>3 DEF LockInv

\* A fault that happened stays counted.
LEMMA FaultsCount == TypeOK /\ [Next]_vars => \A k \in FaultKinds : faults[k] <= faults'[k]
<1> SUFFICES ASSUME TypeOK, [Next]_vars PROVE \A k \in FaultKinds : faults[k] <= faults'[k]
  OBVIOUS
<1>1. \/ UNCHANGED faults
      \/ \E k \in FaultKinds : Fault(k)
  <2>1. ASSUME NEW w \in Workers, RunStep(w) PROVE UNCHANGED faults
    BY <2>1 DEF RunStep, EnsurePage, InsertPage, PersistImage, EmptyLayout, InsertEmptyFlag,
       OcrRunning, OcrRegion, InsertOcr, Extracting, ExtractRegion, InsertEntities,
       UpdateFullText, AnomalyStage, InsertFlags, FinishOcr, FinishIndex, FinishReview,
       CommitStatus, controlVars, jobVars
  <2>2. ASSUME NEW w \in Workers, WorkerStep(w), ~RunStep(w) PROVE UNCHANGED faults
    BY <2>2 DEF WorkerStep, Receive, LoadDocument, AcquireLock, LockTimeout, Start, Release,
       Retry, MarkError
  <2>3. ASSUME NEW w \in Workers, FaultStep(w) PROVE \E k \in FaultKinds : Fault(k)
    BY <2>3 DEF FaultStep, RunRaises, RaiseClean, RaiseSql, RaiseDisconnect, SoftLimitInOcr,
       HardTimeLimit, WorkerLost, Redeliver, RetryNotPublished, ErrorNotMarked, LockLost,
       Recycle, FaultKinds
  <2>4. CASE UNCHANGED vars
    BY <2>4 DEF vars
  <2> QED BY <2>1, <2>2, <2>3, <2>4 DEF Next
<1>2. faults \in [FaultKinds -> Nat]
  BY DEF TypeOK
<1>3. \/ UNCHANGED faults
      \/ \E k \in FaultKinds : faults' = [faults EXCEPT ![k] = @ + 1]
  BY <1>1 DEF Fault
<1> QED BY <1>2, <1>3

LEMMA LockKeptBack == TypeOK /\ [Next]_vars => (LockKept' => LockKept)
<1>1. "lockLost" \in FaultKinds
  BY DEF FaultKinds
<1> QED BY <1>1, FaultsCount DEF TypeOK, LockKept

LEMMA LockNext == TypeOK /\ LockInv /\ [Next]_vars => LockInv'
<1> SUFFICES ASSUME TypeOK, LockInv, [Next]_vars PROVE LockInv'
  OBVIOUS
<1> USE DEF At
<1>t. pc \in [Workers -> Steps] /\ holds \in [Workers -> Nat]
  BY DEF TypeOK
<1>z. 0 \in Nat /\ \A v \in Workers : 0 <= holds[v]
  BY <1>t
<1>k. LockKept' => LockKept
  BY LockKeptBack
<1>1. CASE UNCHANGED vars
  BY <1>1, <1>k, SameHolders DEF vars, InRun
<1>2. ASSUME NEW w \in Workers, WorkerStep(w) \/ FaultStep(w) PROVE LockInv'
  <2>1. CASE Receive(w)
    <3>1. UNCHANGED holds /\ \A v \in Workers : InRun(v)' => InRun(v)
      BY <2>1, <1>t DEF Receive, Goto, InRun, RunSteps, controlVars, jobVars
    <3> QED BY <3>1, <1>k, SameHolders
  <2>2. CASE LoadDocument(w)
    <3>1. UNCHANGED holds /\ \A v \in Workers : InRun(v)' => InRun(v)
      BY <2>2, <1>t DEF LoadDocument, Goto, InRun, RunSteps, controlVars, jobVars
    <3> QED BY <3>1, <1>k, SameHolders
  <2>3. CASE LockTimeout(w)
    <3>1. UNCHANGED holds /\ \A v \in Workers : InRun(v)' => InRun(v)
      BY <2>3, <1>t DEF LockTimeout, Goto, InRun, RunSteps, controlVars, jobVars
    <3> QED BY <3>1, <1>k, SameHolders
  <2>4. CASE Start(w)
    <3>1. UNCHANGED holds /\ \A v \in Workers : InRun(v)' => InRun(v)
      BY <2>4, <1>t DEF Start, Goto, InRun, RunSteps, controlVars, jobVars
    <3> QED BY <3>1, <1>k, SameHolders
  <2>5. CASE EnsurePage(w)
    <3>1. UNCHANGED holds /\ \A v \in Workers : InRun(v)' => InRun(v)
      BY <2>5, <1>t DEF EnsurePage, Goto, InRun, RunSteps, controlVars, jobVars
    <3> QED BY <3>1, <1>k, SameHolders
  <2>6. CASE InsertPage(w)
    <3>1. UNCHANGED holds /\ \A v \in Workers : InRun(v)' => InRun(v)
      BY <2>6, <1>t DEF InsertPage, Goto, InRun, RunSteps, controlVars, jobVars
    <3> QED BY <3>1, <1>k, SameHolders
  <2>7. CASE PersistImage(w)
    <3>1. UNCHANGED holds /\ \A v \in Workers : InRun(v)' => InRun(v)
      BY <2>7, <1>t DEF PersistImage, Goto, InRun, RunSteps, controlVars, jobVars
    <3> QED BY <3>1, <1>k, SameHolders
  <2>8. CASE EmptyLayout(w)
    <3>1. UNCHANGED holds /\ \A v \in Workers : InRun(v)' => InRun(v)
      BY <2>8, <1>t DEF EmptyLayout, Goto, InRun, RunSteps, controlVars, jobVars, NextPage
    <3> QED BY <3>1, <1>k, SameHolders
  <2>9. CASE InsertEmptyFlag(w)
    <3>1. UNCHANGED holds /\ \A v \in Workers : InRun(v)' => InRun(v)
      BY <2>9, <1>t DEF InsertEmptyFlag, Goto, InRun, RunSteps, controlVars, jobVars, NextPage
    <3> QED BY <3>1, <1>k, SameHolders
  <2>10. CASE OcrRunning(w)
    <3>1. UNCHANGED holds /\ \A v \in Workers : InRun(v)' => InRun(v)
      BY <2>10, <1>t DEF OcrRunning, Goto, InRun, RunSteps, controlVars, jobVars, CommitStatus
    <3> QED BY <3>1, <1>k, SameHolders
  <2>11. CASE OcrRegion(w)
    <3>1. UNCHANGED holds /\ \A v \in Workers : InRun(v)' => InRun(v)
      BY <2>11, <1>t DEF OcrRegion, Goto, InRun, RunSteps, controlVars, jobVars, NextRegion
    <3> QED BY <3>1, <1>k, SameHolders
  <2>12. CASE InsertOcr(w)
    <3>1. UNCHANGED holds /\ \A v \in Workers : InRun(v)' => InRun(v)
      BY <2>12, <1>t DEF InsertOcr, Goto, InRun, RunSteps, controlVars, jobVars, NextRegion
    <3> QED BY <3>1, <1>k, SameHolders
  <2>13. CASE Extracting(w)
    <3>1. UNCHANGED holds /\ \A v \in Workers : InRun(v)' => InRun(v)
      BY <2>13, <1>t DEF Extracting, Goto, InRun, RunSteps, controlVars, jobVars, CommitStatus
    <3> QED BY <3>1, <1>k, SameHolders
  <2>14. CASE ExtractRegion(w)
    <3>1. UNCHANGED holds /\ \A v \in Workers : InRun(v)' => InRun(v)
      BY <2>14, <1>t DEF ExtractRegion, Goto, InRun, RunSteps, controlVars, jobVars, NextRegion
    <3> QED BY <3>1, <1>k, SameHolders
  <2>15. CASE InsertEntities(w)
    <3>1. UNCHANGED holds /\ \A v \in Workers : InRun(v)' => InRun(v)
      BY <2>15, <1>t DEF InsertEntities, Goto, InRun, RunSteps, controlVars, jobVars, NextRegion
    <3> QED BY <3>1, <1>k, SameHolders
  <2>16. CASE UpdateFullText(w)
    <3>1. UNCHANGED holds /\ \A v \in Workers : InRun(v)' => InRun(v)
      BY <2>16, <1>t DEF UpdateFullText, Goto, InRun, RunSteps, controlVars, jobVars
    <3> QED BY <3>1, <1>k, SameHolders
  <2>17. CASE AnomalyStage(w)
    <3>1. UNCHANGED holds /\ \A v \in Workers : InRun(v)' => InRun(v)
      BY <2>17, <1>t DEF AnomalyStage, Goto, InRun, RunSteps, controlVars, jobVars, NextPage
    <3> QED BY <3>1, <1>k, SameHolders
  <2>18. CASE InsertFlags(w)
    <3>1. UNCHANGED holds /\ \A v \in Workers : InRun(v)' => InRun(v)
      BY <2>18, <1>t DEF InsertFlags, Goto, InRun, RunSteps, controlVars, jobVars, NextPage
    <3> QED BY <3>1, <1>k, SameHolders
  <2>19. CASE FinishOcr(w)
    <3>1. UNCHANGED holds /\ \A v \in Workers : InRun(v)' => InRun(v)
      BY <2>19, <1>t DEF FinishOcr, Goto, InRun, RunSteps, controlVars, jobVars, CommitStatus
    <3> QED BY <3>1, <1>k, SameHolders
  <2>20. CASE FinishIndex(w)
    <3>1. UNCHANGED holds /\ \A v \in Workers : InRun(v)' => InRun(v)
      BY <2>20, <1>t DEF FinishIndex, Goto, InRun, RunSteps, controlVars, jobVars, CommitStatus
    <3> QED BY <3>1, <1>k, SameHolders
  <2>21. CASE FinishReview(w)
    <3>1. UNCHANGED holds /\ \A v \in Workers : InRun(v)' => InRun(v)
      BY <2>21, <1>t DEF FinishReview, Goto, InRun, RunSteps, controlVars, jobVars, CommitStatus
    <3> QED BY <3>1, <1>k, SameHolders
  <2>22. CASE Retry(w)
    <3>1. UNCHANGED holds /\ \A v \in Workers : InRun(v)' => InRun(v)
      BY <2>22, <1>t DEF Retry, Goto, InRun, RunSteps, controlVars, jobVars
    <3> QED BY <3>1, <1>k, SameHolders
  <2>23. CASE MarkError(w)
    <3>1. UNCHANGED holds /\ \A v \in Workers : InRun(v)' => InRun(v)
      BY <2>23, <1>t DEF MarkError, Goto, InRun, RunSteps, controlVars, jobVars
    <3> QED BY <3>1, <1>k, SameHolders
  <2>24. CASE AcquireLock(w)
    <3>1. \A v \in Workers \ {w} : holds'[v] = 0 /\ (InRun(v)' => InRun(v))
      BY <2>24, <1>t DEF AcquireLock, LockFree, Goto, InRun
    <3>2. holds'[w] > 0
      BY <2>24, <1>t DEF AcquireLock
    <3>3. LockKept => \A v \in Workers \ {w} : ~InRun(v)
      BY <2>24, <1>t DEF AcquireLock, LockFree, LockInv
    <3> QED BY <3>1, <3>2, <3>3, <1>k DEF LockInv
  <2>25. CASE Release(w)
    <3>1. ~InRun(w)' /\ \A v \in Workers \ {w} : InRun(v)' => InRun(v)
      BY <2>25, <1>t DEF Release, Goto, InRun, RunSteps
    <3>2. CASE broken[w] \/ holds[w] = 0
      BY <2>25, <3>1, <3>2, <1>k, SameHolders DEF Release, Unlock
    <3>3. CASE ~(broken[w] \/ holds[w] = 0)
      <4>1. holds[w] - 1 \in Nat /\ holds[w] - 1 <= holds[w]
        BY <3>3, <1>t
      <4>2. holds' = [holds EXCEPT ![w] = holds[w] - 1]
        BY <2>25, <3>3 DEF Release, Unlock
      <4> QED BY <3>1, <4>1, <4>2, <1>k, FewerHolds
    <3> QED BY <3>2, <3>3
  <2>26. CASE RunRaises(w)
    <3>1. ~InRun(w)' /\ \A v \in Workers \ {w} : InRun(v)' => InRun(v)
      BY <2>26, <1>t DEF RunRaises, Goto, InRun, RunSteps
    <3>2. UNCHANGED holds \/ holds' = [holds EXCEPT ![w] = 0]
      BY <2>26 DEF RunRaises, RaiseClean, RaiseSql, RaiseDisconnect
    <3> QED BY <3>1, <3>2, <1>z, <1>k, SameHolders, FewerHolds
  <2>27. CASE SoftLimitInOcr(w)
    <3>1. UNCHANGED holds /\ \A v \in Workers : InRun(v)' => InRun(v)
      BY <2>27, <1>t DEF SoftLimitInOcr, Goto, InRun, RunSteps
    <3> QED BY <3>1, <1>k, SameHolders
  <2>28. CASE Redeliver(w)
    <3>1. UNCHANGED holds /\ \A v \in Workers : InRun(v)' => InRun(v)
      BY <2>28, <1>t DEF Redeliver, Goto, InRun, RunSteps
    <3> QED BY <3>1, <1>k, SameHolders
  <2>29. CASE RetryNotPublished(w)
    <3>1. UNCHANGED holds /\ \A v \in Workers : InRun(v)' => InRun(v)
      BY <2>29, <1>t DEF RetryNotPublished, Goto, InRun, RunSteps
    <3> QED BY <3>1, <1>k, SameHolders
  <2>30. CASE ErrorNotMarked(w)
    <3>1. UNCHANGED holds /\ \A v \in Workers : InRun(v)' => InRun(v)
      BY <2>30, <1>t DEF ErrorNotMarked, Goto, InRun, RunSteps
    <3> QED BY <3>1, <1>k, SameHolders
  <2>31. CASE HardTimeLimit(w)
    <3>1. ~InRun(w)' /\ \A v \in Workers \ {w} : InRun(v)' => InRun(v)
      BY <2>31, <1>t DEF HardTimeLimit, Die, Goto, InRun, RunSteps
    <3>2. holds' = [holds EXCEPT ![w] = 0]
      BY <2>31 DEF HardTimeLimit, Die
    <3> QED BY <3>1, <3>2, <1>z, <1>k, FewerHolds
  <2>32. CASE WorkerLost(w)
    <3>1. ~InRun(w)' /\ \A v \in Workers \ {w} : InRun(v)' => InRun(v)
      BY <2>32, <1>t DEF WorkerLost, Die, Goto, InRun, RunSteps
    <3>2. holds' = [holds EXCEPT ![w] = 0]
      BY <2>32 DEF WorkerLost, Die
    <3> QED BY <3>1, <3>2, <1>z, <1>k, FewerHolds
  <2>33. CASE LockLost(w)
    <3>1. ~LockKept'
      BY <2>33 DEF LockLost, Fault, LockKept, TypeOK, FaultKinds
    <3>2. \A v \in Workers : holds'[v] > 0 => holds[v] > 0
      BY <2>33, <1>t DEF LockLost
    <3> QED BY <3>1, <3>2 DEF LockInv
  <2>34. CASE Recycle(w)
    <3>1. holds' = [holds EXCEPT ![w] = 0] /\ ~InRun(w)'
      BY <2>34 DEF Recycle, localVars, InRun, RunSteps
    <3>2. \A v \in Workers \ {w} : InRun(v)' => InRun(v)
      BY <2>34 DEF Recycle, localVars, InRun
    <3> QED BY <3>1, <3>2, <1>z, <1>k, FewerHolds
  <2> QED
    BY <1>2, <2>1, <2>2, <2>3, <2>4, <2>5, <2>6, <2>7, <2>8, <2>9, <2>10, <2>11, <2>12, <2>13, <2>14, <2>15, <2>16, <2>17, <2>18, <2>19, <2>20, <2>21, <2>22, <2>23, <2>24, <2>25, <2>26, <2>27, <2>28, <2>29, <2>30, <2>31, <2>32, <2>33, <2>34
    DEF WorkerStep, FaultStep, RunStep
<1> QED BY <1>1, <1>2 DEF Next

\* Two runs of one document never overlap as long as no connection was replaced
\* inside a run: the advisory lock, not the order of deliveries, excludes them.
THEOREM OneRunAtATime == Spec => []RunsExclusive
<1>1. LockInv => RunsExclusive
  BY DEF LockInv, RunsExclusive
<1> QED BY <1>1, TypeInit, TypeNext, LockInit, LockNext, PTL DEF Spec

-------------------------------------------------------------------------------
(* The advisory lock is given back *)

LEMMA HeldInit == Init => HeldInv
BY DEF Init, RunInit, HeldInv, Held

LEMMA OthersKeepLock ==
  ASSUME NEW w \in Workers, NEW v \in Workers, v # w, TypeOK, WorkerStep(w) \/ FaultStep(w)
  PROVE  UNCHANGED <<pc[v], holds[v], broken[v]>>
<1>t. /\ pc \in [Workers -> Steps] /\ holds \in [Workers -> Nat]
      /\ broken \in [Workers -> BOOLEAN]
  BY DEF TypeOK, LocalTypeOK
<1>1. pc'[v] = pc[v]
  BY <1>t
  DEF WorkerStep, FaultStep, RunStep, Receive, LoadDocument, AcquireLock, LockTimeout,
      Start, EnsurePage, InsertPage, PersistImage, EmptyLayout, InsertEmptyFlag,
      OcrRunning, OcrRegion, InsertOcr, Extracting, ExtractRegion, InsertEntities,
      UpdateFullText, AnomalyStage, InsertFlags, FinishOcr, FinishIndex, FinishReview,
      CommitStatus, Release, Retry, MarkError, RunRaises, SoftLimitInOcr, HardTimeLimit,
      WorkerLost, Redeliver, RetryNotPublished, ErrorNotMarked, LockLost, Recycle, Die,
      Goto, NextPage, NextRegion
<1>2. holds'[v] = holds[v] /\ broken'[v] = broken[v]
  BY <1>t
  DEF WorkerStep, FaultStep, RunStep, Receive, LoadDocument, AcquireLock, LockTimeout,
      Start, EnsurePage, InsertPage, PersistImage, EmptyLayout, InsertEmptyFlag,
      OcrRunning, OcrRegion, InsertOcr, Extracting, ExtractRegion, InsertEntities,
      UpdateFullText, AnomalyStage, InsertFlags, FinishOcr, FinishIndex, FinishReview,
      CommitStatus, Release, Unlock, Retry, MarkError, RunRaises, RaiseClean, RaiseSql,
      RaiseDisconnect, SoftLimitInOcr, HardTimeLimit, WorkerLost, Redeliver,
      RetryNotPublished, ErrorNotMarked, LockLost, Recycle, Die, Forget, localVars,
      controlVars, jobVars
<1> QED BY <1>1, <1>2

\* A step of the loop stays in the run or ends at its `finally`.
LEMMA RunStepPlace ==
  ASSUME NEW w \in Workers, TypeOK, RunStep(w)
  PROVE  /\ InRun(w)
         /\ InRun(w)' \/ pc'[w] = "release"
         /\ UNCHANGED <<holds, broken>>
<1>t. pc \in [Workers -> Steps]
  BY DEF TypeOK
<1>1. InRun(w)
  BY DEF RunStep, EnsurePage, InsertPage, PersistImage, EmptyLayout, InsertEmptyFlag,
     OcrRunning, OcrRegion, InsertOcr, Extracting, ExtractRegion, InsertEntities,
     UpdateFullText, AnomalyStage, InsertFlags, FinishOcr, FinishIndex, FinishReview,
     CommitStatus, At, InRun, RunSteps
<1>2. InRun(w)' \/ pc'[w] = "release"
  BY <1>t
  DEF RunStep, EnsurePage, InsertPage, PersistImage, EmptyLayout, InsertEmptyFlag,
     OcrRunning, OcrRegion, InsertOcr, Extracting, ExtractRegion, InsertEntities,
     UpdateFullText, AnomalyStage, InsertFlags, FinishOcr, FinishIndex, FinishReview,
     CommitStatus, Goto, NextPage, NextRegion, InRun, RunSteps
<1>3. UNCHANGED <<holds, broken>>
  BY DEF RunStep, EnsurePage, InsertPage, PersistImage, EmptyLayout, InsertEmptyFlag,
     OcrRunning, OcrRegion, InsertOcr, Extracting, ExtractRegion, InsertEntities,
     UpdateFullText, AnomalyStage, InsertFlags, FinishOcr, FinishIndex, FinishReview,
     CommitStatus, controlVars, jobVars
<1> QED BY <1>1, <1>2, <1>3

\* What the step of a worker does to its own hold on the lock.
LEMMA HeldByOwnStep ==
  ASSUME NEW w \in Workers, TypeOK, Held(w), WorkerStep(w) \/ FaultStep(w),
         faults["sqlError"] = 0, faults'["sqlError"] = 0
  PROVE  Held(w)'
<1>t. /\ pc \in [Workers -> Steps] /\ holds \in [Workers -> Nat]
      /\ broken \in [Workers -> BOOLEAN] /\ faults \in [FaultKinds -> Nat]
  BY DEF TypeOK, LocalTypeOK
<1>s. "sqlError" \in FaultKinds
  BY DEF FaultKinds
<1> USE DEF At, Goto
\* A step outside the run, which the lock is neither taken nor held in.
<1>o. ASSUME pc[w] \notin RunSteps \cup {"release"}, UNCHANGED holds,
             broken'[w] => broken[w], pc'[w] \in BrokenSteps \/ ~broken[w] \/ ~broken'[w]
      PROVE  Held(w)'
  BY <1>o, <1>t DEF Held, InRun
<1>1. CASE Receive(w)
  BY <1>1, <1>o, <1>t DEF Receive, localVars, RunSteps, Held, BrokenSteps
<1>2. CASE LoadDocument(w)
  BY <1>2, <1>o, <1>t DEF LoadDocument, RunSteps, Held, BrokenSteps
<1>3. CASE AcquireLock(w)
  <2>1. holds[w] = 0 /\ ~broken[w]
    BY <1>3, <1>t DEF AcquireLock, Held, InRun, RunSteps, BrokenSteps
  <2>2. holds'[w] = 1 /\ pc'[w] = "start" /\ broken'[w] = broken[w]
    BY <1>3, <2>1, <1>t DEF AcquireLock, localVars
  <2> QED BY <2>1, <2>2 DEF Held, InRun, RunSteps
<1>4. CASE LockTimeout(w)
  BY <1>4, <1>o, <1>t DEF LockTimeout, localVars, RunSteps, BrokenSteps
<1>5. CASE Start(w)
  <2>1. /\ UNCHANGED <<holds, broken>> /\ pc[w] = "start" /\ pc'[w] \in {"page", "release"}
    BY <1>5, <1>t DEF Start
  <2> QED BY <2>1 DEF Held, InRun, RunSteps, BrokenSteps
<1>6. CASE RunStep(w)
  BY <1>6, RunStepPlace DEF Held, InRun, RunSteps, BrokenSteps
<1>7. CASE Release(w)
  <2>1. holds'[w] = 0
    BY <1>7, <1>t DEF Release, Unlock, Held
  <2>2. broken'[w] => pc'[w] \in BrokenSteps
    BY <1>7, <1>t DEF Release, Forget, localVars, BrokenSteps
  <2> QED BY <2>1, <2>2 DEF Held
<1>8. CASE Retry(w)
  <2>1. (pc'[w] = "markError" /\ broken'[w] = broken[w]) \/ ~broken'[w]
    BY <1>8, <1>t DEF Retry, Forget, localVars
  <2>2. pc[w] = "retry" /\ UNCHANGED holds
    BY <1>8 DEF Retry
  <2> QED BY <2>1, <2>2, <1>o DEF RunSteps, BrokenSteps
<1>9. CASE MarkError(w)
  BY <1>9, <1>o, <1>t DEF MarkError, Forget, RunSteps
<1>10. CASE RunRaises(w)
  <2>1. CASE RaiseClean(w)
    <3>1. pc'[w] = IF InRun(w) THEN "release" ELSE "retry"
      BY <1>10, <1>t DEF RunRaises
    <3>2. UNCHANGED <<holds, broken>>
      BY <2>1 DEF RaiseClean
    <3>3. InRun(w) \/ pc[w] \in {"load", "lock"}
      BY <1>10 DEF RunRaises
    <3> QED BY <3>1, <3>2, <3>3 DEF Held, InRun, RunSteps, BrokenSteps
  <2>2. CASE RaiseSql(w)
    <3>1. faults'["sqlError"] = faults["sqlError"] + 1
      BY <2>2, <1>t, <1>s DEF RaiseSql, Fault
    <3> QED BY <3>1
  <2>3. CASE RaiseDisconnect(w)
    BY <1>10, <2>3, <1>t DEF RunRaises, RaiseDisconnect, Held, BrokenSteps
  <2> QED BY <1>10, <2>1, <2>2, <2>3 DEF RunRaises
<1>11. CASE SoftLimitInOcr(w)
  BY <1>11, <1>t DEF SoftLimitInOcr, Held, InRun
<1>12. CASE HardTimeLimit(w)
  BY <1>12, <1>t DEF HardTimeLimit, Die, Forget, Held
<1>13. CASE WorkerLost(w)
  BY <1>13, <1>t DEF WorkerLost, Die, Forget, Held
<1>14. CASE Redeliver(w)
  BY <1>14, <1>t DEF Redeliver, localVars, Held, InRun
<1>15. CASE RetryNotPublished(w)
  BY <1>15, <1>o, <1>t DEF RetryNotPublished, Forget, RunSteps
<1>16. CASE ErrorNotMarked(w)
  BY <1>16, <1>o, <1>t DEF ErrorNotMarked, Forget, RunSteps
<1>17. CASE LockLost(w)
  BY <1>17, <1>t DEF LockLost, localVars, Held
<1>18. CASE Recycle(w)
  BY <1>18, <1>t DEF Recycle, localVars, Held
<1> QED
  BY <1>1, <1>2, <1>3, <1>4, <1>5, <1>6, <1>7, <1>8, <1>9, <1>10, <1>11, <1>12, <1>13,
     <1>14, <1>15, <1>16, <1>17, <1>18
  DEF WorkerStep, FaultStep

LEMMA HeldNext == TypeOK /\ HeldInv /\ [Next]_vars => HeldInv'
<1> SUFFICES ASSUME TypeOK, HeldInv, [Next]_vars, faults'["sqlError"] = 0
             PROVE  \A v \in Workers : Held(v)'
  BY DEF HeldInv
<1>1. faults["sqlError"] = 0
  <2>1. "sqlError" \in FaultKinds
    BY DEF FaultKinds
  <2> QED BY <2>1, FaultsCount DEF TypeOK
<1>2. \A v \in Workers : Held(v)
  BY <1>1 DEF HeldInv
<1>3. CASE UNCHANGED vars
  BY <1>2, <1>3 DEF vars, Held, InRun
<1>4. ASSUME NEW w \in Workers, WorkerStep(w) \/ FaultStep(w), NEW v \in Workers
      PROVE  Held(v)'
  <2>1. CASE v = w
    BY <1>1, <1>2, <1>4, <2>1, HeldByOwnStep
  <2>2. CASE v # w
    BY <1>2, <1>4, <2>2, OthersKeepLock DEF Held, InRun
  <2> QED BY <2>1, <2>2
<1> QED BY <1>3, <1>4 DEF Next

\* Waiting for the lock is waiting for a run: without a session broken by a refused
\* statement, whoever holds the lock is between lock and unlock.
THEOREM LockGivenBack == Spec => []LockHeldOnlyInRun
<1>1. HeldInv => LockHeldOnlyInRun
  BY DEF HeldInv, Held, LockHeldOnlyInRun
<1> QED BY <1>1, TypeInit, TypeNext, HeldInit, HeldNext, PTL DEF Spec

-------------------------------------------------------------------------------
(* No row is inserted twice *)

InsertSteps == {"insertEntities", "insertEmptyFlag", "insertFlags"}

LEMMA RowInit == Init => RowInv
BY DEF Init, RunInit, RowInv, PageFlagged

\* A step that inserts no such row and takes no worker to an inserting step.
LEMMA SameRows ==
  ASSUME RowInv, UNCHANGED <<entityRows, flagRows>>, LockKept' => LockKept,
         \A v \in Workers : pc'[v] \in InsertSteps => pc'[v] = pc[v] /\ cur'[v] = cur[v]
  PROVE  RowInv'
BY DEF RowInv, InsertSteps, PageFlagged

\* A step of w inside its run: it is alone, so only w can be at an inserting step.
LEMMA RowsOfOneRun ==
  ASSUME NEW w \in Workers, LockInv, InRun(w), LockKept,
         \A v \in Workers \ {w} : pc'[v] = pc[v],
         \A r \in Regions : entityRows'[r] <= 1,
         \A s \in FlagSlots : flagRows'[s] <= 1,
         pc'[w] = "insertEntities" => ~(entityRows'[cur'[w]] > 0),
         pc'[w] = "insertEmptyFlag" => ~(flagRows'[<<cur'[w][1], 0>>] > 0),
         pc'[w] = "insertFlags" => ~PageFlagged(cur[w][1])',
         pc'[w] = "insertFlags" => cur'[w] = cur[w]
  PROVE  RowInv'
<1>1. \A v \in Workers \ {w} : ~InRun(v)
  BY DEF LockInv
<1>2. \A v \in Workers \ {w} : pc'[v] \notin InsertSteps
  BY <1>1 DEF InRun, RunSteps, InsertSteps
<1>3. pc'[w] = "insertFlags" => ~PageFlagged(cur[w][1])'
  OBVIOUS
<1> QED BY <1>2, <1>3 DEF RowInv, InsertSteps, PageFlagged

LEMMA RowNext == TypeOK /\ LockInv /\ RowInv /\ [Next]_vars => RowInv'
<1> SUFFICES ASSUME TypeOK, LockInv, RowInv, [Next]_vars PROVE RowInv'
  OBVIOUS
<1> USE DEF At
<1>t. /\ pc \in [Workers -> Steps]
      /\ cur \in [Workers -> Nat \X Nat]
      /\ entityRows \in [Regions -> Nat]
      /\ flagRows \in [FlagSlots -> Nat]
  BY DEF TypeOK, LocalTypeOK
<1>k. LockKept' => LockKept
  BY LockKeptBack
<1>1. CASE UNCHANGED vars
  BY <1>1, <1>k, SameRows DEF vars
<1>2. ASSUME NEW w \in Workers, WorkerStep(w) \/ FaultStep(w) PROVE RowInv'
  <2>1. CASE Receive(w)
    <3>1. UNCHANGED <<entityRows, flagRows>>
      BY <2>1 DEF Receive, dataVars
    <3>2. \A v \in Workers : pc'[v] \in InsertSteps => pc'[v] = pc[v] /\ cur'[v] = cur[v]
      BY <2>1, <1>t DEF Receive, Goto, InsertSteps, localVars, tallyVars
    <3> QED BY <3>1, <3>2, <1>k, SameRows
  <2>2. CASE LoadDocument(w)
    <3>1. UNCHANGED <<entityRows, flagRows>>
      BY <2>2 DEF LoadDocument, dataVars
    <3>2. \A v \in Workers : pc'[v] \in InsertSteps => pc'[v] = pc[v] /\ cur'[v] = cur[v]
      BY <2>2, <1>t DEF LoadDocument, Goto, InsertSteps, tallyVars
    <3> QED BY <3>1, <3>2, <1>k, SameRows
  <2>3. CASE AcquireLock(w)
    <3>1. UNCHANGED <<entityRows, flagRows>>
      BY <2>3 DEF AcquireLock, dataVars
    <3>2. \A v \in Workers : pc'[v] \in InsertSteps => pc'[v] = pc[v] /\ cur'[v] = cur[v]
      BY <2>3, <1>t DEF AcquireLock, Goto, InsertSteps, localVars, tallyVars
    <3> QED BY <3>1, <3>2, <1>k, SameRows
  <2>4. CASE LockTimeout(w)
    <3>1. UNCHANGED <<entityRows, flagRows>>
      BY <2>4 DEF LockTimeout, dataVars
    <3>2. \A v \in Workers : pc'[v] \in InsertSteps => pc'[v] = pc[v] /\ cur'[v] = cur[v]
      BY <2>4, <1>t DEF LockTimeout, Goto, InsertSteps, localVars, tallyVars
    <3> QED BY <3>1, <3>2, <1>k, SameRows
  <2>5. CASE Start(w)
    <3>1. UNCHANGED <<entityRows, flagRows>>
      BY <2>5 DEF Start, dataVars
    <3>2. \A v \in Workers : pc'[v] \in InsertSteps => pc'[v] = pc[v] /\ cur'[v] = cur[v]
      BY <2>5, <1>t DEF Start, Goto, InsertSteps, tallyVars
    <3> QED BY <3>1, <3>2, <1>k, SameRows
  <2>6. CASE EnsurePage(w)
    <3>1. UNCHANGED <<entityRows, flagRows>>
      BY <2>6 DEF EnsurePage, dataVars
    <3>2. \A v \in Workers : pc'[v] \in InsertSteps => pc'[v] = pc[v] /\ cur'[v] = cur[v]
      BY <2>6, <1>t DEF EnsurePage, Goto, InsertSteps, tallyVars
    <3> QED BY <3>1, <3>2, <1>k, SameRows
  <2>7. CASE InsertPage(w)
    <3>1. UNCHANGED <<entityRows, flagRows>>
      BY <2>7 DEF InsertPage, dataVars
    <3>2. \A v \in Workers : pc'[v] \in InsertSteps => pc'[v] = pc[v] /\ cur'[v] = cur[v]
      BY <2>7, <1>t DEF InsertPage, Goto, InsertSteps, tallyVars
    <3> QED BY <3>1, <3>2, <1>k, SameRows
  <2>8. CASE PersistImage(w)
    <3>1. UNCHANGED <<entityRows, flagRows>>
      BY <2>8 DEF PersistImage, dataVars
    <3>2. \A v \in Workers : pc'[v] \in InsertSteps => pc'[v] = pc[v] /\ cur'[v] = cur[v]
      BY <2>8, <1>t DEF PersistImage, Goto, InsertSteps, tallyVars
    <3> QED BY <3>1, <3>2, <1>k, SameRows
  <2>9. CASE OcrRunning(w)
    <3>1. UNCHANGED <<entityRows, flagRows>>
      BY <2>9 DEF OcrRunning, dataVars, CommitStatus
    <3>2. \A v \in Workers : pc'[v] \in InsertSteps => pc'[v] = pc[v] /\ cur'[v] = cur[v]
      BY <2>9, <1>t DEF OcrRunning, Goto, InsertSteps, CommitStatus, localVars, tallyVars
    <3> QED BY <3>1, <3>2, <1>k, SameRows
  <2>10. CASE Extracting(w)
    <3>1. UNCHANGED <<entityRows, flagRows>>
      BY <2>10 DEF Extracting, dataVars, CommitStatus
    <3>2. \A v \in Workers : pc'[v] \in InsertSteps => pc'[v] = pc[v] /\ cur'[v] = cur[v]
      BY <2>10, <1>t DEF Extracting, Goto, InsertSteps, CommitStatus, localVars, tallyVars
    <3> QED BY <3>1, <3>2, <1>k, SameRows
  <2>11. CASE UpdateFullText(w)
    <3>1. UNCHANGED <<entityRows, flagRows>>
      BY <2>11 DEF UpdateFullText, dataVars
    <3>2. \A v \in Workers : pc'[v] \in InsertSteps => pc'[v] = pc[v] /\ cur'[v] = cur[v]
      BY <2>11, <1>t DEF UpdateFullText, Goto, InsertSteps, tallyVars
    <3> QED BY <3>1, <3>2, <1>k, SameRows
  <2>12. CASE FinishOcr(w)
    <3>1. UNCHANGED <<entityRows, flagRows>>
      BY <2>12 DEF FinishOcr, dataVars, CommitStatus
    <3>2. \A v \in Workers : pc'[v] \in InsertSteps => pc'[v] = pc[v] /\ cur'[v] = cur[v]
      BY <2>12, <1>t DEF FinishOcr, Goto, InsertSteps, CommitStatus, localVars, tallyVars
    <3> QED BY <3>1, <3>2, <1>k, SameRows
  <2>13. CASE FinishIndex(w)
    <3>1. UNCHANGED <<entityRows, flagRows>>
      BY <2>13 DEF FinishIndex, dataVars, CommitStatus
    <3>2. \A v \in Workers : pc'[v] \in InsertSteps => pc'[v] = pc[v] /\ cur'[v] = cur[v]
      BY <2>13, <1>t DEF FinishIndex, Goto, InsertSteps, CommitStatus, localVars, tallyVars
    <3> QED BY <3>1, <3>2, <1>k, SameRows
  <2>14. CASE FinishReview(w)
    <3>1. UNCHANGED <<entityRows, flagRows>>
      BY <2>14 DEF FinishReview, dataVars, CommitStatus
    <3>2. \A v \in Workers : pc'[v] \in InsertSteps => pc'[v] = pc[v] /\ cur'[v] = cur[v]
      BY <2>14, <1>t DEF FinishReview, Goto, InsertSteps, CommitStatus, localVars, tallyVars
    <3> QED BY <3>1, <3>2, <1>k, SameRows
  <2>15. CASE OcrRegion(w)
    <3>1. UNCHANGED <<entityRows, flagRows>>
      BY <2>15 DEF OcrRegion, dataVars
    <3>2. \A v \in Workers : pc'[v] \in InsertSteps => pc'[v] = pc[v] /\ cur'[v] = cur[v]
      BY <2>15, <1>t DEF OcrRegion, Goto, InsertSteps, NextRegion
    <3> QED BY <3>1, <3>2, <1>k, SameRows
  <2>16. CASE InsertOcr(w)
    <3>1. UNCHANGED <<entityRows, flagRows>>
      BY <2>16 DEF InsertOcr, dataVars
    <3>2. \A v \in Workers : pc'[v] \in InsertSteps => pc'[v] = pc[v] /\ cur'[v] = cur[v]
      BY <2>16, <1>t DEF InsertOcr, Goto, InsertSteps, NextRegion
    <3> QED BY <3>1, <3>2, <1>k, SameRows
  <2>17. CASE Release(w)
    <3>1. UNCHANGED <<entityRows, flagRows>>
      BY <2>17 DEF Release, dataVars
    <3>2. \A v \in Workers : pc'[v] \in InsertSteps => pc'[v] = pc[v] /\ cur'[v] = cur[v]
      BY <2>17, <1>t DEF Release, Goto, InsertSteps, Forget, localVars, tallyVars
    <3> QED BY <3>1, <3>2, <1>k, SameRows
  <2>18. CASE Retry(w)
    <3>1. UNCHANGED <<entityRows, flagRows>>
      BY <2>18 DEF Retry, dataVars
    <3>2. \A v \in Workers : pc'[v] \in InsertSteps => pc'[v] = pc[v] /\ cur'[v] = cur[v]
      BY <2>18, <1>t DEF Retry, Goto, InsertSteps, Forget, localVars, tallyVars
    <3> QED BY <3>1, <3>2, <1>k, SameRows
  <2>19. CASE MarkError(w)
    <3>1. UNCHANGED <<entityRows, flagRows>>
      BY <2>19 DEF MarkError, dataVars
    <3>2. \A v \in Workers : pc'[v] \in InsertSteps => pc'[v] = pc[v] /\ cur'[v] = cur[v]
      BY <2>19, <1>t DEF MarkError, Goto, InsertSteps, Forget
    <3> QED BY <3>1, <3>2, <1>k, SameRows
  <2>20. CASE RunRaises(w)
    <3>1. UNCHANGED <<entityRows, flagRows>>
      BY <2>20 DEF RunRaises, dataVars
    <3>2. \A v \in Workers : pc'[v] \in InsertSteps => pc'[v] = pc[v] /\ cur'[v] = cur[v]
      BY <2>20, <1>t DEF RunRaises, Goto, InsertSteps, tallyVars
    <3> QED BY <3>1, <3>2, <1>k, SameRows
  <2>21. CASE SoftLimitInOcr(w)
    <3>1. UNCHANGED <<entityRows, flagRows>>
      BY <2>21 DEF SoftLimitInOcr, dataVars
    <3>2. \A v \in Workers : pc'[v] \in InsertSteps => pc'[v] = pc[v] /\ cur'[v] = cur[v]
      BY <2>21, <1>t DEF SoftLimitInOcr, Goto, InsertSteps, tallyVars
    <3> QED BY <3>1, <3>2, <1>k, SameRows
  <2>22. CASE HardTimeLimit(w)
    <3>1. UNCHANGED <<entityRows, flagRows>>
      BY <2>22 DEF HardTimeLimit, dataVars
    <3>2. \A v \in Workers : pc'[v] \in InsertSteps => pc'[v] = pc[v] /\ cur'[v] = cur[v]
      BY <2>22, <1>t DEF HardTimeLimit, Goto, InsertSteps, Die, Forget
    <3> QED BY <3>1, <3>2, <1>k, SameRows
  <2>23. CASE WorkerLost(w)
    <3>1. UNCHANGED <<entityRows, flagRows>>
      BY <2>23 DEF WorkerLost, dataVars
    <3>2. \A v \in Workers : pc'[v] \in InsertSteps => pc'[v] = pc[v] /\ cur'[v] = cur[v]
      BY <2>23, <1>t DEF WorkerLost, Goto, InsertSteps, Die, Forget
    <3> QED BY <3>1, <3>2, <1>k, SameRows
  <2>24. CASE Redeliver(w)
    <3>1. UNCHANGED <<entityRows, flagRows>>
      BY <2>24 DEF Redeliver, dataVars
    <3>2. \A v \in Workers : pc'[v] \in InsertSteps => pc'[v] = pc[v] /\ cur'[v] = cur[v]
      BY <2>24, <1>t DEF Redeliver, Goto, InsertSteps, localVars, tallyVars
    <3> QED BY <3>1, <3>2, <1>k, SameRows
  <2>25. CASE RetryNotPublished(w)
    <3>1. UNCHANGED <<entityRows, flagRows>>
      BY <2>25 DEF RetryNotPublished, dataVars
    <3>2. \A v \in Workers : pc'[v] \in InsertSteps => pc'[v] = pc[v] /\ cur'[v] = cur[v]
      BY <2>25, <1>t DEF RetryNotPublished, Goto, InsertSteps, Forget
    <3> QED BY <3>1, <3>2, <1>k, SameRows
  <2>26. CASE ErrorNotMarked(w)
    <3>1. UNCHANGED <<entityRows, flagRows>>
      BY <2>26 DEF ErrorNotMarked, dataVars
    <3>2. \A v \in Workers : pc'[v] \in InsertSteps => pc'[v] = pc[v] /\ cur'[v] = cur[v]
      BY <2>26, <1>t DEF ErrorNotMarked, Goto, InsertSteps, Forget
    <3> QED BY <3>1, <3>2, <1>k, SameRows
  <2>27. CASE LockLost(w)
    <3>1. UNCHANGED <<entityRows, flagRows>>
      BY <2>27 DEF LockLost, dataVars
    <3>2. \A v \in Workers : pc'[v] \in InsertSteps => pc'[v] = pc[v] /\ cur'[v] = cur[v]
      BY <2>27, <1>t DEF LockLost, Goto, InsertSteps, localVars, tallyVars
    <3> QED BY <3>1, <3>2, <1>k, SameRows
  <2>28. CASE Recycle(w)
    <3>1. UNCHANGED <<entityRows, flagRows>>
      BY <2>28 DEF Recycle, dataVars
    <3>2. \A v \in Workers : pc'[v] \in InsertSteps => pc'[v] = pc[v] /\ cur'[v] = cur[v]
      BY <2>28, <1>t DEF Recycle, Goto, InsertSteps, localVars, tallyVars
    <3> QED BY <3>1, <3>2, <1>k, SameRows
  <2>29. CASE EmptyLayout(w)
    <3>1. UNCHANGED <<entityRows, flagRows>> /\ InRun(w)
      BY <2>29 DEF EmptyLayout, dataVars, InRun, RunSteps
    <3>2. \A v \in Workers \ {w} : pc'[v] = pc[v]
      BY <2>29, <1>t DEF EmptyLayout, Goto, NextPage
    <3>3. pc'[w] \notin InsertSteps \/ (pc'[w] = "insertEmptyFlag" /\ cur'[w] = cur[w])
      BY <2>29, <1>t DEF EmptyLayout, Goto, InsertSteps, NextPage
    <3> QED
      <4>1. pc'[w] = "insertEmptyFlag" => ~(flagRows[<<cur[w][1], 0>>] > 0)
        BY <2>29, <1>t DEF EmptyLayout, Goto, NextPage
      <4> QED BY <3>1, <3>2, <3>3, <4>1, <1>t, <1>k, RowsOfOneRun DEF RowInv, InsertSteps, PageFlagged
  <2>30. CASE ExtractRegion(w)
    <3>1. UNCHANGED <<entityRows, flagRows>> /\ InRun(w)
      BY <2>30 DEF ExtractRegion, dataVars, InRun, RunSteps
    <3>2. \A v \in Workers \ {w} : pc'[v] = pc[v]
      BY <2>30, <1>t DEF ExtractRegion, Goto, NextRegion
    <3>3. pc'[w] \notin InsertSteps \/ (pc'[w] = "insertEntities" /\ cur'[w] = cur[w])
      BY <2>30, <1>t DEF ExtractRegion, Goto, InsertSteps, NextRegion
    <3> QED
      <4>1. pc'[w] = "insertEntities" => ~(entityRows[cur[w]] > 0)
        BY <2>30, <1>t DEF ExtractRegion, Goto, NextRegion
      <4> QED BY <3>1, <3>2, <3>3, <4>1, <1>t, <1>k, RowsOfOneRun DEF RowInv, InsertSteps, PageFlagged
  <2>31. CASE AnomalyStage(w)
    <3>1. UNCHANGED <<entityRows, flagRows>> /\ InRun(w)
      BY <2>31 DEF AnomalyStage, dataVars, InRun, RunSteps
    <3>2. \A v \in Workers \ {w} : pc'[v] = pc[v]
      BY <2>31, <1>t DEF AnomalyStage, Goto, NextPage
    <3>3. pc'[w] \notin InsertSteps \/ (pc'[w] = "insertFlags" /\ cur'[w] = cur[w])
      BY <2>31, <1>t DEF AnomalyStage, Goto, InsertSteps, NextPage
    <3> QED
      <4>0. pc'[w] = "insertFlags" => ~PageFlagged(cur[w][1])
        BY <2>31, <1>t DEF AnomalyStage, Goto, NextPage
      <4>1. pc'[w] = "insertFlags" => ~PageFlagged(cur[w][1])'
        BY <4>0, <3>1, <3>3 DEF PageFlagged, InsertSteps
      <4>2. pc'[w] \notin {"insertEntities", "insertEmptyFlag"}
        BY <3>3 DEF InsertSteps
      <4>3. LockKept => /\ \A r \in Regions : entityRows'[r] <= 1
                        /\ \A s \in FlagSlots : flagRows'[s] <= 1
        BY <3>1 DEF RowInv
      <4>4. pc'[w] = "insertFlags" => cur'[w] = cur[w]
        BY <3>3 DEF InsertSteps
      <4>5. LockKept => RowInv'
        BY <3>1, <3>2, <4>1, <4>2, <4>3, <4>4, RowsOfOneRun
      <4> QED BY <1>k, <4>5 DEF RowInv
  <2>32. CASE InsertEmptyFlag(w)
    <3>1. UNCHANGED entityRows /\ InRun(w)
      BY <2>32 DEF InsertEmptyFlag, InRun, RunSteps
    <3>2. \A v \in Workers \ {w} : pc'[v] = pc[v]
      BY <2>32, <1>t DEF InsertEmptyFlag, Goto, NextPage
    <3>3. pc'[w] \notin InsertSteps
      BY <2>32, <1>t DEF InsertEmptyFlag, Goto, InsertSteps, NextPage
    <3>4. ASSUME LockKept PROVE \A s \in FlagSlots : flagRows'[s] <= 1
      BY <2>32, <3>4, <1>t DEF InsertEmptyFlag, RowInv
    <3> QED BY <3>1, <3>2, <3>3, <3>4, <1>k, RowsOfOneRun DEF RowInv, InsertSteps
  <2>33. CASE InsertEntities(w)
    <3>1. UNCHANGED flagRows /\ InRun(w)
      BY <2>33 DEF InsertEntities, InRun, RunSteps
    <3>2. \A v \in Workers \ {w} : pc'[v] = pc[v]
      BY <2>33, <1>t DEF InsertEntities, Goto, NextRegion
    <3>3. pc'[w] \notin InsertSteps
      BY <2>33, <1>t DEF InsertEntities, Goto, InsertSteps, NextRegion
    <3>4. ASSUME LockKept PROVE \A s \in Regions : entityRows'[s] <= 1
      <4>1. \/ entityRows' = [entityRows EXCEPT ![cur[w]] = @ + 1]
            \/ entityRows' = entityRows
        BY <2>33, <1>t DEF InsertEntities
      <4>2. ~(entityRows[cur[w]] > 0) /\ \A r \in Regions : entityRows[r] <= 1
        BY <2>33, <3>4 DEF InsertEntities, RowInv
      <4> QED BY <4>1, <4>2, <1>t
    <3> QED BY <3>1, <3>2, <3>3, <3>4, <1>k, RowsOfOneRun DEF RowInv, InsertSteps
  <2>34. CASE InsertFlags(w)
    <3>1. UNCHANGED entityRows /\ InRun(w)
      BY <2>34 DEF InsertFlags, InRun, RunSteps
    <3>2. \A v \in Workers \ {w} : pc'[v] = pc[v]
      BY <2>34, <1>t DEF InsertFlags, Goto, NextPage
    <3>3. pc'[w] \notin InsertSteps
      BY <2>34, <1>t DEF InsertFlags, Goto, InsertSteps, NextPage
    <3>4. ASSUME LockKept PROVE \A s \in FlagSlots : flagRows'[s] <= 1
      <4> DEFINE p == cur[w][1]
                 new == AnomalyFlags(p, fresh[w])
      <4>1. \A s \in FlagSlotsOf(p) : ~(flagRows[s] > 0)
        BY <2>34, <3>4 DEF InsertFlags, RowInv, PageFlagged
      <4>2. new \subseteq FlagSlotsOf(p)
        BY DEF AnomalyFlags, RegionsOf, FlagSlotsOf
      <4>3. flagRows' = [s \in FlagSlots |-> IF s \in new THEN flagRows[s] + 1 ELSE flagRows[s]]
        BY <2>34 DEF InsertFlags
      <4>4. \A s \in FlagSlots : flagRows[s] <= 1
        BY <3>4 DEF RowInv
      <4> HIDE DEF p, new
      <4> QED BY <4>1, <4>2, <4>3, <4>4, <1>t
    <3> QED BY <3>1, <3>2, <3>3, <3>4, <1>k, RowsOfOneRun DEF RowInv, InsertSteps
  <2> QED
    BY <1>2, <2>1, <2>2, <2>3, <2>4, <2>5, <2>6, <2>7, <2>8, <2>9, <2>10, <2>11, <2>12, <2>13, <2>14, <2>15, <2>16, <2>17, <2>18, <2>19, <2>20, <2>21, <2>22, <2>23, <2>24, <2>25, <2>26, <2>27, <2>28, <2>29, <2>30, <2>31, <2>32, <2>33, <2>34
    DEF WorkerStep, FaultStep, RunStep
<1> QED BY <1>1, <1>2 DEF Next

\* Crashes, retries and redeliveries never duplicate an entity or a flag, although no
\* unique constraint protects them, as long as no run lost its lock.
THEOREM RowsInsertedOnce == Spec => []NoDuplicateRows
<1>1. RowInv => NoDuplicateRows
  BY DEF RowInv, NoDuplicateRows
<1> QED
  BY <1>1, TypeInit, TypeNext, LockInit, LockNext, RowInit, RowNext, PTL DEF Spec
=============================================================================
