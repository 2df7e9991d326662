---------------------------- MODULE LifecycleProofs ----------------------------
(* DocumentPipeline implements DocumentLifecycle, for every set of workers,       *)
(* layout and bound on the faults, and with or without the lock.                  *)
EXTENDS PipelineProofs

-------------------------------------------------------------------------------
(* Pages, regions and flag slots *)

LEMMA RegionShape ==
  /\ \A r \in Regions : r[1] \in Pages /\ r[2] \in 1..Layout[r[1]] /\ r = <<r[1], r[2]>>
  /\ \A p \in Pages : \A k \in 1..Layout[p] : <<p, k>> \in Regions
<1>1. \A p \in Pages : RegionsOf(p) = {p} \X (1..Layout[p])
  BY DEF RegionsOf
<1> QED BY <1>1 DEF Regions

LEMMA RegionsOfPage ==
  ASSUME NEW p \in Pages
  PROVE  RegionsOf(p) = {r \in Regions : r[1] = p}
BY RegionShape DEF RegionsOf

LEMMA SlotShape ==
  ASSUME NEW p \in Pages
  PROVE  /\ <<p, 0>> \in FlagSlots
         /\ RegionsOf(p) \subseteq FlagSlots
         /\ FlagSlotsOf(p) \subseteq FlagSlots
         /\ \A r \in RegionsOf(p) : r[2] # 0
         /\ Layout[p] \in Nat
         /\ Layout[p] = 0 <=> RegionsOf(p) = {}
<1>1. Layout[p] \in Nat
  BY PipelineAssumption
<1>2. <<p, 0>> \in FlagSlotsOf(p)
  BY <1>1 DEF FlagSlotsOf
<1>3. FlagSlotsOf(p) \subseteq FlagSlots
  BY DEF FlagSlots
<1>4. RegionsOf(p) \subseteq FlagSlotsOf(p) /\ \A r \in RegionsOf(p) : r[2] # 0
  BY <1>1 DEF RegionsOf, FlagSlotsOf
<1>5. Layout[p] # 0 => <<p, 1>> \in RegionsOf(p)
  BY <1>1 DEF RegionsOf
<1>6. Layout[p] = 0 => RegionsOf(p) = {}
  BY DEF RegionsOf
<1> QED BY <1>1, <1>2, <1>3, <1>4, <1>5, <1>6

-------------------------------------------------------------------------------
(* Rows are only added *)

Grown ==
  /\ \A p \in Pages : /\ page[p] => page'[p]
                      /\ image[p] => image'[p]
                      /\ fullText[p] => fullText'[p]
  /\ \A r \in Regions : ocr[r] # "none" => ocr'[r] = ocr[r]
  /\ \A s \in FlagSlots : flagRows[s] > 0 => flagRows'[s] > 0

LEMMA SameRowsGrown ==
  ASSUME UNCHANGED dataVars
  PROVE  Grown
BY DEF dataVars, Grown

LEMMA StepGrows ==
  ASSUME NEW w \in Workers, TypeOK, WorkerStep(w) \/ FaultStep(w)
  PROVE  Grown
<1>t. /\ page \in [Pages -> BOOLEAN] /\ image \in [Pages -> BOOLEAN]
      /\ fullText \in [Pages -> BOOLEAN] /\ flagRows \in [FlagSlots -> Nat]
      /\ ocr \in [Regions -> OcrStatus \cup {"none"}]
  BY DEF TypeOK
<1>1. CASE InsertPage(w)
  BY <1>1, <1>t DEF InsertPage, Grown
<1>2. CASE PersistImage(w)
  BY <1>2, <1>t DEF PersistImage, Grown
<1>3. CASE InsertEmptyFlag(w)
  BY <1>3, <1>t DEF InsertEmptyFlag, Grown
<1>4. CASE InsertOcr(w)
  BY <1>4, <1>t DEF InsertOcr, Grown
<1>5. CASE UpdateFullText(w)
  BY <1>5, <1>t DEF UpdateFullText, Grown
<1>6. CASE InsertFlags(w)
  BY <1>6, <1>t DEF InsertFlags, Grown
<1>7. CASE InsertEntities(w)
  BY <1>7 DEF InsertEntities, Grown
<1>8. UNCHANGED dataVars \/ InsertPage(w) \/ PersistImage(w) \/ InsertEmptyFlag(w) \/ InsertOcr(w)
        \/ UpdateFullText(w) \/ InsertFlags(w) \/ InsertEntities(w)
  BY DEF WorkerStep, FaultStep, RunStep, Receive, LoadDocument, AcquireLock, LockTimeout,
      Start, EnsurePage, EmptyLayout,
      OcrRunning, OcrRegion, Extracting, ExtractRegion,
      AnomalyStage, FinishOcr, FinishIndex, FinishReview,
      CommitStatus, Release, Retry, MarkError, RunRaises, SoftLimitInOcr, HardTimeLimit,
      WorkerLost, Redeliver, RetryNotPublished, ErrorNotMarked, LockLost, Recycle
<1> QED BY <1>1, <1>2, <1>3, <1>4, <1>5, <1>6, <1>7, <1>8, SameRowsGrown

LEMMA CompleteStays ==
  ASSUME NEW p \in Pages, Grown, PageComplete(p)
  PROVE  PageComplete(p)'
<1>1. \A r \in RegionsOf(p) : r \in Regions
  BY RegionsOfPage
<1> QED BY <1>1, SlotShape DEF Grown, PageComplete

-------------------------------------------------------------------------------
(* A worker's own locals *)

OwnLocals(v) ==
  UNCHANGED <<pc[v], cur[v], partial[v], flagged[v]>>

LEMMA OthersKeepLocals ==
  ASSUME NEW w \in Workers, NEW v \in Workers, v # w, TypeOK, WorkerStep(w) \/ FaultStep(w)
  PROVE  OwnLocals(v)
<1>t. /\ pc \in [Workers -> Steps] /\ cur \in [Workers -> Nat \X Nat]
      /\ partial \in [Workers -> BOOLEAN] /\ flagged \in [Workers -> BOOLEAN]
  BY DEF TypeOK, LocalTypeOK
<1>1. pc'[v] = pc[v]
  BY <1>t
  DEF WorkerStep, FaultStep, RunStep, Receive, LoadDocument, AcquireLock, LockTimeout,
      Start, EnsurePage, InsertPage, PersistImage, EmptyLayout, InsertEmptyFlag,
      OcrRunning, OcrRegion, InsertOcr, Extracting, ExtractRegion, InsertEntities,
      UpdateFullText, AnomalyStage, InsertFlags, FinishOcr, FinishIndex, FinishReview,
      CommitStatus, Release, Retry, MarkError, RunRaises, SoftLimitInOcr, HardTimeLimit,
      WorkerLost, Redeliver, RetryNotPublished, ErrorNotMarked, LockLost, Recycle, Die,
      Goto, NextPage, NextRegion
<1>2. cur'[v] = cur[v] /\ partial'[v] = partial[v] /\ flagged'[v] = flagged[v]
  BY <1>t
  DEF WorkerStep, FaultStep, RunStep, Receive, LoadDocument, AcquireLock, LockTimeout,
      Start, EnsurePage, InsertPage, PersistImage, EmptyLayout, InsertEmptyFlag,
      OcrRunning, OcrRegion, InsertOcr, Extracting, ExtractRegion, InsertEntities,
      UpdateFullText, AnomalyStage, InsertFlags, FinishOcr, FinishIndex, FinishReview,
      CommitStatus, Release, Retry, MarkError, RunRaises, SoftLimitInOcr, HardTimeLimit,
      WorkerLost, Redeliver, RetryNotPublished, ErrorNotMarked, LockLost, Recycle, Die,
      Forget, NextPage, NextRegion, localVars, tallyVars
<1> QED BY <1>1, <1>2 DEF OwnLocals

LEMMA PlaceStays ==
  ASSUME NEW v \in Workers, TypeOK, Grown, OwnLocals(v), Place(v)
  PROVE  Place(v)'
<1>1. PagesBehind(v)' = PagesBehind(v) /\ PagesBehind(v) \subseteq Pages
  BY DEF OwnLocals, PagesBehind
<1>2. \A p \in PagesBehind(v) : PageComplete(p)'
  BY <1>1, CompleteStays DEF Place
<1>3. pc[v] \in AfterPage \cup AfterImage \cup AfterText => pc[v] \in PageSteps
  BY DEF AfterPage, AfterImage, AfterText, PageSteps, RunSteps
<1> QED BY <1>1, <1>2, <1>3 DEF Place, Grown, OwnLocals

LEMMA TallyStays ==
  ASSUME NEW v \in Workers, TypeOK, Grown, OwnLocals(v), Place(v), Tally(v)
  PROVE  Tally(v)'
<1>1. PagesBehind(v)' = PagesBehind(v) /\ PagesBehind(v) \subseteq Pages
  BY DEF OwnLocals, PagesBehind
<1>2. Counted(v)' = Counted(v) /\ Counted(v) \subseteq Regions
  BY DEF OwnLocals, Counted
<1>3. \A r \in Counted(v) : ocr'[r] # "none" /\ (ocr'[r] = "ok" \/ partial'[v])
  BY <1>2 DEF Tally, Grown, OwnLocals
<1>4. partial'[v] => \E r \in Regions : ocr'[r] \in {"ocr_partial", "failed"}
  BY DEF Tally, Grown, OwnLocals
<1>5. flagged'[v] => \E s \in FlagSlots : flagRows'[s] > 0
  BY DEF Tally, Grown, OwnLocals
<1>6. ASSUME NEW p \in PagesBehind(v), NEW r \in RegionsOf(p), ocr'[r] = "failed"
      PROVE  flagged'[v]
  <2>1. PageComplete(p) /\ p \in Pages
    BY <1>1 DEF Place
  <2>2. Layout[p] # 0
    BY <2>1, SlotShape
  <2>3. ocr[r] # "none" /\ r \in Regions
    BY <2>1, <2>2, RegionsOfPage DEF PageComplete
  <2> QED BY <1>6, <2>3 DEF Tally, Grown, OwnLocals
<1> QED BY <1>1, <1>2, <1>3, <1>4, <1>5, <1>6 DEF Tally

-------------------------------------------------------------------------------
(* The ways a step moves its worker *)

\* A run that is over, or not begun: nothing is counted.
LEMMA OutOfLoop ==
  ASSUME NEW w \in Workers, Grown, Tally(w),
         pc'[w] \notin PageSteps \cup Closing,
         pc'[w] \in {"idle", "load", "lock", "start"} => cur'[w] = <<1, 1>>,
         partial'[w] => partial[w], flagged'[w] => flagged[w]
  PROVE  Place(w)' /\ Tally(w)'
<1>1. Counted(w)' = {} /\ PagesBehind(w)' = {}
  BY DEF Counted, PagesBehind, AfterOcr, OcrSteps, PageSteps, RunSteps
<1>2. Place(w)'
  BY <1>1 DEF Place, PageSteps, RunSteps, AfterPage, AfterImage, AfterText, OcrSteps, Closing
<1>3. partial'[w] => \E r \in Regions : ocr'[r] \in {"ocr_partial", "failed"}
  BY DEF Tally, Grown
<1>4. flagged'[w] => \E s \in FlagSlots : flagRows'[s] > 0
  BY DEF Tally, Grown
<1> QED BY <1>1, <1>2, <1>3, <1>4 DEF Tally

\* A step within a page that reads no region.
LEMMA SamePage ==
  ASSUME NEW w \in Workers, TypeOK, Grown, Place(w), Tally(w),
         pc[w] \in PageSteps, pc'[w] \in PageSteps,
         cur'[w][1] = cur[w][1], Counted(w)' = Counted(w),
         partial'[w] = partial[w], flagged'[w] = flagged[w]
  PROVE  (\A p \in PagesBehind(w) : PageComplete(p))' /\ Tally(w)'
<1>0. PageSteps \cap Closing = {}
  BY DEF PageSteps, Closing
<1>1. PagesBehind(w)' = PagesBehind(w) /\ PagesBehind(w) \subseteq Pages
  BY <1>0 DEF PagesBehind
<1>2. \A p \in PagesBehind(w) : PageComplete(p)'
  BY <1>1, CompleteStays DEF Place
<1>3. Counted(w) \subseteq Regions
  BY DEF Counted
<1>4. \A r \in Counted(w) : ocr'[r] # "none" /\ (ocr'[r] = "ok" \/ partial'[w])
  BY <1>3 DEF Tally, Grown
<1>5. partial'[w] => \E r \in Regions : ocr'[r] \in {"ocr_partial", "failed"}
  BY DEF Tally, Grown
<1>6. flagged'[w] => \E s \in FlagSlots : flagRows'[s] > 0
  BY DEF Tally, Grown
<1>7. ASSUME NEW p \in PagesBehind(w), NEW r \in RegionsOf(p), ocr'[r] = "failed"
      PROVE  flagged'[w]
  <2>1. PageComplete(p) /\ p \in Pages
    BY <1>1 DEF Place
  <2>2. Layout[p] # 0
    BY <2>1, SlotShape
  <2>3. ocr[r] # "none" /\ r \in Regions
    BY <2>1, <2>2, RegionsOfPage DEF PageComplete
  <2> QED BY <1>7, <2>3 DEF Tally, Grown
<1> QED BY <1>1, <1>2, <1>4, <1>5, <1>6, <1>7 DEF Tally

\* The end of a page: it is complete, and its failed regions have been flagged.
LEMMA PageDone ==
  ASSUME NEW w \in Workers, TypeOK, Grown, Place(w), Tally(w),
         pc[w] \in AfterOcr \cup EmptySteps, NextPage(w),
         NEW p0 \in Pages, p0 = cur[w][1], PageComplete(p0)', partial'[w] = partial[w],
         flagged[w] => flagged'[w],
         flagged'[w] => \E s \in FlagSlots : flagRows'[s] > 0,
         \A r \in RegionsOf(p0) : ocr'[r] = "failed" => flagged'[w]
  PROVE  Place(w)' /\ Tally(w)'
<1>0. pc[w] \in PageSteps /\ pc[w] \in AfterImage /\ pc[w] \notin OcrSteps \cup Closing
  BY DEF PageSteps, RunSteps, AfterOcr, EmptySteps, AfterImage, AfterPage, OcrSteps, Closing
<1>1. p0 \in 1..NumPages /\ NumPages \in Nat
  BY <1>0, PipelineAssumption DEF Place, Pages
<1>2. pc[w] \in AfterOcr \/ RegionsOf(p0) = {}
  BY <1>0, <1>1, SlotShape DEF Place, Pages
<1>3. Regions \cap {r \in Regions : r[1] <= p0} \subseteq Counted(w)
  <2>1. ASSUME NEW r \in Regions, r[1] <= p0 PROVE r \in Counted(w)
    <3>1. r[1] \in 1..NumPages
      BY RegionShape DEF Pages
    <3>2. CASE r[1] < p0
      BY <1>0, <3>2 DEF Counted
    <3>3. CASE r[1] = p0
      <4>1. r \in RegionsOf(p0)
        BY <1>1, <3>3, RegionsOfPage DEF Pages
      <4> QED BY <1>2, <3>3, <4>1 DEF Counted
    <3> QED BY <1>1, <2>1, <3>1, <3>2, <3>3
  <2> QED BY <2>1
<1>4. PagesBehind(w) = {p \in Pages : p < p0}
  BY <1>0 DEF PagesBehind
<1>t. pc \in [Workers -> Steps] /\ cur \in [Workers -> Nat \X Nat]
  BY DEF TypeOK, LocalTypeOK
<1>5. /\ PagesBehind(w)' = {p \in Pages : p <= p0}
      /\ Counted(w)' \subseteq {r \in Regions : r[1] <= p0}
      /\ \/ p0 < NumPages /\ pc'[w] = "page" /\ cur'[w] = <<p0 + 1, 1>>
         \/ p0 = NumPages /\ pc'[w] = "ocrDone"
  <2>1. CASE p0 < NumPages
    <3>1. pc'[w] = "page" /\ cur'[w] = <<p0 + 1, 1>>
      BY <1>t, <2>1 DEF NextPage, Goto
    <3>2. "page" \in PageSteps /\ "page" \notin AfterOcr \cup OcrSteps \cup Closing
      BY DEF PageSteps, RunSteps, AfterOcr, OcrSteps, Closing
    <3>3. PagesBehind(w)' = {p \in Pages : p < p0 + 1}
      BY <3>1, <3>2 DEF PagesBehind
    <3>4. Counted(w)' = {r \in Regions : r[1] < p0 + 1}
      BY <3>1, <3>2 DEF Counted
    <3>5. \A p \in Pages : p < p0 + 1 <=> p <= p0
      BY <1>1 DEF Pages
    <3>6. \A r \in Regions : r[1] < p0 + 1 => r[1] <= p0
      BY <1>1, RegionShape DEF Pages
    <3> QED BY <2>1, <3>1, <3>3, <3>4, <3>5, <3>6
  <2>2. CASE ~(p0 < NumPages)
    <3>1. p0 = NumPages /\ pc'[w] = "ocrDone"
      BY <1>t, <1>1, <2>2 DEF NextPage, Goto
    <3>2. PagesBehind(w)' = Pages /\ Counted(w)' \subseteq Regions
      BY <3>1 DEF PagesBehind, Counted, Closing
    <3>3. \A p \in Pages : p <= p0
      BY <1>1, <3>1 DEF Pages
    <3>4. \A r \in Regions : r[1] <= p0
      BY <3>3, RegionShape
    <3> QED BY <3>1, <3>2, <3>3, <3>4
  <2> QED BY <2>1, <2>2
<1>6. ASSUME NEW p \in PagesBehind(w)'
      PROVE  /\ PageComplete(p)'
             /\ \A r \in RegionsOf(p) : ocr'[r] = "failed" => flagged'[w]
  <2>0. p \in Pages /\ (p = p0 \/ p \in PagesBehind(w))
    BY <1>1, <1>4, <1>5 DEF Pages
  <2>1. CASE p = p0
    BY <2>1
  <2>2. CASE p \in PagesBehind(w)
    <3>1. PageComplete(p)
      BY <2>2 DEF Place
    <3>2. ASSUME NEW r \in RegionsOf(p), ocr'[r] = "failed" PROVE flagged'[w]
      <4>1. Layout[p] # 0
        BY <2>0, SlotShape
      <4>2. ocr[r] # "none" /\ r \in Regions
        BY <2>0, <3>1, <4>1, RegionsOfPage DEF PageComplete
      <4> QED BY <2>2, <3>2, <4>2 DEF Tally, Grown
    <3> QED BY <2>0, <3>1, <3>2, CompleteStays
  <2> QED BY <2>0, <2>1, <2>2
<1>7. Place(w)'
  <2>1. p0 < NumPages => p0 + 1 \in Pages
    BY <1>1 DEF Pages
  <2>2. NumPages > 0
    BY <1>1
  <2> QED BY <1>5, <1>6, <2>1, <2>2
          DEF Place, PageSteps, RunSteps, AfterPage, AfterImage, AfterText, OcrSteps, Closing
<1>8. Tally(w)'
  <2>1. \A r \in Counted(w)' : r \in Counted(w) /\ r \in Regions
    BY <1>3, <1>5
  <2>2. \A r \in Counted(w)' : ocr'[r] # "none" /\ (ocr'[r] = "ok" \/ partial'[w])
    BY <2>1 DEF Tally, Grown
  <2>3. partial'[w] => \E r \in Regions : ocr'[r] \in {"ocr_partial", "failed"}
    BY DEF Tally, Grown
  <2> QED BY <1>6, <2>2, <2>3 DEF Tally
<1> QED BY <1>7, <1>8

\* The end of a region in the OCR stage: its result is there and counted.
LEMMA RegionRead ==
  ASSUME NEW w \in Workers, TypeOK, Grown, Place(w), Tally(w),
         pc[w] \in OcrSteps, NextRegion(w, "ocr", "extracting"),
         ocr'[cur[w]] # "none", ocr'[cur[w]] = "ok" \/ partial'[w],
         partial[w] => partial'[w],
         partial'[w] => \E r \in Regions : ocr'[r] \in {"ocr_partial", "failed"},
         flagged'[w] = flagged[w]
  PROVE  Place(w)' /\ Tally(w)'
<1>t. pc \in [Workers -> Steps] /\ cur \in [Workers -> Nat \X Nat]
  BY DEF TypeOK, LocalTypeOK
<1>0. PICK p0 \in Nat, i0 \in Nat : cur[w] = <<p0, i0>>
  BY <1>t
<1>1. /\ pc[w] \in PageSteps /\ pc[w] \in AfterImage /\ pc[w] \in AfterPage
      /\ pc[w] \notin AfterOcr \cup Closing \cup EmptySteps
  BY DEF PageSteps, RunSteps, AfterOcr, EmptySteps, AfterImage, AfterPage, OcrSteps, Closing
<1>2. /\ p0 \in Pages /\ i0 \in 1..Layout[p0] /\ page[p0] /\ image[p0]
      /\ Layout[p0] # 0 /\ Layout[p0] \in Nat
  BY <1>0, <1>1, PipelineAssumption DEF Place
<1>3. PagesBehind(w) = {p \in Pages : p < p0}
  BY <1>0, <1>1 DEF PagesBehind
<1>4. Counted(w) = {r \in Regions : r[1] < p0 \/ (r[1] = p0 /\ r[2] < i0)}
  BY <1>0, <1>1 DEF Counted
<1>5. \/ i0 < Layout[p0] /\ pc'[w] = "ocr" /\ cur'[w] = <<p0, i0 + 1>>
      \/ i0 = Layout[p0] /\ pc'[w] = "extracting" /\ cur'[w] = <<p0, 1>>
  <2>1. CASE i0 < Layout[p0]
    BY <1>0, <1>t, <2>1 DEF NextRegion, Goto
  <2>2. CASE ~(i0 < Layout[p0])
    <3>1. i0 = Layout[p0]
      BY <1>2, <2>2
    <3> QED BY <1>0, <1>t, <2>2, <3>1 DEF NextRegion, Goto
  <2> QED BY <2>1, <2>2
<1>6. PagesBehind(w)' = {p \in Pages : p < p0}
  BY <1>5 DEF PagesBehind, PageSteps, RunSteps, Closing
<1>7. ASSUME NEW r \in Counted(w)' PROVE r \in Regions /\ (r \in Counted(w) \/ r = cur[w])
  <2>1. r \in Regions /\ r[1] \in Nat /\ r[2] \in Nat /\ r = <<r[1], r[2]>> /\ r[2] <= Layout[r[1]]
    <3>1. r \in Regions
      BY DEF Counted
    <3>2. r[1] \in Pages /\ r[2] \in 1..Layout[r[1]] /\ r = <<r[1], r[2]>>
      BY <3>1, RegionShape
    <3> QED BY <3>1, <3>2, PipelineAssumption DEF Pages
  <2>2. r[1] < p0 \/ (r[1] = p0 /\ r[2] <= i0)
    <3>1. CASE pc'[w] = "ocr" /\ cur'[w] = <<p0, i0 + 1>>
      BY <1>0, <2>1, <3>1 DEF Counted, PageSteps, RunSteps, Closing, AfterOcr, OcrSteps
    <3>2. CASE i0 = Layout[p0] /\ pc'[w] = "extracting" /\ cur'[w] = <<p0, 1>>
      BY <2>1, <3>2 DEF Counted, PageSteps, RunSteps, Closing, AfterOcr, OcrSteps
    <3> QED BY <1>5, <3>1, <3>2
  <2> QED BY <1>0, <1>4, <2>1, <2>2
<1>8. Place(w)'
  <2>1. \A p \in PagesBehind(w)' : PageComplete(p)'
    BY <1>3, <1>6, CompleteStays DEF Place
  <2>2. page'[p0] /\ image'[p0]
    BY <1>2 DEF Grown
  <2>3. CASE i0 < Layout[p0] /\ pc'[w] = "ocr" /\ cur'[w] = <<p0, i0 + 1>>
    <3>1. i0 + 1 \in 1..Layout[p0]
      BY <1>2, <2>3
    <3> QED BY <1>2, <2>1, <2>2, <2>3, <3>1
        DEF Place, PageSteps, RunSteps, AfterPage, AfterImage, AfterText, OcrSteps, Closing,
            EmptySteps
  <2>4. CASE pc'[w] = "extracting" /\ cur'[w] = <<p0, 1>>
    BY <1>2, <2>1, <2>2, <2>4
    DEF Place, PageSteps, RunSteps, AfterPage, AfterImage, AfterText, OcrSteps, Closing,
        EmptySteps
  <2> QED BY <1>5, <2>3, <2>4
<1>9. Tally(w)'
  <2>1. \A r \in Counted(w)' : ocr'[r] # "none" /\ (ocr'[r] = "ok" \/ partial'[w])
    BY <1>7 DEF Tally, Grown
  <2>2. flagged'[w] => \E s \in FlagSlots : flagRows'[s] > 0
    BY DEF Tally, Grown
  <2>3. ASSUME NEW p \in PagesBehind(w)', NEW r \in RegionsOf(p), ocr'[r] = "failed"
        PROVE  flagged'[w]
    <3>1. p \in PagesBehind(w) /\ p \in Pages
      BY <1>3, <1>6
    <3>2. PageComplete(p) /\ Layout[p] # 0
      BY <3>1, SlotShape DEF Place
    <3>3. ocr[r] # "none" /\ r \in Regions
      BY <3>1, <3>2, RegionsOfPage DEF PageComplete
    <3> QED BY <2>3, <3>1, <3>3 DEF Tally, Grown
  <2> QED BY <2>1, <2>2, <2>3 DEF Tally
<1> QED BY <1>8, <1>9

-------------------------------------------------------------------------------
(* The invariant, step by step *)

\* Steps of the loop that stay on their page, before or after its OCR stage.
Moves(w) ==
  /\ pc'[w] \in PageSteps
  /\ cur'[w][1] = cur[w][1]
  /\ pc'[w] \in AfterOcr <=> pc[w] \in AfterOcr
  /\ pc'[w] \in OcrSteps => pc[w] = "ocrRunning" /\ cur'[w][2] = 1
  /\ pc'[w] \in {"image", "ocrRunning"} => cur'[w][2] = 1
  /\ pc'[w] # "page" /\ (pc'[w] # "insertPage" \/ cur'[w][2] = 1)
  /\ pc'[w] \in AfterPage => page'[cur[w][1]]
  /\ pc'[w] \in AfterImage =>
       image'[cur[w][1]] /\ (Layout[cur[w][1]] = 0 <=> pc'[w] \in EmptySteps)
  /\ pc'[w] \in AfterText => fullText'[cur[w][1]]

LEMMA Onwards ==
  ASSUME NEW w \in Workers, TypeOK, Grown, Place(w), Tally(w),
         pc[w] \in PageSteps \ OcrSteps, Moves(w),
         partial'[w] = partial[w], flagged'[w] = flagged[w]
  PROVE  Place(w)' /\ Tally(w)'
<1> USE DEF Moves
<1> DEFINE p0 == cur[w][1]
<1>1. PageSteps \cap Closing = {} /\ OcrSteps \cap AfterOcr = {}
  BY DEF PageSteps, Closing, OcrSteps, AfterOcr
<1>2. p0 \in Pages /\ Layout[p0] \in Nat
  BY PipelineAssumption DEF Place
<1>3. Counted(w)' = Counted(w)
  <2>1. ASSUME NEW r \in Regions PROVE ~(r[2] < 1)
    <3>1. r[1] \in Pages /\ r[2] \in 1..Layout[r[1]]
      BY RegionShape
    <3> QED BY <3>1, PipelineAssumption
  <2>2. CASE pc'[w] \in OcrSteps
    BY <1>1, <2>1, <2>2 DEF Counted, OcrSteps, AfterOcr
  <2>3. CASE pc'[w] \notin OcrSteps
    BY <1>1, <2>3 DEF Counted
  <2> QED BY <2>2, <2>3
<1>4. (\A p \in PagesBehind(w) : PageComplete(p))' /\ Tally(w)'
  BY <1>3, SamePage
<1>5. pc'[w] \in OcrSteps => cur'[w][2] \in 1..Layout[p0]
  <2>1. pc'[w] \in OcrSteps => pc'[w] \in AfterImage /\ pc'[w] \notin EmptySteps
    BY DEF OcrSteps, AfterImage, AfterPage, PageSteps, RunSteps, EmptySteps
  <2> QED BY <1>2, <2>1
<1>6. pc'[w] \notin {"idle", "load", "lock", "start"}
  BY DEF PageSteps, RunSteps
<1> QED BY <1>1, <1>2, <1>4, <1>5, <1>6 DEF Place

\* What Place says of a worker in the loop, in one piece.
LEMMA InLoop ==
  ASSUME NEW w \in Workers, TypeOK, Place(w), pc[w] \in PageSteps
  PROVE  /\ cur[w][1] \in Pages /\ Layout[cur[w][1]] \in Nat
         /\ cur[w] \in Nat \X Nat
         /\ pc[w] \in OcrSteps => cur[w] \in Regions
<1>1. cur[w][1] \in Pages /\ cur[w] \in Nat \X Nat
  BY DEF Place, TypeOK, LocalTypeOK
<1>2. pc[w] \in OcrSteps => cur[w] = <<cur[w][1], cur[w][2]>> /\ cur[w][2] \in 1..Layout[cur[w][1]]
  BY <1>1 DEF Place
<1> QED BY <1>1, <1>2, PipelineAssumption, RegionShape

\* The two commits after the last page.
LEMMA StillClosing ==
  ASSUME NEW w \in Workers, TypeOK, Grown, Place(w), Tally(w),
         pc[w] \in Closing, pc'[w] \in {"indexed", "final"},
         partial'[w] = partial[w], flagged'[w] = flagged[w]
  PROVE  Place(w)' /\ Tally(w)'
<1>1. Counted(w) = Regions /\ Counted(w)' = Regions
  BY DEF Counted, Closing
<1>2. PagesBehind(w) = Pages /\ PagesBehind(w)' = Pages
  BY DEF PagesBehind, Closing
<1>3. \A p \in Pages : PageComplete(p) /\ PageComplete(p)'
  BY <1>2, CompleteStays DEF Place
<1>4. Place(w)'
  BY <1>2, <1>3 DEF Place, PageSteps, RunSteps, AfterPage, AfterImage, AfterText, OcrSteps, Closing
<1>5. \A r \in Regions : ocr'[r] # "none" /\ (ocr'[r] = "ok" \/ partial'[w])
  BY <1>1 DEF Tally, Grown
<1>6. partial'[w] => \E r \in Regions : ocr'[r] \in {"ocr_partial", "failed"}
  BY DEF Tally, Grown
<1>7. flagged'[w] => \E s \in FlagSlots : flagRows'[s] > 0
  BY DEF Tally, Grown
<1>8. ASSUME NEW p \in Pages, NEW r \in RegionsOf(p), ocr'[r] = "failed" PROVE flagged'[w]
  <2>1. r \in Regions
    BY RegionsOfPage
  <2>2. ocr[r] = "failed"
    BY <1>1, <1>8, <2>1 DEF Tally, Grown
  <2> QED BY <1>2, <2>2 DEF Tally
<1> QED BY <1>1, <1>2, <1>4, <1>5, <1>6, <1>7, <1>8 DEF Tally

\* A region without a result is about to get one.
LEMMA OcrGoesOn ==
  ASSUME NEW w \in Workers, TypeOK, Grown, Place(w), Tally(w),
         pc[w] = "ocr", pc'[w] = "insertOcr", UNCHANGED <<cur, dataVars>>,
         partial'[w] = partial[w], flagged'[w] = flagged[w]
  PROVE  Place(w)' /\ Tally(w)'
<1>1. Counted(w)' = Counted(w)
  BY DEF Counted, PageSteps, RunSteps, Closing, AfterOcr, OcrSteps
<1>2. pc[w] \in PageSteps /\ pc'[w] \in PageSteps
  BY DEF PageSteps, RunSteps
<1>3. (\A p \in PagesBehind(w) : PageComplete(p))' /\ Tally(w)'
  BY <1>1, <1>2, SamePage
<1> QED BY <1>2, <1>3 DEF Place, dataVars, PageSteps, RunSteps, AfterPage, AfterImage,
           AfterText, OcrSteps, EmptySteps, Closing

LEMMA OwnStep ==
  ASSUME NEW w \in Workers, TypeOK, Place(w), Tally(w), WorkerStep(w) \/ FaultStep(w)
  PROVE  Place(w)' /\ Tally(w)'
<1> USE DEF At
<1>g. Grown
  BY StepGrows
<1>t. /\ pc \in [Workers -> Steps] /\ cur \in [Workers -> Nat \X Nat]
      /\ partial \in [Workers -> BOOLEAN] /\ flagged \in [Workers -> BOOLEAN]
      /\ page \in [Pages -> BOOLEAN] /\ image \in [Pages -> BOOLEAN]
      /\ fullText \in [Pages -> BOOLEAN] /\ flagRows \in [FlagSlots -> Nat]
      /\ ocr \in [Regions -> OcrStatus \cup {"none"}]
  BY DEF TypeOK, LocalTypeOK
<1>p. /\ Pages = 1..NumPages /\ NumPages \in Nat
  BY PipelineAssumption DEF Pages
<1>1. CASE Receive(w)
  <2>1. pc'[w] \in {"idle", "load", "lock", "start", "release", "retry", "markError"}
    BY <1>t, <1>1 DEF Receive, Goto
  <2>2. /\ pc'[w] \in {"idle", "load", "lock", "start"} => cur'[w] = <<1, 1>>
        /\ partial'[w] => partial[w]
        /\ flagged'[w] => flagged[w]
    BY <1>t, <1>1 DEF Receive, Goto, Forget, Place, localVars, tallyVars
  <2> QED BY <1>g, <2>1, <2>2, OutOfLoop DEF PageSteps, RunSteps, Closing
<1>2. CASE LoadDocument(w)
  <2>1. pc'[w] \in {"idle", "load", "lock", "start", "release", "retry", "markError"}
    BY <1>t, <1>2 DEF LoadDocument, Goto
  <2>2. /\ pc'[w] \in {"idle", "load", "lock", "start"} => cur'[w] = <<1, 1>>
        /\ partial'[w] => partial[w]
        /\ flagged'[w] => flagged[w]
    BY <1>t, <1>2 DEF LoadDocument, Goto, Forget, Place, localVars, tallyVars
  <2> QED BY <1>g, <2>1, <2>2, OutOfLoop DEF PageSteps, RunSteps, Closing
<1>3. CASE AcquireLock(w)
  <2>1. pc'[w] \in {"idle", "load", "lock", "start", "release", "retry", "markError"}
    BY <1>t, <1>3 DEF AcquireLock, Goto
  <2>2. /\ pc'[w] \in {"idle", "load", "lock", "start"} => cur'[w] = <<1, 1>>
        /\ partial'[w] => partial[w]
        /\ flagged'[w] => flagged[w]
    BY <1>t, <1>3 DEF AcquireLock, Goto, Forget, Place, localVars, tallyVars
  <2> QED BY <1>g, <2>1, <2>2, OutOfLoop DEF PageSteps, RunSteps, Closing
<1>4. CASE LockTimeout(w)
  <2>1. pc'[w] \in {"idle", "load", "lock", "start", "release", "retry", "markError"}
    BY <1>t, <1>4 DEF LockTimeout, Goto
  <2>2. /\ pc'[w] \in {"idle", "load", "lock", "start"} => cur'[w] = <<1, 1>>
        /\ partial'[w] => partial[w]
        /\ flagged'[w] => flagged[w]
    BY <1>t, <1>4 DEF LockTimeout, Goto, Forget, Place, localVars, tallyVars
  <2> QED BY <1>g, <2>1, <2>2, OutOfLoop DEF PageSteps, RunSteps, Closing
<1>5. CASE Release(w)
  <2>1. pc'[w] \in {"idle", "load", "lock", "start", "release", "retry", "markError"}
    BY <1>t, <1>5 DEF Release, Goto
  <2>2. /\ pc'[w] \in {"idle", "load", "lock", "start"} => cur'[w] = <<1, 1>>
        /\ partial'[w] => partial[w]
        /\ flagged'[w] => flagged[w]
    BY <1>t, <1>5 DEF Release, Goto, Forget, Place, localVars, tallyVars
  <2> QED BY <1>g, <2>1, <2>2, OutOfLoop DEF PageSteps, RunSteps, Closing
<1>6. CASE Retry(w)
  <2>1. pc'[w] \in {"idle", "load", "lock", "start", "release", "retry", "markError"}
    BY <1>t, <1>6 DEF Retry, Goto
  <2>2. /\ pc'[w] \in {"idle", "load", "lock", "start"} => cur'[w] = <<1, 1>>
        /\ partial'[w] => partial[w]
        /\ flagged'[w] => flagged[w]
    BY <1>t, <1>6 DEF Retry, Goto, Forget, Place, localVars, tallyVars
  <2> QED BY <1>g, <2>1, <2>2, OutOfLoop DEF PageSteps, RunSteps, Closing
<1>7. CASE MarkError(w)
  <2>1. pc'[w] \in {"idle", "load", "lock", "start", "release", "retry", "markError"}
    BY <1>t, <1>7 DEF MarkError, Goto
  <2>2. /\ pc'[w] \in {"idle", "load", "lock", "start"} => cur'[w] = <<1, 1>>
        /\ partial'[w] => partial[w]
        /\ flagged'[w] => flagged[w]
    BY <1>t, <1>7 DEF MarkError, Goto, Forget, Place, localVars, tallyVars
  <2> QED BY <1>g, <2>1, <2>2, OutOfLoop DEF PageSteps, RunSteps, Closing
<1>8. CASE RunRaises(w)
  <2>1. pc'[w] \in {"idle", "load", "lock", "start", "release", "retry", "markError"}
    BY <1>t, <1>8 DEF RunRaises, Goto, InRun
  <2>2. /\ pc'[w] \in {"idle", "load", "lock", "start"} => cur'[w] = <<1, 1>>
        /\ partial'[w] => partial[w]
        /\ flagged'[w] => flagged[w]
    BY <1>t, <1>8 DEF RunRaises, Goto, Forget, Place, localVars, tallyVars, InRun
  <2> QED BY <1>g, <2>1, <2>2, OutOfLoop DEF PageSteps, RunSteps, Closing
<1>9. CASE HardTimeLimit(w)
  <2>1. pc'[w] \in {"idle", "load", "lock", "start", "release", "retry", "markError"}
    BY <1>t, <1>9 DEF HardTimeLimit, Goto, Die
  <2>2. /\ pc'[w] \in {"idle", "load", "lock", "start"} => cur'[w] = <<1, 1>>
        /\ partial'[w] => partial[w]
        /\ flagged'[w] => flagged[w]
    BY <1>t, <1>9 DEF HardTimeLimit, Goto, Forget, Place, localVars, tallyVars, Die
  <2> QED BY <1>g, <2>1, <2>2, OutOfLoop DEF PageSteps, RunSteps, Closing
<1>10. CASE WorkerLost(w)
  <2>1. pc'[w] \in {"idle", "load", "lock", "start", "release", "retry", "markError"}
    BY <1>t, <1>10 DEF WorkerLost, Goto, Die
  <2>2. /\ pc'[w] \in {"idle", "load", "lock", "start"} => cur'[w] = <<1, 1>>
        /\ partial'[w] => partial[w]
        /\ flagged'[w] => flagged[w]
    BY <1>t, <1>10 DEF WorkerLost, Goto, Forget, Place, localVars, tallyVars, Die
  <2> QED BY <1>g, <2>1, <2>2, OutOfLoop DEF PageSteps, RunSteps, Closing
<1>11. CASE RetryNotPublished(w)
  <2>1. pc'[w] \in {"idle", "load", "lock", "start", "release", "retry", "markError"}
    BY <1>t, <1>11 DEF RetryNotPublished, Goto
  <2>2. /\ pc'[w] \in {"idle", "load", "lock", "start"} => cur'[w] = <<1, 1>>
        /\ partial'[w] => partial[w]
        /\ flagged'[w] => flagged[w]
    BY <1>t, <1>11 DEF RetryNotPublished, Goto, Forget, Place, localVars, tallyVars
  <2> QED BY <1>g, <2>1, <2>2, OutOfLoop DEF PageSteps, RunSteps, Closing
<1>12. CASE ErrorNotMarked(w)
  <2>1. pc'[w] \in {"idle", "load", "lock", "start", "release", "retry", "markError"}
    BY <1>t, <1>12 DEF ErrorNotMarked, Goto
  <2>2. /\ pc'[w] \in {"idle", "load", "lock", "start"} => cur'[w] = <<1, 1>>
        /\ partial'[w] => partial[w]
        /\ flagged'[w] => flagged[w]
    BY <1>t, <1>12 DEF ErrorNotMarked, Goto, Forget, Place, localVars, tallyVars
  <2> QED BY <1>g, <2>1, <2>2, OutOfLoop DEF PageSteps, RunSteps, Closing
<1>13. CASE FinishReview(w)
  <2>1. pc'[w] \in {"idle", "load", "lock", "start", "release", "retry", "markError"}
    BY <1>t, <1>13 DEF FinishReview, Goto, CommitStatus
  <2>2. /\ pc'[w] \in {"idle", "load", "lock", "start"} => cur'[w] = <<1, 1>>
        /\ partial'[w] => partial[w]
        /\ flagged'[w] => flagged[w]
    BY <1>t, <1>13 DEF FinishReview, Goto, Forget, Place, localVars, tallyVars, CommitStatus
  <2> QED BY <1>g, <2>1, <2>2, OutOfLoop DEF PageSteps, RunSteps, Closing
<1>14. CASE Redeliver(w)
  BY <1>g, <1>14, PlaceStays, TallyStays DEF Redeliver, OwnLocals, localVars, tallyVars
<1>15. CASE LockLost(w)
  BY <1>g, <1>15, PlaceStays, TallyStays DEF LockLost, OwnLocals, localVars, tallyVars
<1>16. CASE Recycle(w)
  BY <1>g, <1>16, PlaceStays, TallyStays DEF Recycle, OwnLocals, localVars, tallyVars
<1>17. CASE SoftLimitInOcr(w)
  BY <1>g, <1>17, PlaceStays, TallyStays DEF SoftLimitInOcr, OwnLocals, localVars, tallyVars
<1>18. CASE Start(w)
  <2>1. CASE NumPages = 0
    <3>1. pc'[w] = "release"
      BY <1>t, <1>18, <2>1 DEF Start, Goto
    <3>2. partial'[w] = partial[w] /\ flagged'[w] = flagged[w]
      BY <1>18 DEF Start, tallyVars
    <3> QED BY <1>g, <3>1, <3>2, OutOfLoop DEF PageSteps, RunSteps, Closing
  <2>2. CASE NumPages # 0
    <3>1. pc'[w] = "page"
      BY <1>t, <1>18, <2>2 DEF Start, Goto
    <3>2. cur'[w] = <<1, 1>> /\ partial'[w] = partial[w] /\ flagged'[w] = flagged[w]
      BY <1>18 DEF Start, tallyVars, Place
    <3>3. PagesBehind(w)' = {}
      BY <1>p, <3>1, <3>2 DEF PagesBehind, PageSteps, RunSteps, Closing
    <3>4. ASSUME NEW r \in Regions PROVE ~(r[1] < 1)
      BY <1>p, RegionShape
    <3>5. Counted(w)' = {}
      BY <3>1, <3>2, <3>4 DEF Counted, PageSteps, RunSteps, Closing, AfterOcr, OcrSteps
    <3>6. Place(w)'
      BY <1>p, <2>2, <3>1, <3>2, <3>3
      DEF Place, PageSteps, RunSteps, AfterPage, AfterImage, AfterText, OcrSteps, Closing
    <3>7. partial'[w] => \E r \in Regions : ocr'[r] \in {"ocr_partial", "failed"}
      BY <1>g, <3>2 DEF Tally, Grown
    <3>8. flagged'[w] => \E s \in FlagSlots : flagRows'[s] > 0
      BY <1>g, <3>2 DEF Tally, Grown
    <3> QED BY <3>3, <3>5, <3>6, <3>7, <3>8 DEF Tally
  <2> QED BY <2>1, <2>2
<1>19. CASE FinishOcr(w)
  <2>1. pc[w] \in Closing /\ pc'[w] \in {"indexed", "final"}
    BY <1>t, <1>19 DEF FinishOcr, CommitStatus, Goto, Closing
  <2>2. cur'[w] = cur[w] /\ partial'[w] = partial[w] /\ flagged'[w] = flagged[w]
    BY <1>19 DEF FinishOcr, CommitStatus, tallyVars
  <2> QED BY <1>g, <2>1, <2>2, StillClosing
<1>20. CASE FinishIndex(w)
  <2>1. pc[w] \in Closing /\ pc'[w] \in {"indexed", "final"}
    BY <1>t, <1>20 DEF FinishIndex, CommitStatus, Goto, Closing
  <2>2. cur'[w] = cur[w] /\ partial'[w] = partial[w] /\ flagged'[w] = flagged[w]
    BY <1>20 DEF FinishIndex, CommitStatus, tallyVars
  <2> QED BY <1>g, <2>1, <2>2, StillClosing
<1>21. CASE EnsurePage(w)
  <2>1. pc[w] \in PageSteps \ OcrSteps /\ pc'[w] \in {"image", "insertPage"}
    BY <1>t, <1>21 DEF EnsurePage, Goto, PageSteps, RunSteps, OcrSteps, PageRowExists
  <2>2. cur'[w] = cur[w] /\ partial'[w] = partial[w] /\ flagged'[w] = flagged[w]
    BY <1>t, <1>21 DEF EnsurePage, tallyVars, PageRowExists
  <2>3. cur[w][1] \in Pages /\ Layout[cur[w][1]] \in Nat
    BY <2>1, InLoop
  <2>5. Moves(w)
    BY <1>t, <1>g, <1>21, <2>1, <2>2, <2>3
    DEF Moves, EnsurePage, Goto, Grown, Place, PageSteps, RunSteps, AfterPage, AfterImage, AfterText, AfterOcr, OcrSteps, EmptySteps, PageRowExists
  <2> QED BY <1>g, <2>1, <2>2, <2>5, Onwards
<1>22. CASE InsertPage(w)
  <2>1. pc[w] \in PageSteps \ OcrSteps /\ pc'[w] \in {"image"}
    BY <1>t, <1>22 DEF InsertPage, Goto, PageSteps, RunSteps, OcrSteps
  <2>2. cur'[w] = cur[w] /\ partial'[w] = partial[w] /\ flagged'[w] = flagged[w]
    BY <1>t, <1>22 DEF InsertPage, tallyVars
  <2>3. cur[w][1] \in Pages /\ Layout[cur[w][1]] \in Nat
    BY <2>1, InLoop
  <2>4. page'[cur[w][1]] /\ cur[w][2] = 1
    BY <1>t, <1>22, <2>3 DEF InsertPage, Place
  <2>5. Moves(w)
    BY <1>t, <1>g, <1>22, <2>1, <2>2, <2>3, <2>4
    DEF Moves, InsertPage, Goto, Grown, Place, PageSteps, RunSteps, AfterPage, AfterImage, AfterText, AfterOcr, OcrSteps, EmptySteps
  <2> QED BY <1>g, <2>1, <2>2, <2>5, Onwards
<1>23. CASE PersistImage(w)
  <2>1. pc[w] \in PageSteps \ OcrSteps /\ pc'[w] \in {"emptyFlag", "ocrRunning"}
    BY <1>t, <1>23 DEF PersistImage, Goto, PageSteps, RunSteps, OcrSteps
  <2>2. cur'[w] = cur[w] /\ partial'[w] = partial[w] /\ flagged'[w] = flagged[w]
    BY <1>t, <1>23 DEF PersistImage, tallyVars
  <2>3. cur[w][1] \in Pages /\ Layout[cur[w][1]] \in Nat
    BY <2>1, InLoop
  <2>5. Moves(w)
    BY <1>t, <1>g, <1>23, <2>1, <2>2, <2>3
    DEF Moves, PersistImage, Goto, Grown, Place, PageSteps, RunSteps, AfterPage, AfterImage, AfterText, AfterOcr, OcrSteps, EmptySteps
  <2> QED BY <1>g, <2>1, <2>2, <2>5, Onwards
<1>24. CASE OcrRunning(w)
  <2>1. pc[w] \in PageSteps \ OcrSteps /\ pc'[w] \in {"ocr"}
    BY <1>t, <1>24 DEF OcrRunning, Goto, PageSteps, RunSteps, OcrSteps, CommitStatus
  <2>2. cur'[w] = cur[w] /\ partial'[w] = partial[w] /\ flagged'[w] = flagged[w]
    BY <1>t, <1>24 DEF OcrRunning, tallyVars, CommitStatus
  <2>3. cur[w][1] \in Pages /\ Layout[cur[w][1]] \in Nat
    BY <2>1, InLoop
  <2>5. Moves(w)
    BY <1>t, <1>g, <1>24, <2>1, <2>2, <2>3
    DEF Moves, OcrRunning, Goto, Grown, Place, PageSteps, RunSteps, AfterPage, AfterImage, AfterText, AfterOcr, OcrSteps, EmptySteps, CommitStatus
  <2> QED BY <1>g, <2>1, <2>2, <2>5, Onwards
<1>25. CASE Extracting(w)
  <2>1. pc[w] \in PageSteps \ OcrSteps /\ pc'[w] \in {"extract"}
    BY <1>t, <1>25 DEF Extracting, Goto, PageSteps, RunSteps, OcrSteps, CommitStatus
  <2>2. cur'[w] = cur[w] /\ partial'[w] = partial[w] /\ flagged'[w] = flagged[w]
    BY <1>t, <1>25 DEF Extracting, tallyVars, CommitStatus
  <2>3. cur[w][1] \in Pages /\ Layout[cur[w][1]] \in Nat
    BY <2>1, InLoop
  <2>5. Moves(w)
    BY <1>t, <1>g, <1>25, <2>1, <2>2, <2>3
    DEF Moves, Extracting, Goto, Grown, Place, PageSteps, RunSteps, AfterPage, AfterImage, AfterText, AfterOcr, OcrSteps, EmptySteps, CommitStatus
  <2> QED BY <1>g, <2>1, <2>2, <2>5, Onwards
<1>26. CASE UpdateFullText(w)
  <2>1. pc[w] \in PageSteps \ OcrSteps /\ pc'[w] \in {"anomaly"}
    BY <1>t, <1>26 DEF UpdateFullText, Goto, PageSteps, RunSteps, OcrSteps
  <2>2. cur'[w] = cur[w] /\ partial'[w] = partial[w] /\ flagged'[w] = flagged[w]
    BY <1>t, <1>26 DEF UpdateFullText, tallyVars
  <2>3. cur[w][1] \in Pages /\ Layout[cur[w][1]] \in Nat
    BY <2>1, InLoop
  <2>4. fullText'[cur[w][1]]
    BY <1>t, <1>26, <2>3 DEF UpdateFullText
  <2>5. Moves(w)
    BY <1>t, <1>g, <1>26, <2>1, <2>2, <2>3, <2>4
    DEF Moves, UpdateFullText, Goto, Grown, Place, PageSteps, RunSteps, AfterPage, AfterImage, AfterText, AfterOcr, OcrSteps, EmptySteps
  <2> QED BY <1>g, <2>1, <2>2, <2>5, Onwards
<1>27. CASE ExtractRegion(w)
  <2>1. pc[w] \in PageSteps \ OcrSteps /\ pc'[w] \in {"extract", "insertEntities", "text"}
    BY <1>t, <1>27 DEF ExtractRegion, Goto, PageSteps, RunSteps, OcrSteps, NextRegion
  <2>2. cur'[w][1] = cur[w][1] /\ partial'[w] = partial[w] /\ flagged'[w] = flagged[w]
    BY <1>t, <1>27 DEF ExtractRegion, tallyVars, NextRegion
  <2>3. cur[w][1] \in Pages /\ Layout[cur[w][1]] \in Nat
    BY <2>1, InLoop
  <2>5. Moves(w)
    BY <1>t, <1>g, <1>27, <2>1, <2>2, <2>3
    DEF Moves, ExtractRegion, Goto, Grown, Place, PageSteps, RunSteps, AfterPage, AfterImage, AfterText, AfterOcr, OcrSteps, EmptySteps, NextRegion
  <2> QED BY <1>g, <2>1, <2>2, <2>5, Onwards
<1>28. CASE InsertEntities(w)
  <2>1. pc[w] \in PageSteps \ OcrSteps /\ pc'[w] \in {"extract", "insertEntities", "text"}
    BY <1>t, <1>28 DEF InsertEntities, Goto, PageSteps, RunSteps, OcrSteps, NextRegion
  <2>2. cur'[w][1] = cur[w][1] /\ partial'[w] = partial[w] /\ flagged'[w] = flagged[w]
    BY <1>t, <1>28 DEF InsertEntities, tallyVars, NextRegion
  <2>3. cur[w][1] \in Pages /\ Layout[cur[w][1]] \in Nat
    BY <2>1, InLoop
  <2>5. Moves(w)
    BY <1>t, <1>g, <1>28, <2>1, <2>2, <2>3
    DEF Moves, InsertEntities, Goto, Grown, Place, PageSteps, RunSteps, AfterPage, AfterImage, AfterText, AfterOcr, OcrSteps, EmptySteps, NextRegion
  <2> QED BY <1>g, <2>1, <2>2, <2>5, Onwards
<1>29. CASE EmptyLayout(w)
  <2>0. pc[w] \in PageSteps /\ pc[w] \in EmptySteps /\ pc[w] \in AfterImage /\ pc[w] \in AfterPage
    BY <1>29 DEF EmptyLayout, PageSteps, RunSteps, AfterImage, AfterPage, EmptySteps
  <2>1. PICK p \in Pages : p = cur[w][1]
    BY <2>0, InLoop
  <2>2. page[p] /\ image[p] /\ Layout[p] = 0
    BY <2>0, <2>1 DEF Place
  <2>3. partial' = partial /\ UNCHANGED dataVars
    BY <1>29 DEF EmptyLayout
  <2>4. CASE flagRows[<<p, 0>>] > 0
    <3>1. NextPage(w) /\ flagged'[w]
      BY <1>t, <1>29, <2>1, <2>4 DEF EmptyLayout
    <3>2. PageComplete(p)'
      BY <2>2, <2>3, <2>4 DEF PageComplete, dataVars
    <3>3. flagRows'[<<p, 0>>] > 0 /\ <<p, 0>> \in FlagSlots
      BY <2>3, <2>4, SlotShape DEF dataVars
    <3> QED BY <1>g, <2>0, <2>1, <2>3, <3>1, <3>2, <3>3, PageDone
  <2>5. CASE ~(flagRows[<<p, 0>>] > 0)
    <3>1. pc'[w] = "insertEmptyFlag" /\ cur' = cur /\ flagged' = flagged
      BY <1>t, <1>29, <2>1, <2>5 DEF EmptyLayout, Goto
    <3> QED
      BY <1>g, <1>29, <2>0, <2>1, <2>2, <2>3, <3>1, Onwards
      DEF Moves, EmptyLayout, dataVars, PageSteps, RunSteps, AfterPage, AfterImage, AfterText,
          AfterOcr, OcrSteps, EmptySteps
  <2> QED BY <2>4, <2>5
<1>30. CASE InsertEmptyFlag(w)
  <2>0. pc[w] \in PageSteps /\ pc[w] \in EmptySteps /\ pc[w] \in AfterImage /\ pc[w] \in AfterPage
    BY <1>30 DEF InsertEmptyFlag, PageSteps, RunSteps, AfterImage, AfterPage, EmptySteps
  <2>1. PICK p \in Pages : p = cur[w][1]
    BY <2>0, InLoop
  <2>2. page[p] /\ image[p] /\ Layout[p] = 0
    BY <2>0, <2>1 DEF Place
  <2>3. partial' = partial /\ UNCHANGED <<page, image, ocr, fullText>>
    BY <1>30 DEF InsertEmptyFlag
  <2>4. NextPage(w) /\ flagged'[w]
    BY <1>t, <1>30 DEF InsertEmptyFlag
  <2>5. <<p, 0>> \in FlagSlots /\ flagRows'[<<p, 0>>] > 0 /\ RegionsOf(p) = {}
    BY <1>t, <1>30, <2>1, <2>2, SlotShape DEF InsertEmptyFlag
  <2>6. PageComplete(p)'
    BY <2>2, <2>3, <2>5 DEF PageComplete
  <2> QED BY <1>g, <2>0, <2>1, <2>3, <2>4, <2>5, <2>6, PageDone
<1>31. CASE AnomalyStage(w)
  <2>0. /\ pc[w] \in PageSteps /\ pc[w] \in AfterOcr /\ pc[w] \in AfterText
        /\ pc[w] \in AfterImage /\ pc[w] \in AfterPage /\ pc[w] \notin EmptySteps
    BY <1>31 DEF AnomalyStage, PageSteps, RunSteps, AfterImage, AfterPage, AfterOcr, AfterText, EmptySteps
  <2>1. PICK p \in Pages : p = cur[w][1]
    BY <2>0, InLoop
  <2>2. page[p] /\ image[p] /\ Layout[p] # 0 /\ fullText[p]
    BY <2>0, <2>1 DEF Place
  <2>3. \A r \in RegionsOf(p) : ocr[r] # "none"
    BY <2>0, <2>1, RegionsOfPage DEF Tally, Counted
  <2>4. partial' = partial /\ UNCHANGED <<page, image, ocr, fullText>>
    BY <1>31 DEF AnomalyStage, dataVars
  <2>5. PageComplete(p)'
    BY <2>2, <2>3, <2>4 DEF PageComplete
  <2>6. CASE PageFlagged(p)
    <3>1. NextPage(w) /\ flagged'[w]
      BY <1>t, <1>31, <2>1, <2>6 DEF AnomalyStage
    <3>2. \E s \in FlagSlots : flagRows'[s] > 0
      BY <1>31, <2>6, SlotShape DEF AnomalyStage, dataVars, PageFlagged
    <3> QED BY <1>g, <2>0, <2>1, <2>4, <2>5, <3>1, <3>2, PageDone
  <2>7. CASE ~PageFlagged(p)
    <3>1. pc'[w] = "insertFlags" /\ cur' = cur /\ flagged' = flagged
      BY <1>t, <1>31, <2>1, <2>7 DEF AnomalyStage, Goto
    <3> QED
      BY <1>g, <1>31, <2>0, <2>1, <2>2, <2>4, <3>1, Onwards
      DEF Moves, AnomalyStage, PageSteps, RunSteps, AfterPage, AfterImage, AfterText,
          AfterOcr, OcrSteps, EmptySteps
  <2> QED BY <2>6, <2>7
<1>32. CASE InsertFlags(w)
  <2>0. /\ pc[w] \in PageSteps /\ pc[w] \in AfterOcr /\ pc[w] \in AfterText
        /\ pc[w] \in AfterImage /\ pc[w] \in AfterPage /\ pc[w] \notin EmptySteps
    BY <1>32 DEF InsertFlags, PageSteps, RunSteps, AfterImage, AfterPage, AfterOcr, AfterText, EmptySteps
  <2>1. PICK p \in Pages : p = cur[w][1]
    BY <2>0, InLoop
  <2>2. page[p] /\ image[p] /\ Layout[p] # 0 /\ fullText[p]
    BY <2>0, <2>1 DEF Place
  <2>3. \A r \in RegionsOf(p) : ocr[r] # "none"
    BY <2>0, <2>1, RegionsOfPage DEF Tally, Counted
  <2>4. partial' = partial /\ UNCHANGED <<page, image, ocr, fullText>>
    BY <1>32 DEF InsertFlags, dataVars
  <2>5. PageComplete(p)'
    BY <2>2, <2>3, <2>4 DEF PageComplete
  <2> DEFINE new == AnomalyFlags(p, fresh[w])
  <2>6. NextPage(w) /\ (flagged'[w] <=> flagged[w] \/ new # {})
    BY <1>t, <1>32, <2>1 DEF InsertFlags
  <2>7. flagRows' = [s \in FlagSlots |-> IF s \in new THEN flagRows[s] + 1 ELSE flagRows[s]]
    BY <1>32, <2>1 DEF InsertFlags
  <2>8. new \subseteq RegionsOf(p) /\ new \subseteq FlagSlots
    BY SlotShape DEF AnomalyFlags
  <2>9. flagged'[w] => \E s \in FlagSlots : flagRows'[s] > 0
    <3>1. ASSUME NEW s \in new PROVE s \in FlagSlots /\ flagRows'[s] > 0
      BY <1>t, <2>7, <2>8
    <3>2. flagged[w] => \E s \in FlagSlots : flagRows'[s] > 0
      BY <1>g DEF Tally, Grown
    <3> QED BY <2>6, <3>1, <3>2
  <2>10. \A r \in RegionsOf(p) : ocr'[r] = "failed" => flagged'[w]
    <3>1. ASSUME NEW r \in RegionsOf(p), ocr'[r] = "failed" PROVE r \in new
      BY <2>4, <3>1 DEF AnomalyFlags
    <3> QED BY <2>6, <3>1
  <2> QED BY <1>g, <2>0, <2>1, <2>4, <2>5, <2>6, <2>9, <2>10, PageDone
<1>33. CASE OcrRegion(w)
  <2>0. pc[w] \in OcrSteps /\ pc[w] \in PageSteps
    BY <1>33 DEF OcrRegion, OcrSteps, PageSteps, RunSteps
  <2>1. cur[w] \in Regions
    BY <2>0, InLoop
  <2>2. UNCHANGED dataVars /\ flagged' = flagged
    BY <1>33 DEF OcrRegion
  <2>3. CASE ocr[cur[w]] # "none"
    <3>1. NextRegion(w, "ocr", "extracting") /\ (partial'[w] <=> partial[w] \/ ocr[cur[w]] # "ok")
      BY <1>t, <1>33, <2>3 DEF OcrRegion
    <3>2. ocr' = ocr /\ (ocr[cur[w]] = "ok" \/ ocr[cur[w]] \in {"ocr_partial", "failed"})
      BY <1>t, <2>1, <2>2, <2>3 DEF dataVars, OcrStatus
    <3>3. partial'[w] => \E r \in Regions : ocr'[r] \in {"ocr_partial", "failed"}
      BY <2>1, <3>1, <3>2 DEF Tally
    <3> QED BY <1>g, <2>0, <2>2, <2>3, <3>1, <3>2, <3>3, RegionRead
  <2>4. CASE ~(ocr[cur[w]] # "none")
    <3>1. pc'[w] = "insertOcr" /\ cur' = cur /\ partial' = partial
      BY <1>t, <1>33, <2>4 DEF OcrRegion, Goto
    <3> QED BY <1>g, <1>33, <2>2, <3>1, OcrGoesOn DEF OcrRegion
  <2> QED BY <2>3, <2>4
<1>34. CASE InsertOcr(w)
  <2>0. pc[w] \in OcrSteps /\ pc[w] \in PageSteps
    BY <1>34 DEF InsertOcr, OcrSteps, PageSteps, RunSteps
  <2>1. cur[w] \in Regions
    BY <2>0, InLoop
  <2>2. flagged' = flagged /\ NextRegion(w, "ocr", "extracting")
    BY <1>34 DEF InsertOcr
  <2>3. PICK x \in OcrStatus :
          IF ocr[cur[w]] = "none"
          THEN /\ ocr' = [ocr EXCEPT ![cur[w]] = x]
               /\ partial' = [partial EXCEPT ![w] = @ \/ x # "ok"]
          ELSE /\ partial' = [partial EXCEPT ![w] = @ \/ ocr[cur[w]] # "ok"]
               /\ ocr' = ocr
    BY <1>34 DEF InsertOcr
  <2>4. /\ ocr'[cur[w]] \in OcrStatus
        /\ partial'[w] <=> partial[w] \/ ocr'[cur[w]] # "ok"
    <3>1. CASE ocr[cur[w]] = "none"
      <4>1. ocr'[cur[w]] = x
        BY <1>t, <2>1, <2>3, <3>1
      <4>2. partial'[w] = (partial[w] \/ x # "ok")
        BY <1>t, <2>3, <3>1
      <4> QED BY <4>1, <4>2
    <3>2. CASE ocr[cur[w]] # "none"
      BY <1>t, <2>1, <2>3, <3>2
    <3> QED BY <3>1, <3>2
  <2>5. ocr'[cur[w]] # "none" /\ (ocr'[cur[w]] = "ok" \/ ocr'[cur[w]] \in {"ocr_partial", "failed"})
    BY <2>4 DEF OcrStatus
  <2>6. partial[w] => \E r \in Regions : ocr'[r] \in {"ocr_partial", "failed"}
    BY <1>g DEF Tally, Grown
  <2> QED BY <1>g, <2>0, <2>1, <2>2, <2>4, <2>5, <2>6, RegionRead
<1> QED
  BY <1>1, <1>2, <1>3, <1>4, <1>5, <1>6, <1>7, <1>8, <1>9, <1>10, <1>11, <1>12, <1>13, <1>14, <1>15, <1>16, <1>17, <1>18, <1>19, <1>20, <1>21, <1>22, <1>23, <1>24, <1>25, <1>26, <1>27, <1>28, <1>29, <1>30, <1>31, <1>32, <1>33, <1>34
  DEF WorkerStep, FaultStep, RunStep

LEMMA RowsInOrderStep ==
  ASSUME NEW w \in Workers, TypeOK, RowsInOrder, Place(w), Tally(w), WorkerStep(w) \/ FaultStep(w)
  PROVE  RowsInOrder'
<1> USE DEF At
<1>g. Grown
  BY StepGrows
<1>t. /\ fullText \in [Pages -> BOOLEAN] /\ flagRows \in [FlagSlots -> Nat]
  BY DEF TypeOK
<1> DEFINE Last(p) == fullText[p] \/ flagRows[<<p, 0>>] > 0
<1>k. ASSUME NEW p \in Pages, Last(p)
      PROVE  page'[p] /\ image'[p] /\ \A r \in RegionsOf(p) : ocr'[r] # "none"
  BY <1>g, <1>k, RegionsOfPage DEF RowsInOrder, Grown
<1>1. CASE UpdateFullText(w)
  <2>0. /\ pc[w] \in PageSteps /\ pc[w] \in AfterPage /\ pc[w] \in AfterImage /\ pc[w] \in AfterOcr
    BY <1>1 DEF UpdateFullText, PageSteps, RunSteps, AfterPage, AfterImage, AfterOcr
  <2>1. PICK q \in Pages : q = cur[w][1]
    BY <2>0, InLoop
  <2>2. page[q] /\ image[q]
    BY <2>0, <2>1 DEF Place
  <2>3. \A r \in RegionsOf(q) : ocr[r] # "none"
    BY <2>0, <2>1, RegionsOfPage DEF Tally, Counted
  <2>4. UNCHANGED <<page, image, ocr, flagRows>> /\ \A p \in Pages \ {q} : fullText'[p] = fullText[p]
    BY <1>1, <1>t, <2>1 DEF UpdateFullText
  <2> QED BY <1>k, <2>2, <2>3, <2>4 DEF RowsInOrder
<1>2. CASE InsertEmptyFlag(w)
  <2>0. /\ pc[w] \in PageSteps /\ pc[w] \in AfterPage /\ pc[w] \in AfterImage /\ pc[w] \in EmptySteps
    BY <1>2 DEF InsertEmptyFlag, PageSteps, RunSteps, AfterPage, AfterImage, EmptySteps
  <2>1. PICK q \in Pages : q = cur[w][1]
    BY <2>0, InLoop
  <2>2. page[q] /\ image[q] /\ RegionsOf(q) = {}
    BY <2>0, <2>1, SlotShape DEF Place
  <2>3. UNCHANGED <<page, image, ocr, fullText>>
    BY <1>2 DEF InsertEmptyFlag
  <2>4. \A p \in Pages \ {q} : flagRows'[<<p, 0>>] = flagRows[<<p, 0>>]
    BY <1>2, <1>t, <2>1, SlotShape DEF InsertEmptyFlag
  <2> QED BY <1>k, <2>2, <2>3, <2>4 DEF RowsInOrder
<1>3. CASE InsertFlags(w)
  <2>0. /\ pc[w] \in PageSteps
    BY <1>3 DEF InsertFlags, PageSteps, RunSteps
  <2>1. PICK q \in Pages : q = cur[w][1]
    BY <2>0, InLoop
  <2>2. AnomalyFlags(q, fresh[w]) \subseteq RegionsOf(q)
    BY DEF AnomalyFlags
  <2>3. UNCHANGED <<page, image, ocr, fullText>>
    BY <1>3 DEF InsertFlags
  <2>4. \A p \in Pages : flagRows'[<<p, 0>>] = flagRows[<<p, 0>>]
    <3>1. ASSUME NEW p \in Pages PROVE <<p, 0>> \notin AnomalyFlags(q, fresh[w])
      BY <2>2, SlotShape
    <3> QED BY <1>3, <1>t, <2>1, <3>1, SlotShape DEF InsertFlags
  <2> QED BY <1>k, <2>3, <2>4 DEF RowsInOrder
<1>4. UNCHANGED <<fullText, flagRows>> \/ UpdateFullText(w) \/ InsertEmptyFlag(w) \/ InsertFlags(w)
  BY DEF WorkerStep, FaultStep, RunStep, Receive, LoadDocument, AcquireLock, LockTimeout,
      Start, EnsurePage, EmptyLayout, InsertPage, PersistImage, InsertOcr, InsertEntities,
      OcrRunning, OcrRegion, Extracting, ExtractRegion,
      AnomalyStage, FinishOcr, FinishIndex, FinishReview,
      CommitStatus, Release, Retry, MarkError, RunRaises, SoftLimitInOcr, HardTimeLimit,
      WorkerLost, Redeliver, RetryNotPublished, ErrorNotMarked, LockLost, Recycle, dataVars
<1>5. CASE UNCHANGED <<fullText, flagRows>>
  BY <1>5, <1>k DEF RowsInOrder
<1> QED BY <1>1, <1>2, <1>3, <1>4, <1>5

LEMMA LifeInit == RunInit => LifeInv
<1> SUFFICES ASSUME RunInit PROVE LifeInv
  OBVIOUS
<1>1. RowsInOrder
  BY SlotShape DEF RunInit, RowsInOrder
<1>2. ASSUME NEW w \in Workers PROVE Place(w) /\ Tally(w)
  <2>1. Counted(w) = {} /\ PagesBehind(w) = {}
    BY DEF RunInit, Counted, PagesBehind, AfterOcr, OcrSteps, PageSteps, RunSteps, Closing
  <2> QED BY <2>1 DEF RunInit, Place, Tally, PageSteps, RunSteps, AfterPage, AfterImage,
                      AfterText, OcrSteps, Closing
<1> QED BY <1>1, <1>2 DEF LifeInv

LEMMA LifeNext == TypeOK /\ LifeInv /\ [Next]_vars => LifeInv'
<1> SUFFICES ASSUME TypeOK, LifeInv, [Next]_vars PROVE LifeInv'
  OBVIOUS
<1>1. CASE UNCHANGED vars
  <2>1. RowsInOrder'
    BY <1>1 DEF vars, LifeInv, RowsInOrder
  <2>2. Grown /\ \A w \in Workers : OwnLocals(w)
    BY <1>1, SameRowsGrown DEF vars, dataVars, OwnLocals
  <2> QED BY <2>1, <2>2, PlaceStays, TallyStays DEF LifeInv
<1>2. ASSUME NEW w \in Workers, WorkerStep(w) \/ FaultStep(w) PROVE LifeInv'
  <2>1. RowsInOrder'
    BY <1>2, RowsInOrderStep DEF LifeInv
  <2>2. Place(w)' /\ Tally(w)'
    BY <1>2, OwnStep DEF LifeInv
  <2>3. ASSUME NEW v \in Workers, v # w PROVE Place(v)' /\ Tally(v)'
    <3>1. Grown /\ OwnLocals(v)
      BY <1>2, <2>3, StepGrows, OthersKeepLocals
    <3> QED BY <3>1, PlaceStays, TallyStays DEF LifeInv
  <2> QED BY <2>1, <2>2, <2>3 DEF LifeInv
<1> QED BY <1>1, <1>2 DEF Next

-------------------------------------------------------------------------------
(* What is said of the document *)

\* Everything a run may say once it is past the last page.
Spoken(a) ==
  /\ a \in {"ocr_done", "ocr_partial", "indexed", "ready", "needs_review"}
  /\ NumPages > 0 /\ \A p \in Pages : PageComplete(p)
  /\ a = "ocr_done" => \A r \in Regions : ocr[r] = "ok"
  /\ a = "ocr_partial" => \E r \in Regions : ocr[r] # "ok"
  /\ a = "ready" => \A r \in Regions : ocr[r] # "failed"
  /\ a = "needs_review" => \E s \in FlagSlots : flagRows[s] > 0

LEMMA ClosingTruth ==
  ASSUME NEW w \in Workers, TypeOK, Place(w), Tally(w), pc[w] \in Closing
  PROVE  /\ Spoken(IF partial[w] THEN "ocr_partial" ELSE "ocr_done")
         /\ Spoken("indexed")
         /\ Spoken(IF flagged[w] THEN "needs_review" ELSE "ready")
<1>1. Counted(w) = Regions /\ PagesBehind(w) = Pages
  BY DEF Counted, PagesBehind, Closing
<1>2. NumPages > 0 /\ \A p \in Pages : PageComplete(p)
  BY <1>1 DEF Place
<1>3. ~partial[w] => \A r \in Regions : ocr[r] = "ok"
  BY <1>1 DEF Tally
<1>4. partial[w] => \E r \in Regions : ocr[r] # "ok"
  BY DEF Tally
<1>5. ~flagged[w] => \A r \in Regions : ocr[r] # "failed"
  BY <1>1, RegionShape, RegionsOfPage DEF Tally
<1>6. flagged[w] => \E s \in FlagSlots : flagRows[s] > 0
  BY DEF Tally
<1> QED BY <1>2, <1>3, <1>4, <1>5, <1>6 DEF Spoken

LEMMA StatusStep ==
  ASSUME NEW w \in Workers, TypeOK, LifeInv, WorkerStep(w) \/ FaultStep(w)
  PROVE  \/ status' = status
         \/ /\ UNCHANGED dataVars
            /\ \/ status' \in {"preprocessing", "ocr_running", "extracting", "error"}
               \/ Spoken(status')
<1> USE DEF At
<1>1. CASE Start(w)
  BY <1>1 DEF Start, AssignStatus
<1>2. CASE OcrRunning(w)
  BY <1>2 DEF OcrRunning, CommitStatus, AssignStatus
<1>3. CASE Extracting(w)
  BY <1>3 DEF Extracting, CommitStatus, AssignStatus
<1>4. CASE MarkError(w)
  BY <1>4 DEF MarkError, SetStatus
<1>5. CASE FinishOcr(w)
  <2>1. pc[w] \in Closing
    BY <1>5 DEF FinishOcr, CommitStatus, Closing
  <2>2. UNCHANGED dataVars /\ \/ status' = status
                              \/ status' = IF partial[w] THEN "ocr_partial" ELSE "ocr_done"
    BY <1>5 DEF FinishOcr, CommitStatus, AssignStatus
  <2> QED BY <2>1, <2>2, ClosingTruth DEF LifeInv
<1>6. CASE FinishIndex(w)
  <2>1. pc[w] \in Closing
    BY <1>6 DEF FinishIndex, CommitStatus, Closing
  <2>2. UNCHANGED dataVars /\ status' \in {status, "indexed"}
    BY <1>6 DEF FinishIndex, CommitStatus, AssignStatus
  <2> QED BY <2>1, <2>2, ClosingTruth DEF LifeInv
<1>7. CASE FinishReview(w)
  <2>1. pc[w] \in Closing
    BY <1>7 DEF FinishReview, CommitStatus, Closing
  <2>2. UNCHANGED dataVars /\ \/ status' = status
                              \/ status' = IF flagged[w] THEN "needs_review" ELSE "ready"
    BY <1>7 DEF FinishReview, CommitStatus, AssignStatus
  <2> QED BY <2>1, <2>2, ClosingTruth DEF LifeInv
<1>8. status' = status \/ Start(w) \/ OcrRunning(w) \/ Extracting(w) \/ MarkError(w)
        \/ FinishOcr(w) \/ FinishIndex(w) \/ FinishReview(w)
  BY DEF WorkerStep, FaultStep, RunStep, Receive, LoadDocument, AcquireLock, LockTimeout,
      EnsurePage, EmptyLayout, InsertPage, PersistImage, InsertOcr, InsertEntities,
      InsertEmptyFlag, InsertFlags, UpdateFullText, OcrRegion, ExtractRegion, AnomalyStage,
      Release, Retry, RunRaises, SoftLimitInOcr, HardTimeLimit,
      WorkerLost, Redeliver, RetryNotPublished, ErrorNotMarked, LockLost, Recycle,
      storeVars, controlVars, jobVars
<1> QED BY <1>1, <1>2, <1>3, <1>4, <1>5, <1>6, <1>7, <1>8

\* Something said remains true, because rows are only added.
LEMMA StillTrue ==
  ASSUME NEW a, Grown, Spoken(a)
  PROVE  /\ NumPages > 0 /\ \A p \in Pages : PageComplete(p)'
         /\ a = "ocr_done" => \A r \in Regions : ocr'[r] = "ok"
         /\ a = "ocr_partial" => \E r \in Regions : ocr'[r] # "ok"
         /\ a = "ready" => \A r \in Regions : ocr'[r] # "failed"
         /\ a = "needs_review" => \E s \in FlagSlots : flagRows'[s] > 0
<1>1. \A p \in Pages : PageComplete(p)'
  BY CompleteStays DEF Spoken
<1>2. ASSUME NEW r \in Regions PROVE ocr'[r] = ocr[r]
  <2>1. r[1] \in Pages /\ r \in RegionsOf(r[1]) /\ PageComplete(r[1])
    BY RegionShape, RegionsOfPage DEF Spoken
  <2>2. ocr[r] # "none"
    BY <2>1, SlotShape DEF PageComplete
  <2> QED BY <2>2 DEF Grown
<1>3. \A s \in FlagSlots : flagRows[s] > 0 => flagRows'[s] > 0
  BY DEF Grown
<1> QED BY <1>1, <1>2, <1>3 DEF Spoken

Said == {"ocr_done", "ocr_partial", "indexed", "ready", "needs_review"}
SaidInv == status \in Said => Spoken(status)

LEMMA SaidNext == TypeOK /\ LifeInv /\ SaidInv /\ [Next]_vars => SaidInv'
<1> SUFFICES ASSUME TypeOK, LifeInv, SaidInv, [Next]_vars, status' \in Said PROVE Spoken(status)'
  BY DEF SaidInv
<1>1. CASE UNCHANGED vars
  BY <1>1 DEF SaidInv, Spoken, vars, PageComplete
<1>2. ASSUME NEW w \in Workers, WorkerStep(w) \/ FaultStep(w) PROVE Spoken(status)'
  <2>1. CASE status' = status
    <3>1. Grown /\ Spoken(status)
      BY <1>2, <2>1, StepGrows DEF SaidInv
    <3> QED BY <2>1, <3>1, StillTrue DEF Spoken
  <2>2. CASE UNCHANGED dataVars /\ Spoken(status')
    BY <2>2 DEF Spoken, dataVars, PageComplete
  <2> QED BY <1>2, <2>1, <2>2, StatusStep DEF Said
<1> QED BY <1>1, <1>2 DEF Next

LEMMA SaidAlways == Spec => [](TypeOK /\ LifeInv /\ SaidInv)
<1>1. Init => LifeInv /\ SaidInv
  BY LifeInit DEF Init, SaidInv, Said
<1> QED BY <1>1, TypeInit, TypeNext, LifeNext, SaidNext, PTL DEF Spec

\* A document past its OCR stage has every page, image, result and text, whatever died,
\* overlapped or lost its lock on the way.
THEOREM VerdictsComplete == Spec => []VerdictMeansComplete
<1>1. SaidInv => VerdictMeansComplete
  BY DEF SaidInv, Said, Spoken, VerdictMeansComplete
<1> QED BY <1>1, SaidAlways, PTL

\* ocr_done and ocr_partial are the truth about how the regions were read.
THEOREM OcrVerdictsTrue == Spec => []OcrVerdictTruthful
<1>1. SaidInv => OcrVerdictTruthful
  BY DEF SaidInv, Said, Spoken, OcrVerdictTruthful
<1> QED BY <1>1, SaidAlways, PTL

\* No document with a region nobody could read is ever called ready.
THEOREM UnreadIsReviewed == Spec => []UnreadNeverReady
<1>1. SaidInv => UnreadNeverReady
  BY DEF SaidInv, Said, Spoken, UnreadNeverReady
<1> QED BY <1>1, SaidAlways, PTL

\* A committed OCR result is never replaced or lost.
THEOREM ResultsFinal == Spec => OcrResultsFinal
<1>1. TypeOK /\ [Next]_vars => [\A r \in Regions : ocr[r] # "none" => ocr'[r] = ocr[r]]_vars
  <2> SUFFICES ASSUME TypeOK, [Next]_vars
               PROVE  [\A r \in Regions : ocr[r] # "none" => ocr'[r] = ocr[r]]_vars
    OBVIOUS
  <2>1. CASE UNCHANGED vars
    BY <2>1
  <2>2. ASSUME NEW w \in Workers, WorkerStep(w) \/ FaultStep(w)
        PROVE  \A r \in Regions : ocr[r] # "none" => ocr'[r] = ocr[r]
    BY <2>2, StepGrows DEF Grown
  <2> QED BY <2>1, <2>2 DEF Next
<1> QED BY <1>1, TypeInit, TypeNext, PTL DEF Spec, OcrResultsFinal

-------------------------------------------------------------------------------
(* The review verdict *)

LEMMA VerdictInit == Init => VerdictInv
<1> SUFFICES ASSUME Init PROVE VerdictInv
  OBVIOUS
<1>1. \A w \in Workers : PagesBehind(w) = {}
  BY DEF Init, RunInit, PagesBehind, PageSteps, RunSteps, Closing
<1> QED BY <1>1 DEF Init, RunInit, VerdictInv, FlagsCounted, ReadyTakenBack, OcrSteps, AfterOcr

\* The inserts of _flag_empty_layout and _run_anomaly_stage: nothing else adds a flag.
LEMMA FlagsAddedBy ==
  ASSUME NEW w \in Workers, WorkerStep(w) \/ FaultStep(w)
  PROVE  UNCHANGED flagRows \/ InsertEmptyFlag(w) \/ InsertFlags(w)
BY DEF WorkerStep, FaultStep, RunStep, Receive, LoadDocument, AcquireLock, LockTimeout,
    Start, EnsurePage, EmptyLayout, InsertPage, PersistImage, InsertOcr, InsertEntities,
    UpdateFullText, OcrRunning, OcrRegion, Extracting, ExtractRegion,
    AnomalyStage, FinishOcr, FinishIndex, FinishReview,
    CommitStatus, Release, Retry, MarkError, RunRaises, SoftLimitInOcr, HardTimeLimit,
    WorkerLost, Redeliver, RetryNotPublished, ErrorNotMarked, LockLost, Recycle, dataVars

\* Only the last commit of a run that counted no flag says ready.
LEMMA ReadySaidBy ==
  ASSUME NEW w \in Workers, WorkerStep(w) \/ FaultStep(w), status' = "ready"
  PROVE  status = "ready" \/ (FinishReview(w) /\ ~flagged[w])
<1>1. CASE Start(w)
  BY <1>1 DEF Start, AssignStatus
<1>2. CASE OcrRunning(w)
  BY <1>2 DEF OcrRunning, CommitStatus, AssignStatus
<1>3. CASE Extracting(w)
  BY <1>3 DEF Extracting, CommitStatus, AssignStatus
<1>4. CASE MarkError(w)
  BY <1>4 DEF MarkError, SetStatus
<1>5. CASE FinishOcr(w)
  BY <1>5 DEF FinishOcr, CommitStatus, AssignStatus
<1>6. CASE FinishIndex(w)
  BY <1>6 DEF FinishIndex, CommitStatus, AssignStatus
<1>7. CASE FinishReview(w)
  BY <1>7 DEF FinishReview, CommitStatus, AssignStatus
<1>8. status' = status \/ Start(w) \/ OcrRunning(w) \/ Extracting(w) \/ MarkError(w)
        \/ FinishOcr(w) \/ FinishIndex(w) \/ FinishReview(w)
  BY DEF WorkerStep, FaultStep, RunStep, Receive, LoadDocument, AcquireLock, LockTimeout,
      EnsurePage, EmptyLayout, InsertPage, PersistImage, InsertOcr, InsertEntities,
      InsertEmptyFlag, InsertFlags, UpdateFullText, OcrRegion, ExtractRegion, AnomalyStage,
      Release, Retry, RunRaises, SoftLimitInOcr, HardTimeLimit,
      WorkerLost, Redeliver, RetryNotPublished, ErrorNotMarked, LockLost, Recycle,
      storeVars, controlVars, jobVars
<1> QED BY <1>1, <1>2, <1>3, <1>4, <1>5, <1>6, <1>7, <1>8

\* ready never outlives the insert of a flag: a run that inserts one has taken it back,
\* and the pages of a ready document without regions have their flag.
LEMMA ReadyStaysUnflagged ==
  ASSUME NEW w \in Workers, TypeOK, LifeInv, SaidInv, VerdictInv, LockKept,
         WorkerStep(w) \/ FaultStep(w), status' = "ready"
  PROVE  \A s \in FlagSlots : flagRows'[s] = 0
<1> USE DEF At
<1>v. /\ status = "ready" => \A s \in FlagSlots : flagRows[s] = 0
      /\ FlagsCounted(w) /\ ReadyTakenBack(w) /\ Place(w)
  BY DEF VerdictInv, LifeInv
<1>t. flagRows \in [FlagSlots -> Nat]
  BY DEF TypeOK
<1>1. CASE status = "ready"
  <2>1. ~InsertFlags(w)
    BY <1>1, <1>v DEF InsertFlags, ReadyTakenBack, AfterOcr
  <2>2. ~InsertEmptyFlag(w)
    <3> SUFFICES ASSUME InsertEmptyFlag(w) PROVE FALSE
      OBVIOUS
    <3> DEFINE p == cur[w][1]
    <3>1. pc[w] \in PageSteps /\ pc[w] \in AfterImage /\ pc[w] \in EmptySteps
      BY DEF InsertEmptyFlag, PageSteps, RunSteps, AfterImage, AfterPage, EmptySteps
    <3>2. p \in Pages /\ Layout[p] = 0
      BY <3>1, <1>v DEF Place
    <3>3. flagRows[<<p, 0>>] > 0
      BY <1>1, <3>2 DEF SaidInv, Said, Spoken, PageComplete
    <3>4. <<p, 0>> \in FlagSlots
      BY <3>2, SlotShape
    <3> QED BY <1>1, <1>v, <3>3, <3>4
  <2>3. UNCHANGED flagRows
    BY <2>1, <2>2, FlagsAddedBy
  <2> QED BY <1>1, <1>v, <2>3
<1>2. CASE FinishReview(w) /\ ~flagged[w]
  <2>1. pc[w] \in Closing /\ UNCHANGED flagRows
    BY <1>2 DEF FinishReview, CommitStatus, Closing, dataVars
  <2>2. \A p \in Pages : ~PageFlagged(p)
    BY <1>2, <1>v, <2>1 DEF FlagsCounted, PagesBehind
  <2>3. \A s \in FlagSlots : ~(flagRows[s] > 0)
    BY <2>2 DEF FlagSlots, PageFlagged
  <2> QED BY <1>t, <2>1, <2>3
<1> QED BY <1>1, <1>2, ReadySaidBy

\* Where a step leaves its worker, as far as the flags behind it are concerned.
LEMMA LoopStep ==
  ASSUME NEW w \in Workers, TypeOK, Place(w), WorkerStep(w) \/ FaultStep(w)
  PROVE  \/ pc'[w] \notin PageSteps \cup Closing
         \/ pc'[w] = "page" /\ cur'[w] = <<1, 1>>
         \/ /\ pc[w] \in PageSteps /\ pc'[w] \in PageSteps
            /\ cur'[w][1] = cur[w][1] /\ flagged'[w] = flagged[w]
         \/ pc[w] \in Closing /\ flagged'[w] = flagged[w]
         \/ OwnLocals(w)
         \/ flagged'[w]
         \/ InsertFlags(w)
<1> USE DEF At
<1>t. /\ pc \in [Workers -> Steps] /\ cur \in [Workers -> Nat \X Nat]
      /\ flagged \in [Workers -> BOOLEAN]
  BY DEF TypeOK, LocalTypeOK
<1>1. CASE EnsurePage(w) \/ InsertPage(w) \/ PersistImage(w) \/ UpdateFullText(w)
  <2>1. pc[w] \in PageSteps /\ pc'[w] \in PageSteps
    BY <1>1, <1>t DEF EnsurePage, InsertPage, PersistImage, UpdateFullText, Goto, PageSteps,
       RunSteps
  <2>2. UNCHANGED <<cur, flagged>>
    BY <1>1 DEF EnsurePage, InsertPage, PersistImage, UpdateFullText, tallyVars
  <2> QED BY <2>1, <2>2
<1>2. CASE OcrRunning(w) \/ Extracting(w)
  <2>1. pc[w] \in PageSteps /\ pc'[w] \in PageSteps
    BY <1>2, <1>t DEF OcrRunning, Extracting, CommitStatus, Goto, PageSteps, RunSteps
  <2>2. UNCHANGED <<cur, flagged>>
    BY <1>2 DEF OcrRunning, Extracting, CommitStatus, tallyVars
  <2> QED BY <2>1, <2>2
<1>3. CASE OcrRegion(w) \/ InsertOcr(w) \/ ExtractRegion(w) \/ InsertEntities(w)
  <2>1. pc[w] \in PageSteps /\ pc'[w] \in PageSteps
    BY <1>3, <1>t DEF OcrRegion, InsertOcr, ExtractRegion, InsertEntities, NextRegion, Goto,
       PageSteps, RunSteps
  <2>2. cur'[w][1] = cur[w][1]
    BY <1>3, <1>t DEF OcrRegion, InsertOcr, ExtractRegion, InsertEntities, NextRegion
  <2>3. UNCHANGED flagged
    BY <1>3 DEF OcrRegion, InsertOcr, ExtractRegion, InsertEntities
  <2> QED BY <2>1, <2>2, <2>3
<1>4. CASE EmptyLayout(w)
  <2>1. flagged'[w] \/ (pc'[w] = "insertEmptyFlag" /\ UNCHANGED <<cur, flagged>>)
    BY <1>4, <1>t DEF EmptyLayout, Goto
  <2>2. pc[w] = "emptyFlag"
    BY <1>4 DEF EmptyLayout
  <2> QED BY <2>1, <2>2 DEF PageSteps, RunSteps
<1>5. CASE AnomalyStage(w)
  <2>1. flagged'[w] \/ (pc'[w] = "insertFlags" /\ UNCHANGED <<cur, flagged>>)
    BY <1>5, <1>t DEF AnomalyStage, Goto
  <2>2. pc[w] = "anomaly"
    BY <1>5 DEF AnomalyStage
  <2> QED BY <2>1, <2>2 DEF PageSteps, RunSteps
<1>6. CASE InsertEmptyFlag(w)
  BY <1>6, <1>t DEF InsertEmptyFlag
<1>7. CASE FinishOcr(w) \/ FinishIndex(w)
  BY <1>7 DEF FinishOcr, FinishIndex, CommitStatus, tallyVars, Closing
<1>8. CASE Start(w)
  <2>1. cur'[w] = cur[w] /\ pc[w] = "start" /\ pc'[w] \in {"page", "release"}
    BY <1>8, <1>t DEF Start, Goto, tallyVars
  <2> QED BY <2>1 DEF Place, PageSteps, RunSteps, Closing
<1>9. CASE SoftLimitInOcr(w) \/ Redeliver(w) \/ LockLost(w) \/ Recycle(w)
  BY <1>9 DEF SoftLimitInOcr, Redeliver, LockLost, Recycle, localVars, tallyVars, OwnLocals
<1>10. CASE Receive(w) \/ LoadDocument(w) \/ AcquireLock(w) \/ LockTimeout(w)
  BY <1>10, <1>t DEF Receive, LoadDocument, AcquireLock, LockTimeout, Goto, PageSteps, RunSteps,
     Closing
<1>11. CASE Release(w) \/ Retry(w) \/ MarkError(w) \/ RunRaises(w)
  BY <1>11, <1>t DEF Release, Retry, MarkError, RunRaises, Goto, PageSteps, RunSteps, Closing
<1>12. CASE HardTimeLimit(w) \/ WorkerLost(w) \/ RetryNotPublished(w) \/ ErrorNotMarked(w)
  BY <1>12, <1>t DEF HardTimeLimit, WorkerLost, RetryNotPublished, ErrorNotMarked, Die, Goto,
     PageSteps, RunSteps, Closing
<1>13. CASE FinishReview(w)
  BY <1>13, <1>t DEF FinishReview, CommitStatus, Goto, PageSteps, RunSteps, Closing
<1> QED
  BY <1>1, <1>2, <1>3, <1>4, <1>5, <1>6, <1>7, <1>8, <1>9, <1>10, <1>11, <1>12, <1>13
  DEF WorkerStep, FaultStep, RunStep

\* _run_anomaly_stage leaves a page to the pages behind it with its flags counted.
LEMMA FlagsInserted ==
  ASSUME NEW w \in Workers, TypeOK, RowInv, LockKept, Place(w), FlagsCounted(w), InsertFlags(w)
  PROVE  FlagsCounted(w)'
<1> DEFINE p0  == cur[w][1]
           new == AnomalyFlags(p0, fresh[w])
<1>t. /\ pc \in [Workers -> Steps] /\ cur \in [Workers -> Nat \X Nat]
      /\ flagged \in [Workers -> BOOLEAN] /\ flagRows \in [FlagSlots -> Nat]
  BY DEF TypeOK, LocalTypeOK
<1> SUFFICES ASSUME ~flagged'[w], NEW p \in PagesBehind(w)' PROVE ~PageFlagged(p)'
  BY DEF FlagsCounted
<1>1. ~flagged[w] /\ new = {}
  BY <1>t DEF InsertFlags
<1>2. UNCHANGED flagRows
  BY <1>1, <1>t DEF InsertFlags
<1>3. pc[w] = "insertFlags" /\ pc[w] \in PageSteps /\ pc[w] \notin Closing
  BY DEF InsertFlags, At, PageSteps, RunSteps, Closing
<1>4. p0 \in Pages /\ p0 \in Nat /\ NumPages \in Nat
  BY <1>3, PipelineAssumption DEF Place, Pages
<1>5. p \in Pages /\ p <= p0
  <2>1. CASE p0 < NumPages
    <3>1. pc'[w] = "page" /\ cur'[w] = <<p0 + 1, 1>>
      BY <2>1, <1>t DEF InsertFlags, NextPage, Goto
    <3>2. p \in Pages /\ p < p0 + 1
      BY <3>1 DEF PagesBehind, Closing
    <3> QED BY <3>2, <1>4 DEF Pages
  <2>2. CASE ~(p0 < NumPages)
    BY <2>2, <1>4 DEF PagesBehind, Pages
  <2> QED BY <2>1, <2>2
<1>6. CASE p = p0
  BY <1>2, <1>3, <1>6 DEF RowInv, PageFlagged
<1>7. CASE p # p0
  <2>1. p < p0
    BY <1>4, <1>5, <1>7 DEF Pages
  <2>2. p \in PagesBehind(w)
    BY <1>3, <1>5, <2>1 DEF PagesBehind
  <2> QED BY <1>1, <1>2, <2>2 DEF FlagsCounted, PageFlagged
<1> QED BY <1>6, <1>7

LEMMA OwnFlagsCounted ==
  ASSUME NEW w \in Workers, TypeOK, RowInv, LockKept, Place(w), FlagsCounted(w),
         WorkerStep(w) \/ FaultStep(w)
  PROVE  FlagsCounted(w)'
<1>0. PageSteps \cap Closing = {}
  BY DEF PageSteps, Closing
<1>1. CASE InsertFlags(w)
  BY <1>1, FlagsInserted
<1>2. CASE flagged'[w]
  BY <1>2 DEF FlagsCounted
<1>3. CASE ~flagged'[w] /\ ~InsertFlags(w)
  <2>1. UNCHANGED flagRows
    <3>1. InsertEmptyFlag(w) => flagged'[w]
      BY DEF InsertEmptyFlag, TypeOK, LocalTypeOK
    <3> QED BY <1>3, <3>1, FlagsAddedBy
  <2>2. CASE pc'[w] \notin PageSteps \cup Closing
    BY <2>2 DEF FlagsCounted, PagesBehind
  <2>3. CASE pc'[w] = "page" /\ cur'[w] = <<1, 1>>
    <3>1. \A p \in Pages : ~(p < 1)
      BY PipelineAssumption DEF Pages
    <3> QED BY <2>3, <3>1 DEF FlagsCounted, PagesBehind, Closing
  <2>4. CASE /\ pc[w] \in PageSteps /\ pc'[w] \in PageSteps
             /\ cur'[w][1] = cur[w][1] /\ flagged'[w] = flagged[w]
    <3>1. PagesBehind(w)' = PagesBehind(w)
      BY <1>0, <2>4 DEF PagesBehind
    <3> QED BY <2>1, <2>4, <3>1 DEF FlagsCounted, PageFlagged
  <2>5. CASE pc[w] \in Closing /\ flagged'[w] = flagged[w]
    <3>1. PagesBehind(w) = Pages /\ PagesBehind(w)' \subseteq Pages
      BY <2>5 DEF PagesBehind
    <3> QED BY <2>1, <2>5, <3>1 DEF FlagsCounted, PageFlagged
  <2>6. CASE OwnLocals(w)
    BY <2>1, <2>6 DEF OwnLocals, FlagsCounted, PagesBehind, PageFlagged
  <2> QED BY <1>3, <2>2, <2>3, <2>4, <2>5, <2>6, LoopStep
<1> QED BY <1>1, <1>2, <1>3

LEMMA OwnReadyTakenBack ==
  ASSUME NEW w \in Workers, TypeOK, ReadyTakenBack(w), WorkerStep(w) \/ FaultStep(w)
  PROVE  ReadyTakenBack(w)'
<1> USE DEF At
<1>t. pc \in [Workers -> Steps] /\ loaded \in [Workers -> Status \cup {"expired"}]
  BY DEF TypeOK, LocalTypeOK
<1>1. CASE PersistImage(w)
  <2>1. loaded'[w] = "expired" /\ pc'[w] \in {"emptyFlag", "ocrRunning"}
    BY <1>1, <1>t DEF PersistImage, Goto
  <2> QED BY <2>1 DEF ReadyTakenBack, OcrSteps, AfterOcr
<1>2. CASE OcrRunning(w)
  <2>1. pc'[w] = "ocr" /\ status' = "ocr_running"
    BY <1>2, <1>t DEF OcrRunning, CommitStatus, AssignStatus, Goto, ReadyTakenBack
  <2> QED BY <2>1 DEF ReadyTakenBack
<1>3. CASE Extracting(w)
  <2>1. pc[w] \in AfterOcr /\ pc'[w] = "extract" /\ status' \in {status, "extracting"}
    BY <1>3, <1>t DEF Extracting, CommitStatus, AssignStatus, Goto, AfterOcr
  <2> QED BY <2>1 DEF ReadyTakenBack
<1>4. CASE OcrRegion(w) \/ InsertOcr(w) \/ ExtractRegion(w) \/ InsertEntities(w)
             \/ UpdateFullText(w) \/ SoftLimitInOcr(w)
  <2>1. pc[w] \in OcrSteps \cup AfterOcr /\ pc'[w] # "ocrRunning"
    BY <1>4, <1>t DEF OcrRegion, InsertOcr, ExtractRegion, InsertEntities, UpdateFullText,
       SoftLimitInOcr, NextRegion, Goto, OcrSteps, AfterOcr
  <2>2. UNCHANGED status
    BY <1>4 DEF OcrRegion, InsertOcr, ExtractRegion, InsertEntities, UpdateFullText,
       SoftLimitInOcr, controlVars, jobVars, storeVars
  <2> QED BY <2>1, <2>2 DEF ReadyTakenBack
<1>5. CASE AnomalyStage(w) \/ InsertFlags(w)
  <2>1. pc[w] \in AfterOcr /\ pc'[w] # "ocrRunning"
    BY <1>5, <1>t DEF AnomalyStage, InsertFlags, NextPage, Goto, AfterOcr
  <2>2. UNCHANGED status
    BY <1>5 DEF AnomalyStage, InsertFlags, controlVars, jobVars, storeVars
  <2> QED BY <2>1, <2>2 DEF ReadyTakenBack
<1>6. CASE Redeliver(w) \/ LockLost(w) \/ Recycle(w)
  BY <1>6 DEF Redeliver, LockLost, Recycle, storeVars, localVars, ReadyTakenBack
<1>7. CASE EnsurePage(w) \/ InsertPage(w) \/ EmptyLayout(w) \/ InsertEmptyFlag(w)
  BY <1>7, <1>t DEF EnsurePage, InsertPage, EmptyLayout, InsertEmptyFlag, NextPage, Goto,
     ReadyTakenBack, OcrSteps, AfterOcr
<1>8. CASE FinishOcr(w) \/ FinishIndex(w) \/ FinishReview(w)
  BY <1>8, <1>t DEF FinishOcr, FinishIndex, FinishReview, CommitStatus, Goto,
     ReadyTakenBack, OcrSteps, AfterOcr
<1>9. CASE Receive(w) \/ LoadDocument(w) \/ AcquireLock(w) \/ LockTimeout(w) \/ Start(w)
  BY <1>9, <1>t DEF Receive, LoadDocument, AcquireLock, LockTimeout, Start, Goto,
     ReadyTakenBack, OcrSteps, AfterOcr
<1>10. CASE Release(w) \/ Retry(w) \/ MarkError(w) \/ RunRaises(w)
  BY <1>10, <1>t DEF Release, Retry, MarkError, RunRaises, Goto, ReadyTakenBack, OcrSteps,
     AfterOcr
<1>11. CASE HardTimeLimit(w) \/ WorkerLost(w) \/ RetryNotPublished(w) \/ ErrorNotMarked(w)
  BY <1>11, <1>t DEF HardTimeLimit, WorkerLost, RetryNotPublished, ErrorNotMarked, Die, Goto,
     ReadyTakenBack, OcrSteps, AfterOcr
<1> QED
  BY <1>1, <1>2, <1>3, <1>4, <1>5, <1>6, <1>7, <1>8, <1>9, <1>10, <1>11
  DEF WorkerStep, FaultStep, RunStep

\* A worker outside the only run: no step of that run concerns its verdict.
LEMMA OtherIsOut ==
  ASSUME NEW w \in Workers, NEW v \in Workers, v # w, TypeOK, LockInv, LockKept,
         WorkerStep(w) \/ FaultStep(w), FlagsCounted(v), ReadyTakenBack(v)
  PROVE  FlagsCounted(v)' /\ ReadyTakenBack(v)'
<1>1. OwnLocals(v)
  BY OthersKeepLocals
<1>2. CASE ~InRun(v)
  <2>1. ~InRun(v)'
    BY <1>1, <1>2 DEF OwnLocals, InRun
  <2>2. PagesBehind(v)' = {} /\ pc'[v] \notin OcrSteps \cup AfterOcr /\ pc'[v] # "ocrRunning"
    BY <2>1 DEF InRun, PagesBehind, PageSteps, Closing, RunSteps, OcrSteps, AfterOcr
  <2> QED BY <2>2 DEF FlagsCounted, ReadyTakenBack
<1>3. CASE InRun(v)
  <2>1. ~InRun(w)
    BY <1>3 DEF LockInv
  <2>2. UNCHANGED flagRows
    BY <2>1, FlagsAddedBy DEF InsertEmptyFlag, InsertFlags, At, InRun, RunSteps
  <2>3. status' = "ready" => status = "ready"
    BY <2>1, ReadySaidBy DEF FinishReview, CommitStatus, At, InRun, RunSteps
  <2>4. loaded'[v] = loaded[v]
    BY <2>1 DEF TypeOK, LocalTypeOK, InRun, RunSteps,
       WorkerStep, FaultStep, RunStep, Receive, LoadDocument, AcquireLock, LockTimeout,
       Start, EnsurePage, InsertPage, PersistImage, EmptyLayout, InsertEmptyFlag,
       OcrRunning, OcrRegion, InsertOcr, Extracting, ExtractRegion, InsertEntities,
       UpdateFullText, AnomalyStage, InsertFlags, FinishOcr, FinishIndex, FinishReview,
       CommitStatus, At, Release, Retry, MarkError, RunRaises, SoftLimitInOcr, HardTimeLimit,
       WorkerLost, Redeliver, RetryNotPublished, ErrorNotMarked, LockLost, Recycle, Die,
       Forget, ReloadDocument, localVars
  <2> QED BY <1>1, <2>2, <2>3, <2>4
          DEF OwnLocals, FlagsCounted, ReadyTakenBack, PagesBehind, PageFlagged
<1> QED BY <1>2, <1>3

VerdictBase == TypeOK /\ LockInv /\ RowInv /\ LifeInv /\ SaidInv

LEMMA VerdictNext == VerdictBase /\ VerdictInv /\ [Next]_vars => VerdictInv'
<1> SUFFICES ASSUME VerdictBase, VerdictInv, [Next]_vars, LockKept'
             PROVE  /\ status' = "ready" => \A s \in FlagSlots : flagRows'[s] = 0
                    /\ \A v \in Workers : FlagsCounted(v)' /\ ReadyTakenBack(v)'
  BY DEF VerdictInv
<1>0. TypeOK /\ LockInv /\ RowInv /\ LifeInv /\ SaidInv
  BY DEF VerdictBase
<1>1. LockKept
  BY <1>0, LockKeptBack
<1>2. \A v \in Workers : FlagsCounted(v) /\ ReadyTakenBack(v) /\ Place(v)
  BY <1>0, <1>1 DEF VerdictInv, LifeInv
<1>3. CASE UNCHANGED vars
  BY <1>1, <1>2, <1>3
  DEF VerdictInv, vars, FlagsCounted, ReadyTakenBack, PagesBehind, PageFlagged
<1>4. ASSUME NEW w \in Workers, WorkerStep(w) \/ FaultStep(w)
      PROVE  /\ status' = "ready" => \A s \in FlagSlots : flagRows'[s] = 0
             /\ \A v \in Workers : FlagsCounted(v)' /\ ReadyTakenBack(v)'
  <2>1. status' = "ready" => \A s \in FlagSlots : flagRows'[s] = 0
    BY <1>0, <1>1, <1>4, ReadyStaysUnflagged
  <2>2. FlagsCounted(w)' /\ ReadyTakenBack(w)'
    BY <1>0, <1>1, <1>2, <1>4, OwnFlagsCounted, OwnReadyTakenBack
  <2>3. \A v \in Workers \ {w} : FlagsCounted(v)' /\ ReadyTakenBack(v)'
    BY <1>0, <1>1, <1>2, <1>4, OtherIsOut
  <2> QED BY <2>1, <2>2, <2>3
<1> QED BY <1>3, <1>4 DEF Next

\* needs_review has something to review and, as long as no run lost its lock, ready has
\* nothing: no crash, retry, redelivery or reprocessing leaves a flag behind a ready.
THEOREM ReviewVerdictsTrue == Spec => []ReviewVerdictTruthful
<1>1. SaidInv /\ VerdictInv => ReviewVerdictTruthful
  BY DEF SaidInv, Said, Spoken, VerdictInv, ReviewVerdictTruthful
<1>2. TypeOK /\ LockInv /\ RowInv /\ LifeInv /\ SaidInv /\ VerdictInv /\ [Next]_vars
        => VerdictInv'
  BY VerdictNext DEF VerdictBase
<1> QED BY <1>1, <1>2, SaidAlways, TypeInit, TypeNext, LockInit, LockNext, RowInit, RowNext,
           VerdictInit, PTL DEF Spec

-------------------------------------------------------------------------------
(* The refinement *)

Done == {p \in Pages : PageComplete(p)}
Review == \E s \in FlagSlots : flagRows[s] > 0

LEMMA DoneByLastRow ==
  ASSUME RowsInOrder, NEW p \in Pages
  PROVE  PageComplete(p) <=> IF Layout[p] = 0 THEN flagRows[<<p, 0>>] > 0 ELSE fullText[p]
BY DEF RowsInOrder, PageComplete

LEMMA DoneByLastRowNext ==
  ASSUME RowsInOrder', NEW p \in Pages
  PROVE  PageComplete(p)' <=> IF Layout[p] = 0 THEN flagRows'[<<p, 0>>] > 0 ELSE fullText'[p]
BY DEF RowsInOrder, PageComplete

\* Pages become complete by their last row only.
LEMMA SameDone ==
  ASSUME RowsInOrder, RowsInOrder', UNCHANGED fullText,
         \A p \in Pages : flagRows'[<<p, 0>>] > 0 <=> flagRows[<<p, 0>>] > 0
  PROVE  Done' = Done
BY DoneByLastRow, DoneByLastRowNext DEF Done

LEMMA RegionsOnPage ==
  ASSUME NEW p \in Pages
  PROVE  Life!RegionsOn(p) = RegionsOf(p)
BY RegionsOfPage DEF Life!RegionsOn

LEMMA RefineStep ==
  ASSUME NEW w \in Workers, TypeOK, LifeInv, RowsInOrder', WorkerStep(w) \/ FaultStep(w)
  PROVE  Life!LifeNext \/ UNCHANGED <<status, ocr, Done, Review>>
<1> USE DEF At
<1>t. /\ fullText \in [Pages -> BOOLEAN] /\ flagRows \in [FlagSlots -> Nat]
      /\ ocr \in [Regions -> OcrStatus \cup {"none"}]
  BY DEF TypeOK
<1>r. RowsInOrder /\ Place(w) /\ Tally(w)
  BY DEF LifeInv
<1>1. CASE InsertOcr(w)
  <2>0. pc[w] \in OcrSteps /\ pc[w] \in PageSteps
    BY <1>1 DEF InsertOcr, OcrSteps, PageSteps, RunSteps
  <2>1. cur[w] \in Regions
    BY <1>r, <2>0, InLoop
  <2>2. UNCHANGED <<status, fullText, flagRows>>
    BY <1>1 DEF InsertOcr, controlVars, jobVars, storeVars
  <2>3. Done' = Done /\ Review' = Review
    BY <1>r, <2>2, SameDone DEF Review
  <2>4. CASE ocr[cur[w]] = "none"
    <3>1. PICK x \in {"ok", "ocr_partial", "failed"} : ocr' = [ocr EXCEPT ![cur[w]] = x]
      BY <1>1, <2>4 DEF InsertOcr, OcrStatus
    <3>2. Life!Read(cur[w])
      BY <2>2, <2>3, <2>4, <3>1 DEF Life!Read, Done, Review
    <3> QED BY <2>1, <3>2 DEF Life!LifeNext
  <2>5. CASE ocr[cur[w]] # "none"
    BY <1>1, <2>2, <2>3, <2>5 DEF InsertOcr
  <2> QED BY <2>4, <2>5
<1>2. CASE UpdateFullText(w)
  <2>0. /\ pc[w] \in PageSteps /\ pc[w] \in AfterOcr /\ pc[w] \in AfterImage /\ pc[w] \notin EmptySteps
    BY <1>2 DEF UpdateFullText, PageSteps, RunSteps, AfterPage, AfterImage, AfterOcr, EmptySteps
  <2>1. PICK q \in Pages : q = cur[w][1]
    BY <1>r, <2>0, InLoop
  <2>2. Layout[q] # 0
    BY <1>r, <2>0, <2>1 DEF Place
  <2>3. \A r \in RegionsOf(q) : ocr[r] # "none"
    BY <1>r, <2>0, <2>1, RegionsOfPage DEF Tally, Counted
  <2>4. UNCHANGED <<status, ocr, flagRows>> /\ fullText' = [fullText EXCEPT ![q] = TRUE]
    BY <1>2, <2>1 DEF UpdateFullText, controlVars, jobVars, storeVars
  <2>5. Done' = Done \cup {q}
    BY <1>r, <1>t, <2>2, <2>4, DoneByLastRow, DoneByLastRowNext DEF Done
  <2>6. RegionsOf(q) # {} /\ Review' = Review
    BY <2>2, <2>4, SlotShape DEF Review
  <2>7. Life!Complete(q)
    BY <2>3, <2>4, <2>5, <2>6, RegionsOnPage DEF Life!Complete, Done, Review
  <2> QED BY <2>7 DEF Life!LifeNext
<1>3. CASE InsertEmptyFlag(w)
  <2>0. pc[w] \in PageSteps /\ pc[w] \in AfterImage /\ pc[w] \in EmptySteps
    BY <1>3 DEF InsertEmptyFlag, PageSteps, RunSteps, AfterPage, AfterImage, EmptySteps
  <2>1. PICK q \in Pages : q = cur[w][1]
    BY <1>r, <2>0, InLoop
  <2>2. Layout[q] = 0 /\ RegionsOf(q) = {} /\ <<q, 0>> \in FlagSlots
    BY <1>r, <2>0, <2>1, SlotShape DEF Place
  <2>3. UNCHANGED <<status, ocr, fullText>> /\ flagRows' = [flagRows EXCEPT ![<<q, 0>>] = @ + 1]
    BY <1>3, <2>1 DEF InsertEmptyFlag, controlVars, jobVars, storeVars
  <2>4. /\ flagRows'[<<q, 0>>] > 0
        /\ \A p \in Pages \ {q} : flagRows'[<<p, 0>>] = flagRows[<<p, 0>>]
    BY <1>t, <2>2, <2>3, SlotShape
  <2>5. Done' = Done \cup {q}
    BY <1>r, <2>2, <2>3, <2>4, DoneByLastRow, DoneByLastRowNext DEF Done
  <2>6. Review'
    BY <2>2, <2>4 DEF Review
  <2>7. Life!Complete(q)
    BY <2>2, <2>3, <2>5, <2>6, RegionsOnPage DEF Life!Complete, Done, Review
  <2> QED BY <2>7 DEF Life!LifeNext
<1>4. CASE InsertFlags(w)
  <2>0. pc[w] \in PageSteps
    BY <1>4 DEF InsertFlags, PageSteps, RunSteps
  <2>1. PICK q \in Pages : q = cur[w][1]
    BY <1>r, <2>0, InLoop
  <2>2. AnomalyFlags(q, fresh[w]) \subseteq RegionsOf(q)
    BY DEF AnomalyFlags
  <2>3. UNCHANGED <<status, ocr, fullText>>
    BY <1>4 DEF InsertFlags, controlVars, jobVars, storeVars
  <2>4. \A p \in Pages : flagRows'[<<p, 0>>] = flagRows[<<p, 0>>]
    <3>1. ASSUME NEW p \in Pages PROVE <<p, 0>> \notin AnomalyFlags(q, fresh[w])
      BY <2>2, SlotShape
    <3> QED BY <1>4, <1>t, <2>1, <3>1, SlotShape DEF InsertFlags
  <2>5. Done' = Done
    BY <1>r, <2>3, <2>4, SameDone
  <2>6. Review => Review'
    BY StepGrows DEF Grown, Review
  <2>7. CASE Review' = Review
    BY <2>3, <2>5, <2>7
  <2>8. CASE Review'
    <3>1. Life!Flag
      BY <2>3, <2>5, <2>8 DEF Life!Flag, Done, Review
    <3> QED BY <3>1 DEF Life!LifeNext
  <2> QED BY <2>6, <2>7, <2>8 DEF Review
<1>5. CASE UNCHANGED dataVars
  <2>1. UNCHANGED <<ocr, Done, Review>>
    BY <1>5 DEF dataVars, Done, Review, PageComplete
  <2>2. CASE status' = status
    BY <2>1, <2>2
  <2>3. CASE status' \in {"preprocessing", "ocr_running", "extracting"}
    <3>1. Life!Work
      BY <2>1, <2>3 DEF Life!Work, Life!Underway, Done, Review
    <3> QED BY <3>1 DEF Life!LifeNext
  <2>4. CASE status' = "error"
    <3>1. Life!GiveUp
      BY <2>1, <2>4 DEF Life!GiveUp, Done, Review
    <3> QED BY <3>1 DEF Life!LifeNext
  <2>5. CASE Spoken(status')
    <3>1. Pages # {} /\ {p \in Pages : PageComplete(p)} = Pages
      BY <2>5, PipelineAssumption DEF Spoken, Pages
    <3>2. Life!True(status')
      BY <2>5 DEF Spoken, Life!True
    <3>3. Life!Answer
      BY <2>1, <2>5, <3>1, <3>2 DEF Life!Answer, Spoken, Done, Review
    <3> QED BY <3>3 DEF Life!LifeNext
  <2> QED BY <2>2, <2>3, <2>4, <2>5, StatusStep
<1>6. CASE UNCHANGED <<status, ocr, fullText, flagRows>>
  <2>1. Done' = Done /\ Review' = Review
    BY <1>r, <1>6, SameDone DEF Review
  <2> QED BY <1>6, <2>1
<1>7. \/ InsertOcr(w) \/ UpdateFullText(w) \/ InsertEmptyFlag(w) \/ InsertFlags(w)
      \/ UNCHANGED dataVars \/ UNCHANGED <<status, ocr, fullText, flagRows>>
  BY DEF WorkerStep, FaultStep, RunStep, Receive, LoadDocument, AcquireLock, LockTimeout,
      Start, EnsurePage, EmptyLayout, InsertPage, PersistImage, InsertEntities,
      OcrRunning, OcrRegion, Extracting, ExtractRegion,
      AnomalyStage, FinishOcr, FinishIndex, FinishReview,
      CommitStatus, Release, Retry, MarkError, RunRaises, SoftLimitInOcr, HardTimeLimit,
      WorkerLost, Redeliver, RetryNotPublished, ErrorNotMarked, LockLost, Recycle,
      controlVars, jobVars, storeVars
<1> QED BY <1>1, <1>2, <1>3, <1>4, <1>5, <1>6, <1>7

LEMMA RefineInit == Init => Life!LifeInit
<1> SUFFICES ASSUME Init PROVE Life!LifeInit
  OBVIOUS
<1>1. \A p \in Pages : ~PageComplete(p)
  BY DEF Init, RunInit, PageComplete
<1>2. ~ \E s \in FlagSlots : flagRows[s] > 0
  BY DEF Init, RunInit
<1> QED BY <1>1, <1>2 DEF Init, RunInit, Life!LifeInit

LEMMA RefineNext == TypeOK /\ LifeInv /\ [Next]_vars => [Life!LifeNext]_(Life!lifeVars)
<1> SUFFICES ASSUME TypeOK, LifeInv, [Next]_vars PROVE Life!LifeNext \/ UNCHANGED Life!lifeVars
  OBVIOUS
<1>1. CASE UNCHANGED vars
  BY <1>1 DEF vars, Life!lifeVars, PageComplete
<1>2. ASSUME NEW w \in Workers, WorkerStep(w) \/ FaultStep(w)
      PROVE  Life!LifeNext \/ UNCHANGED Life!lifeVars
  <2>1. RowsInOrder'
    BY <1>2, RowsInOrderStep DEF LifeInv
  <2>2. UNCHANGED <<status, ocr, Done, Review>> => UNCHANGED Life!lifeVars
    BY DEF Life!lifeVars, Done, Review
  <2> QED BY <1>2, <2>1, <2>2, RefineStep
<1> QED BY <1>1, <1>2 DEF Next

\* The pipeline, with everything that can go wrong in it, only ever adds results and
\* only says of a document what is true at that moment.
THEOREM PipelineIsLifecycle == Spec => ImplementsLifecycle
<1> QED BY RefineInit, RefineNext, SaidAlways, PTL
        DEF Spec, ImplementsLifecycle, Life!LifeSpec

=============================================================================
