------------------------------- MODULE ScanProofs -------------------------------
(* What ScanIntake promises, for any directory, any files and number of threads.   *)
EXTENDS ScanIntake, FiniteSetTheorems, TLAPS

-------------------------------------------------------------------------------
(* Files *)

LEMMA FileFields ==
  ASSUME NEW f \in File
  PROVE  /\ f.format \in {"pdf", "raster"} /\ f.opens \in BOOLEAN /\ f.decodes \in BOOLEAN
         /\ f.cut \in BOOLEAN /\ f.big \in BOOLEAN
         /\ f.frames \in Nat /\ f.pixels \in Nat
         /\ f.format = "raster" /\ f.opens => f.frames >= 1
BY DEF File

Readable(f) ==
  /\ CountPages(f) \in 1..MaxPages
  /\ f.format = "raster" => PagesRead(f) >= 1
  /\ f.decodes /\ ~f.cut => PagesRead(f) = CountPages(f)

\* What check_document accepts, count_pages and iter_page_images can read.
THEOREM CheckedIsReadable ==
  ASSUME NEW f \in File, CheckDocument(f)
  PROVE  Readable(f)
<1>0. MaxPages \in Nat /\ f.opens /\ f.frames <= MaxPages
  BY ScanAssumption DEF CheckDocument
<1>1. f.frames \in Nat /\ f.frames >= 1
  BY <1>0, FileFields DEF CheckDocument
<1>2. CountPages(f) = f.frames
  BY <1>0 DEF CountPages
<1>3. f.format = "raster" => f.decodes
  BY DEF CheckDocument
<1>4. PagesRead(f) = IF ~f.decodes THEN 0 ELSE IF ~f.cut THEN f.frames ELSE 1
  BY <1>0 DEF PagesRead
<1> QED BY <1>0, <1>1, <1>2, <1>3, <1>4 DEF Readable

-------------------------------------------------------------------------------
(* Types *)

Results == {"none", "id", "None", "refused", "raised"}
Places  == {"none", "queued", "insert", "publish", "mark", "ended"}
Works   == [version : Nat, id : Ids]

LEMMA EndTypes ==
  ASSUME ScanTypeOK, NEW a \in Actors, NEW r \in Results, End(a, r)
  PROVE  /\ at' \in [Actors -> Places]
         /\ result' \in [Actors -> Results]
         /\ work' \in [Actors -> Works]
<1>1. /\ at \in [Actors -> Places] /\ result \in [Actors -> Results] /\ work \in [Actors -> Works]
  BY DEF ScanTypeOK, Places, Results, Works
<1>2. NoWork \in Works
  BY DEF NoWork, Works, Ids, Actors
<1>3. [work[a] EXCEPT !.version = @ + 1] \in Works
  BY <1>1 DEF Works
<1> QED BY <1>1, <1>2, <1>3 DEF End, Places, Results

LEMMA FaultTypes ==
  ASSUME ScanTypeOK, NEW k \in FaultKinds, Fault(k)
  PROVE  faults' \in [FaultKinds -> 0..MaxFaults]
BY ScanAssumption DEF ScanTypeOK, Fault

\* Only finitely many files and rows at any time, so that they can be counted.
Stored == IsFiniteSet(raw) /\ IsFiniteSet(docs)

LEMMA NewIdType ==
  ASSUME NEW a \in Actors, IsFiniteSet(raw)
  PROVE  NewId(a) \in Ids
<1>1. IsFiniteSet({x \in raw : x.id[1] = a})
  BY FS_Subset
<1>2. Cardinality({x \in raw : x.id[1] = a}) \in Nat
  BY <1>1, FS_CardinalityType
<1> QED BY <1>2 DEF NewId, Ids

LEMMA AcceptTypes ==
  ASSUME ScanTypeOK, Stored, NEW a \in Actors, NEW v \in Nat, NEW f \in File, Accept(a, v, f)
  PROVE  /\ at' \in [Actors -> Places]
         /\ result' \in [Actors -> Results]
         /\ work' \in [Actors -> Works]
         /\ raw' \subseteq [id : Ids, file : File]
         /\ IsFiniteSet(raw')
<1>1. CASE CheckDocument(f) /\ ~f.big
  <2>1. NewId(a) \in Ids
    BY NewIdType DEF Stored
  <2>2. raw' = raw \cup {[id |-> NewId(a), file |-> f]}
    BY <1>1 DEF Accept
  <2>3. IsFiniteSet(raw')
    BY <2>2, FS_AddElement DEF Stored
  <2>4. [version |-> v, id |-> NewId(a)] \in Works
    BY <2>1 DEF Works
  <2>5. /\ work' = [work EXCEPT ![a] = [version |-> v, id |-> NewId(a)]]
        /\ at' = [at EXCEPT ![a] = "insert"] /\ result' = result
    BY <1>1 DEF Accept
  <2> QED BY <2>1, <2>2, <2>3, <2>4, <2>5 DEF ScanTypeOK, Places, Results, Works
<1>2. CASE ~(CheckDocument(f) /\ ~f.big)
  <2>1. End(a, "refused") /\ raw' = raw
    BY <1>2 DEF Accept
  <2> QED BY <2>1, EndTypes DEF Results, Stored, ScanTypeOK
<1> QED BY <1>1, <1>2

\* The version of a file read from the directory, and the file.
LEMMA ScanFields ==
  ASSUME ScanTypeOK, NEW n \in Names, dir[n] # NoFile
  PROVE  dir[n].version \in 1..MaxChanges /\ dir[n].file \in File
BY ScanAssumption DEF ScanTypeOK, Scans

\* The request is about one of its files as long as it is not answered.
RequestInRange ==
  at["request"] \notin {"none", "ended"} => work["request"].version \in DOMAIN Request

Base == ScanTypeOK /\ Stored /\ RequestInRange

LEMMA RequestFiles ==
  /\ DOMAIN Request = 1..Len(Request) /\ Len(Request) \in Nat
  /\ \A k \in DOMAIN Request : Request[k] \subseteq File /\ k \in Nat
  /\ Request # <<>> => 1 \in DOMAIN Request
BY ScanAssumption

\* What a step of one ingest, or of the request, leaves alone.
LEMMA ActorFrame ==
  ASSUME NEW a \in Actors, Base,
         FileStep(a) \/ (a \in Names /\ ReadFile(a)) \/ (a = "request" /\ ReadUpload)
  PROVE  /\ UNCHANGED <<dir, changes, watch, seen>>
         /\ at[a] \notin {"none", "ended"}
         /\ \A b \in Actors \ {a} : at'[b] = at[b] /\ work'[b] = work[b] /\ result'[b] = result[b]
<1>t. /\ at \in [Actors -> Places] /\ result \in [Actors -> Results] /\ work \in [Actors -> Works]
  BY DEF Base, ScanTypeOK, Places, Results, Works
<1> USE <1>t DEF End
<1>1. CASE SaveFails(a)
  BY <1>1 DEF SaveFails
<1>2. CASE InsertRow(a)
  BY <1>2 DEF InsertRow
<1>3. CASE InsertFails(a)
  BY <1>3 DEF InsertFails
<1>4. CASE InsertUnacknowledged(a)
  BY <1>4 DEF InsertUnacknowledged
<1>5. CASE Publish(a)
  BY <1>5 DEF Publish
<1>6. CASE NotPublished(a)
  BY <1>6 DEF NotPublished
<1>7. CASE MarkNotEnqueued(a)
  BY <1>7 DEF MarkNotEnqueued
<1>8. CASE MarkFails(a)
  BY <1>8 DEF MarkFails
<1>9. CASE a \in Names /\ ReadFile(a)
  BY <1>9 DEF ReadFile, Accept
<1>10. CASE a = "request" /\ ReadUpload
  BY <1>10 DEF ReadUpload, Accept
<1> QED BY <1>1, <1>2, <1>3, <1>4, <1>5, <1>6, <1>7, <1>8, <1>9, <1>10 DEF FileStep

LEMMA EndKeepsRange ==
  ASSUME Base, NEW r \in Results, at["request"] \notin {"none", "ended"}, End("request", r)
  PROVE  RequestInRange'
<1>1. "request" \in Actors /\ work["request"].version \in 1..Len(Request) /\ Len(Request) \in Nat
  BY RequestFiles DEF Actors, Base, RequestInRange
<1>2. CASE r = "id" /\ work["request"].version < Len(Request)
  <2>1. work' = [work EXCEPT !["request"].version = @ + 1]
    BY <1>2 DEF End
  <2>2. work'["request"].version = work["request"].version + 1
    BY <1>1, <2>1 DEF Base, ScanTypeOK
  <2> QED BY <1>1, <1>2, <2>2, RequestFiles DEF RequestInRange
<1>3. CASE ~(r = "id" /\ work["request"].version < Len(Request))
  <2>1. at'["request"] = "ended"
    BY <1>1, <1>3 DEF End, Base, ScanTypeOK
  <2> QED BY <2>1 DEF RequestInRange
<1> QED BY <1>2, <1>3

\* An ingest or the request goes on by one step.
LEMMA ActorStepTypes ==
  ASSUME NEW a \in Actors, Base,
         FileStep(a) \/ (a \in Names /\ ReadFile(a)) \/ (a = "request" /\ ReadUpload)
  PROVE  ScanTypeOK' /\ Stored'
<1>0. UNCHANGED <<dir, changes, watch, seen>>
  BY ActorFrame
<1>t. /\ ScanTypeOK /\ Stored /\ work[a] \in Works /\ work[a].id \in Ids /\ work[a].version \in Nat
      /\ at \in [Actors -> Places]
  BY DEF Base, ScanTypeOK, Works, Places
<1>s. ASSUME /\ at' \in [Actors -> Places] /\ result' \in [Actors -> Results]
             /\ work' \in [Actors -> Works]
             /\ raw' \subseteq [id : Ids, file : File] /\ IsFiniteSet(raw')
             /\ docs' \subseteq [id : Ids, from : Actors, version : Nat] /\ IsFiniteSet(docs')
             /\ failed' \subseteq Ids /\ faults' \in [FaultKinds -> 0..MaxFaults]
      PROVE  ScanTypeOK' /\ Stored'
  BY <1>0, <1>s, <1>t DEF ScanTypeOK, Stored, Places, Results, Works
<1>f. \A k \in FaultKinds : Fault(k) => faults' \in [FaultKinds -> 0..MaxFaults]
  BY <1>t, FaultTypes
<1>k. {"save", "insert", "unacknowledged", "publish", "notMarked"} \subseteq FaultKinds
  BY DEF FaultKinds
<1>r. {"none", "id", "None", "refused", "raised"} \subseteq Results
  BY DEF Results
<1>1. CASE SaveFails(a)
  BY <1>1, <1>t, <1>s, <1>f, <1>k, <1>r, EndTypes DEF SaveFails, ScanTypeOK, Stored
<1>2. CASE InsertRow(a) \/ InsertUnacknowledged(a)
  <2> DEFINE d == [id |-> work[a].id, from |-> a, version |-> work[a].version]
  <2>1. docs' = docs \cup {d} /\ UNCHANGED <<raw, failed>>
    BY <1>2 DEF InsertRow, InsertUnacknowledged
  <2>2. d \in [id : Ids, from : Actors, version : Nat]
    BY <1>t
  <2>3. docs' \subseteq [id : Ids, from : Actors, version : Nat] /\ IsFiniteSet(docs')
    BY <1>t, <2>1, <2>2, FS_AddElement DEF ScanTypeOK, Stored
  <2>4. CASE InsertRow(a)
    <3>1. at' \in [Actors -> Places]
      BY <1>t, <2>4 DEF InsertRow, Places
    <3> QED BY <1>t, <1>s, <2>1, <2>3, <2>4, <3>1 DEF InsertRow, ScanTypeOK, Stored, Results, Works
  <2>5. CASE InsertUnacknowledged(a)
    <3>1. PICK r \in Results : End(a, r)
      BY <1>r, <2>5 DEF InsertUnacknowledged
    <3> QED BY <1>t, <1>s, <1>f, <1>k, <2>1, <2>3, <2>5, <3>1, EndTypes
            DEF InsertUnacknowledged, ScanTypeOK, Stored
  <2> QED BY <1>2, <2>4, <2>5
<1>3. CASE InsertFails(a)
  <2>1. PICK r \in Results : End(a, r)
    BY <1>r, <1>3 DEF InsertFails
  <2> QED BY <1>3, <1>t, <1>s, <1>f, <1>k, <2>1, EndTypes DEF InsertFails, ScanTypeOK, Stored
<1>4. CASE Publish(a)
  BY <1>4, <1>t, <1>s, <1>r, EndTypes DEF Publish, ScanTypeOK, Stored
<1>5. CASE NotPublished(a)
  <2>1. at' \in [Actors -> Places]
    BY <1>5, <1>t DEF NotPublished, Places
  <2> QED BY <1>5, <1>t, <1>s, <1>f, <1>k, <2>1 DEF NotPublished, ScanTypeOK, Stored, Results, Works
<1>6. CASE MarkNotEnqueued(a)
  <2>1. failed' \subseteq Ids
    BY <1>6, <1>t DEF MarkNotEnqueued, ScanTypeOK
  <2> QED BY <1>6, <1>t, <1>s, <1>r, <2>1, EndTypes DEF MarkNotEnqueued, ScanTypeOK, Stored
<1>7. CASE MarkFails(a)
  BY <1>7, <1>t, <1>s, <1>f, <1>k, <1>r, EndTypes DEF MarkFails, ScanTypeOK, Stored
<1>8. CASE a \in Names /\ ReadFile(a)
  <2>1. CASE dir[a] = NoFile
    BY <1>8, <1>t, <1>s, <1>r, <2>1, EndTypes DEF ReadFile, ScanTypeOK, Stored
  <2>2. CASE dir[a] # NoFile
    <3>1. dir[a].version \in Nat /\ dir[a].file \in File
      BY <1>8, <1>t, <2>2, ScanFields
    <3>2. Accept(a, dir[a].version, dir[a].file)
      BY <1>8, <2>2 DEF ReadFile
    <3> HIDE DEF Accept
    <3> QED BY <1>8, <1>t, <1>s, <3>1, <3>2, AcceptTypes DEF ReadFile, ScanTypeOK, Stored
  <2> QED BY <2>1, <2>2
<1>9. CASE a = "request" /\ ReadUpload
  <2> DEFINE v == work["request"].version
  <2>1. v \in Nat /\ Request[v] \subseteq File
    BY <1>9, <1>t, RequestFiles DEF ReadUpload, Base, RequestInRange
  <2>2. PICK f \in Request[v] : Accept(a, v, f)
    BY <1>9 DEF ReadUpload
  <2> QED BY <1>9, <1>t, <1>s, <2>1, <2>2, AcceptTypes DEF ReadUpload, ScanTypeOK, Stored
<1> QED BY <1>1, <1>2, <1>3, <1>4, <1>5, <1>6, <1>7, <1>8, <1>9 DEF FileStep

LEMMA RangeStep ==
  ASSUME NEW a \in Actors, Base,
         FileStep(a) \/ (a \in Names /\ ReadFile(a)) \/ (a = "request" /\ ReadUpload)
  PROVE  RequestInRange'
<1>0. /\ "request" \in Actors /\ "request" \notin Names
      /\ at[a] \notin {"none", "ended"}
      /\ \A b \in Actors \ {a} : at'[b] = at[b] /\ work'[b] = work[b]
  BY ActorFrame, ScanAssumption DEF Actors
<1>1. CASE a # "request"
  BY <1>0, <1>1 DEF RequestInRange, Base
<1>2. CASE a = "request"
  <2>1. ASSUME NEW r \in Results, End(a, r) PROVE RequestInRange'
    BY <1>0, <1>2, <2>1, EndKeepsRange
  <2>2. ASSUME work'["request"].version = work["request"].version PROVE RequestInRange'
    BY <1>0, <1>2, <2>2 DEF RequestInRange, Base
  <2>r. {"none", "id", "None", "refused", "raised"} \subseteq Results
    BY DEF Results
  <2>3. CASE InsertRow(a) \/ NotPublished(a)
    BY <2>2, <2>3 DEF InsertRow, NotPublished
  <2>4. CASE SaveFails(a) \/ InsertFails(a) \/ InsertUnacknowledged(a) \/ Publish(a)
             \/ MarkNotEnqueued(a) \/ MarkFails(a)
    BY <2>1, <2>r, <2>4
       DEF SaveFails, InsertFails, InsertUnacknowledged, Publish, MarkNotEnqueued, MarkFails
  <2>5. CASE ReadUpload
    <3> DEFINE v == work["request"].version
    <3>1. PICK f \in Request[v] : Accept(a, v, f)
      BY <1>2, <2>5 DEF ReadUpload
    <3>2. CASE CheckDocument(f) /\ ~f.big
      <4>1. work' = [work EXCEPT ![a] = [version |-> v, id |-> NewId(a)]]
        BY <3>1, <3>2 DEF Accept
      <4>2. work'["request"].version = v
        BY <1>2, <4>1 DEF Base, ScanTypeOK
      <4> QED BY <2>2, <4>2
    <3>3. CASE ~(CheckDocument(f) /\ ~f.big)
      BY <2>1, <2>r, <3>1, <3>3 DEF Accept
    <3> QED BY <3>2, <3>3
  <2> QED BY <1>0, <1>2, <2>3, <2>4, <2>5 DEF FileStep
<1> QED BY <1>1, <1>2

LEMMA BaseInit == ScanInit => Base
<1> SUFFICES ASSUME ScanInit PROVE Base
  OBVIOUS
<1>1. NoWork \in Works /\ [NoWork EXCEPT !.version = 1] \in Works
  BY DEF NoWork, Works, Ids, Actors
<1>2. work \in [Actors -> Works]
  BY <1>1 DEF ScanInit
<1>3. ScanTypeOK
  BY <1>2, ScanAssumption DEF ScanInit, ScanTypeOK, Works
<1>4. Stored
  BY FS_EmptySet DEF ScanInit, Stored
<1>5. RequestInRange
  <2>1. "request" \in Actors
    BY DEF Actors
  <2>2. at["request"] \notin {"none", "ended"} => Request # <<>>
    BY <2>1 DEF ScanInit
  <2>3. work["request"].version = 1
    BY <2>1 DEF ScanInit, NoWork
  <2> QED BY <2>2, <2>3, RequestFiles DEF RequestInRange
<1> QED BY <1>3, <1>4, <1>5 DEF Base

\* A step of the watcher's main thread, of whoever changes the directory, or none.
OtherStep ==
  \/ Poll \/ EndBatch \/ Restart
  \/ \E n \in Names : ChangeDirectory(n) \/ Collect(n)
  \/ UNCHANGED scanVars

LEMMA OtherStepBase ==
  ASSUME Base, OtherStep
  PROVE  Base'
<1>t. /\ at \in [Actors -> Places] /\ result \in [Actors -> Results] /\ work \in [Actors -> Works]
      /\ "request" \in Actors /\ "request" \notin Names /\ Names \subseteq Actors
      /\ NoWork \in Works
  BY ScanAssumption DEF Base, ScanTypeOK, Places, Results, Works, Actors, NoWork, Ids
<1>s. ASSUME /\ dir' \in [Names -> Scans \cup {NoFile}] /\ changes' \in 0..MaxChanges
             /\ watch' \in {"poll", "ingest"} /\ seen' \subseteq Names
             /\ at' \in [Actors -> Places] /\ result' \in [Actors -> Results]
             /\ work' \in [Actors -> Works] /\ UNCHANGED <<raw, docs, failed>>
             /\ faults' \in [FaultKinds -> 0..MaxFaults]
             /\ at'["request"] = at["request"] /\ work'["request"] = work["request"]
      PROVE  Base'
  BY <1>s DEF Base, ScanTypeOK, Stored, RequestInRange, Places, Results, Works
<1>1. CASE Poll
  <2>1. /\ at' \in [Actors -> Places] /\ at'["request"] = at["request"]
        /\ watch' \in {"poll", "ingest"} /\ seen' \subseteq Names
    BY <1>1, <1>t DEF Poll, Base, ScanTypeOK, Places
  <2> QED BY <1>1, <1>s, <1>t, <2>1 DEF Poll, Base, ScanTypeOK
<1>2. CASE EndBatch
  BY <1>2, <1>s, <1>t DEF EndBatch, Base, ScanTypeOK
<1>3. CASE Restart
  <2>1. /\ at' \in [Actors -> Places] /\ at'["request"] = at["request"]
        /\ work' \in [Actors -> Works] /\ work'["request"] = work["request"]
        /\ result' \in [Actors -> Results]
    BY <1>3, <1>t DEF Restart, Places, Results
  <2>2. faults' \in [FaultKinds -> 0..MaxFaults]
    BY <1>3, FaultTypes DEF Restart, Base, FaultKinds
  <2> QED BY <1>3, <1>s, <2>1, <2>2 DEF Restart, Base, ScanTypeOK
<1>4. ASSUME NEW n \in Names, ChangeDirectory(n) PROVE Base'
  <2>1. changes' \in 1..MaxChanges
    BY <1>4, ScanAssumption DEF ChangeDirectory, Base, ScanTypeOK
  <2>2. dir' \in [Names -> Scans \cup {NoFile}]
    BY <1>4, <2>1 DEF ChangeDirectory, Base, ScanTypeOK, Scans
  <2> QED BY <1>4, <1>s, <1>t, <2>1, <2>2 DEF ChangeDirectory, Base, ScanTypeOK
<1>5. ASSUME NEW n \in Names, Collect(n) PROVE Base'
  <2>1. /\ at' \in [Actors -> Places] /\ at'["request"] = at["request"]
        /\ result' \in [Actors -> Results] /\ seen' \subseteq Names
    BY <1>5, <1>t DEF Collect, Places, Results, Base, ScanTypeOK
  <2> QED BY <1>5, <1>s, <1>t, <2>1 DEF Collect, Base, ScanTypeOK
<1>6. CASE UNCHANGED scanVars
  BY <1>6, <1>s, <1>t DEF scanVars, Base, ScanTypeOK
<1> QED BY <1>1, <1>2, <1>3, <1>4, <1>5, <1>6 DEF OtherStep

\* Every step is one of an ingest or of the request, or leaves them where they are.
LEMMA Steps ==
  ASSUME [ScanNext]_scanVars
  PROVE  \/ OtherStep
         \/ \E a \in Actors : \/ FileStep(a)
                              \/ a \in Names /\ ReadFile(a)
                              \/ a = "request" /\ ReadUpload
BY DEF ScanNext, IngestStep, OtherStep, Actors

LEMMA BaseStep == Base /\ [ScanNext]_scanVars => Base'
BY Steps, OtherStepBase, ActorStepTypes, RangeStep DEF Base

LEMMA BaseAlways == ScanSpec => []Base
BY BaseInit, BaseStep, PTL DEF ScanSpec

\* The types hold, whatever is put into the directory and whatever fails.
THEOREM ScanTypes == ScanSpec => []ScanTypeOK
<1>1. Base => ScanTypeOK
  BY DEF Base
<1> QED BY <1>1, BaseAlways, PTL

-------------------------------------------------------------------------------
(* Every row has a file that can be read *)

FilesReadable == \A x \in raw : Readable(x.file)
RowsHaveFile  == \A d \in docs : \E x \in raw : x.id = d.id
WorkHasFile   == \A a \in Actors : at[a] = "insert" => \E x \in raw : x.id = work[a].id
ReadInv       == FilesReadable /\ RowsHaveFile /\ WorkHasFile

\* A step stores a checked file, inserts the row of a stored one, or does neither.
LEMMA ActorRows ==
  ASSUME NEW a \in Actors, Base,
         FileStep(a) \/ (a \in Names /\ ReadFile(a)) \/ (a = "request" /\ ReadUpload)
  PROVE  \/ /\ docs' = docs /\ at'[a] = "insert"
            /\ \E f \in File : CheckDocument(f) /\ raw' = raw \cup {[id |-> work'[a].id, file |-> f]}
         \/ /\ raw' = raw /\ at[a] = "insert" /\ at'[a] # "insert"
            /\ docs' = docs \cup {[id |-> work[a].id, from |-> a, version |-> work[a].version]}
         \/ raw' = raw /\ docs' = docs /\ at'[a] # "insert"
<1>t. /\ at \in [Actors -> Places] /\ work \in [Actors -> Works] /\ ScanTypeOK
  BY DEF Base, ScanTypeOK, Places, Works
<1>e. \A r \in Results : End(a, r) => at'[a] \in {"queued", "ended"}
  BY <1>t DEF End
<1>r. {"none", "id", "None", "refused", "raised"} \subseteq Results
  BY DEF Results
<1>a. ASSUME NEW v, NEW f \in File, Accept(a, v, f), docs' = docs
      PROVE  \/ /\ docs' = docs /\ at'[a] = "insert"
                /\ \E g \in File : CheckDocument(g)
                                   /\ raw' = raw \cup {[id |-> work'[a].id, file |-> g]}
             \/ raw' = raw /\ docs' = docs /\ at'[a] # "insert"
  <2>1. CASE CheckDocument(f) /\ ~f.big
    <3>1. /\ work'[a].id = NewId(a) /\ at'[a] = "insert"
          /\ raw' = raw \cup {[id |-> NewId(a), file |-> f]}
      BY <1>t, <1>a, <2>1 DEF Accept
    <3> QED BY <1>a, <2>1, <3>1
  <2>2. CASE ~(CheckDocument(f) /\ ~f.big)
    BY <1>a, <1>e, <1>r, <2>2 DEF Accept
  <2> QED BY <2>1, <2>2
<1>1. CASE SaveFails(a) \/ InsertFails(a) \/ Publish(a) \/ MarkNotEnqueued(a) \/ MarkFails(a)
  BY <1>1, <1>e, <1>r DEF SaveFails, InsertFails, Publish, MarkNotEnqueued, MarkFails
<1>2. CASE InsertRow(a) \/ InsertUnacknowledged(a)
  BY <1>2, <1>e, <1>r, <1>t DEF InsertRow, InsertUnacknowledged
<1>3. CASE NotPublished(a)
  BY <1>3, <1>t DEF NotPublished
<1>4. CASE a \in Names /\ ReadFile(a)
  <2>1. CASE dir[a] = NoFile
    BY <1>4, <2>1, <1>e, <1>r DEF ReadFile
  <2>2. CASE dir[a] # NoFile
    <3>1. dir[a].file \in File /\ Accept(a, dir[a].version, dir[a].file) /\ docs' = docs
      BY <1>4, <1>t, <2>2, ScanFields DEF ReadFile
    <3> QED BY <1>a, <3>1
  <2> QED BY <2>1, <2>2
<1>5. CASE a = "request" /\ ReadUpload
  <2> DEFINE v == work["request"].version
  <2>1. Request[v] \subseteq File /\ docs' = docs /\ \E f \in Request[v] : Accept(a, v, f)
    BY <1>5, RequestFiles DEF ReadUpload, Base, RequestInRange
  <2> QED BY <1>a, <2>1
<1> QED BY <1>1, <1>2, <1>3, <1>4, <1>5 DEF FileStep

LEMMA ReadInit == ScanInit => ReadInv
BY DEF ScanInit, ReadInv, FilesReadable, RowsHaveFile, WorkHasFile

LEMMA ReadStep == Base /\ ReadInv /\ [ScanNext]_scanVars => ReadInv'
<1> SUFFICES ASSUME Base, ReadInv, [ScanNext]_scanVars PROVE ReadInv'
  OBVIOUS
<1>1. CASE OtherStep
  <2>1. raw' = raw /\ docs' = docs
    BY <1>1 DEF OtherStep, Poll, EndBatch, Restart, ChangeDirectory, Collect, scanVars
  <2>2. ASSUME NEW a \in Actors, at'[a] = "insert"
        PROVE  at[a] = "insert" /\ work'[a].id = work[a].id
    BY <1>1, <2>2 DEF OtherStep, Poll, EndBatch, Restart, ChangeDirectory, Collect, scanVars,
                      Base, ScanTypeOK
  <2> QED BY <2>1, <2>2 DEF ReadInv, FilesReadable, RowsHaveFile, WorkHasFile
<1>2. ASSUME NEW a \in Actors,
             FileStep(a) \/ (a \in Names /\ ReadFile(a)) \/ (a = "request" /\ ReadUpload)
      PROVE  ReadInv'
  <2>1. \A b \in Actors \ {a} : at'[b] = at[b] /\ work'[b] = work[b]
    BY <1>2, ActorFrame
  <2>2. CASE /\ docs' = docs /\ at'[a] = "insert"
             /\ \E f \in File : CheckDocument(f)
                                /\ raw' = raw \cup {[id |-> work'[a].id, file |-> f]}
    <3>1. PICK f \in File : CheckDocument(f) /\ raw' = raw \cup {[id |-> work'[a].id, file |-> f]}
      BY <2>2
    <3>2. Readable(f)
      BY <3>1, CheckedIsReadable
    <3> DEFINE x == [id |-> work'[a].id, file |-> f]
    <3>3. raw' = raw \cup {x} /\ x.id = work'[a].id /\ x.file = f
      BY <3>1
    <3> HIDE DEF x
    <3>4. FilesReadable'
      BY <3>2, <3>3 DEF ReadInv, FilesReadable, Readable, CountPages, PagesRead
    <3>5. RowsHaveFile'
      BY <2>2, <3>3 DEF ReadInv, RowsHaveFile
    <3>6. WorkHasFile'
      BY <2>1, <3>3 DEF ReadInv, WorkHasFile
    <3> QED BY <3>4, <3>5, <3>6 DEF ReadInv
  <2>3. CASE /\ raw' = raw /\ at[a] = "insert" /\ at'[a] # "insert"
             /\ docs' = docs \cup {[id |-> work[a].id, from |-> a, version |-> work[a].version]}
    BY <2>1, <2>3 DEF ReadInv, FilesReadable, RowsHaveFile, WorkHasFile
  <2>4. CASE raw' = raw /\ docs' = docs /\ at'[a] # "insert"
    BY <2>1, <2>4 DEF ReadInv, FilesReadable, RowsHaveFile, WorkHasFile
  <2> QED BY <1>2, <2>2, <2>3, <2>4, ActorRows
<1> QED BY <1>1, <1>2, Steps

\* Whatever intake lets in, the pipeline finds its file and reads at least one page.
THEOREM RowsReadable == ScanSpec => []DocumentsReadable
<1>1. ReadInv => DocumentsReadable
  BY DEF ReadInv, FilesReadable, RowsHaveFile, DocumentsReadable, Readable
<1> QED BY <1>1, ReadInit, ReadStep, BaseAlways, PTL DEF ScanSpec

-------------------------------------------------------------------------------
(* A name is seen only when it has a row *)

HasRow(n) == \E d \in docs : d.from = n

SeenInv ==
  \A n \in Names :
    n \in seen \/ at[n] \in {"publish", "mark"} \/ result[n] = "id" => HasRow(n)

LEMMA SeenInit == ScanInit => SeenInv
BY DEF ScanInit, SeenInv, Actors

LEMMA SeenStep == Base /\ SeenInv /\ [ScanNext]_scanVars => SeenInv'
<1> SUFFICES ASSUME Base, SeenInv, [ScanNext]_scanVars, NEW n \in Names,
                    n \in seen' \/ at'[n] \in {"publish", "mark"} \/ result'[n] = "id"
             PROVE  HasRow(n)'
  BY DEF SeenInv
<1>t. /\ at \in [Actors -> Places] /\ result \in [Actors -> Results] /\ work \in [Actors -> Works]
      /\ n \in Actors /\ n # "request"
  BY ScanAssumption DEF Base, ScanTypeOK, Places, Results, Works, Actors
<1>1. CASE OtherStep
  <2>1. docs' = docs
    BY <1>1 DEF OtherStep, Poll, EndBatch, Restart, ChangeDirectory, Collect, scanVars
  <2>2. n \in seen \/ at[n] \in {"publish", "mark"} \/ result[n] = "id"
    BY <1>1, <1>t DEF OtherStep, Poll, EndBatch, Restart, ChangeDirectory, Collect, scanVars
  <2> QED BY <2>1, <2>2 DEF SeenInv, HasRow
<1>2. ASSUME NEW a \in Actors,
             FileStep(a) \/ (a \in Names /\ ReadFile(a)) \/ (a = "request" /\ ReadUpload)
      PROVE  HasRow(n)'
  <2>1. seen' = seen /\ docs \subseteq docs'
    BY <1>2, ActorFrame, ActorRows
  <2>2. HasRow(n) => HasRow(n)'
    BY <2>1 DEF HasRow
  <2>3. CASE a # n
    BY <1>2, <1>t, <2>1, <2>2, <2>3, ActorFrame DEF SeenInv
  <2>4. CASE a = n
    <3>e. \A r \in Results : End(n, r) => at'[n] = "ended" /\ result'[n] = r
      BY <1>t DEF End
    <3>r. {"none", "id", "None", "refused", "raised"} \subseteq Results
      BY DEF Results
    <3>1. CASE InsertRow(n) \/ InsertUnacknowledged(n)
      <4> DEFINE d == [id |-> work[n].id, from |-> n, version |-> work[n].version]
      <4>1. d \in docs' /\ d.from = n
        BY <3>1 DEF InsertRow, InsertUnacknowledged
      <4> QED BY <4>1 DEF HasRow
    <3>2. CASE SaveFails(n) \/ InsertFails(n) \/ MarkFails(n)
      BY <1>t, <2>1, <2>2, <3>2, <3>e, <3>r DEF SaveFails, InsertFails, MarkFails, SeenInv
    <3>3. CASE Publish(n) \/ NotPublished(n) \/ MarkNotEnqueued(n)
      BY <2>2, <3>3 DEF Publish, NotPublished, MarkNotEnqueued, SeenInv
    <3>4. CASE ReadFile(n)
      <4>1. CASE result' = result /\ at'[n] = "insert"
        BY <2>1, <2>2, <4>1 DEF SeenInv
      <4>2. CASE End(n, "refused") \/ End(n, "raised")
        BY <2>1, <2>2, <3>e, <3>r, <4>2 DEF SeenInv
      <4> QED BY <1>t, <3>4, <4>1, <4>2 DEF ReadFile, Accept
    <3> QED BY <1>2, <1>t, <2>4, <3>1, <3>2, <3>3, <3>4 DEF FileStep
  <2> QED BY <2>3, <2>4
<1> QED BY <1>1, <1>2, Steps

\* The watcher never takes a file for ingested that has no row.
THEOREM SeenHaveRows == ScanSpec => []SeenHasDocument
<1>1. SeenInv => (\A n \in Names : n \in seen => HasRow(n))
  BY DEF SeenInv
<1>2. Base /\ SeenInv => SeenHasDocument
  BY <1>1 DEF Base, ScanTypeOK, SeenHasDocument, HasRow
<1> QED BY <1>2, SeenInit, SeenStep, BaseAlways, PTL DEF ScanSpec

-------------------------------------------------------------------------------
(* How many documents one version of a file becomes *)

Copies(n, v) == {d \in docs : d.from = n /\ d.version = v}

\* The ingest of version v under name n can still come to a row.
Fresh(n, v) ==
  \/ at[n] = "insert" /\ work[n].version = v
  \/ /\ dir[n].version = v /\ n \notin seen
     /\ at[n] \in {"none", "queued", "insert", "ended"} /\ result[n] # "id"

CountInv ==
  \A n \in Names : \A v \in 1..MaxChanges :
    /\ Cardinality(Copies(n, v)) <= 1 + Forgotten
    /\ Fresh(n, v) => Cardinality(Copies(n, v)) <= Forgotten

\* The pool works on names the main thread has not seen, and only between two polls.
BatchInv ==
  \A n \in Names :
    /\ watch = "poll" => at[n] = "none"
    /\ at[n] # "none" => n \notin seen
    /\ at[n] # "ended" => result[n] = "none"

\* A version is in rows and in work only after it was in the directory.
VersionInv ==
  \A n \in Names :
    /\ dir[n].version <= changes
    /\ at[n] = "insert" => work[n].version <= changes
    /\ \A d \in docs : d.from = n => d.version <= changes

DupInv == BatchInv /\ VersionInv /\ CountInv

LEMMA ForgottenType ==
  ASSUME Base
  PROVE  /\ Forgotten \in Nat
         /\ \A k \in FaultKinds : faults[k] \in Nat
         /\ UNCHANGED faults => Forgotten' = Forgotten
         /\ \A k \in FaultKinds : Fault(k) =>
              Forgotten' = IF k \in {"restart", "unacknowledged", "notMarked"}
                             THEN Forgotten + 1 ELSE Forgotten
<1>1. \A k \in FaultKinds : faults[k] \in Nat
  BY ScanAssumption DEF Base, ScanTypeOK
<1>2. {"restart", "unacknowledged", "notMarked"} \subseteq FaultKinds
  BY DEF FaultKinds
<1>3. faults["restart"] \in Nat /\ faults["unacknowledged"] \in Nat /\ faults["notMarked"] \in Nat
  BY <1>1, <1>2
<1>4. ASSUME NEW k \in FaultKinds, Fault(k)
      PROVE  Forgotten' = IF k \in {"restart", "unacknowledged", "notMarked"}
                            THEN Forgotten + 1 ELSE Forgotten
  <2>1. /\ \A j \in FaultKinds \ {k} : faults'[j] = faults[j]
        /\ faults'[k] = faults[k] + 1
    BY <1>4 DEF Fault, Base, ScanTypeOK
  <2>2. CASE k = "restart"
    BY <1>2, <1>3, <2>1, <2>2 DEF Forgotten
  <2>3. CASE k = "unacknowledged"
    BY <1>2, <1>3, <2>1, <2>3 DEF Forgotten
  <2>4. CASE k = "notMarked"
    BY <1>2, <1>3, <2>1, <2>4 DEF Forgotten
  <2>5. CASE k \notin {"restart", "unacknowledged", "notMarked"}
    BY <1>2, <1>3, <2>1, <2>5 DEF Forgotten
  <2> QED BY <2>2, <2>3, <2>4, <2>5
<1> QED BY <1>1, <1>3, <1>4 DEF Forgotten

LEMMA CopiesCount ==
  ASSUME Base, NEW n \in Names, NEW v \in 1..MaxChanges
  PROVE  /\ Cardinality(Copies(n, v)) \in Nat
         /\ docs' = docs => Copies(n, v)' = Copies(n, v)
         /\ \A d : docs' = docs \cup {d} =>
              /\ Cardinality(Copies(n, v)') \in Nat
              /\ Cardinality(Copies(n, v)') <= Cardinality(Copies(n, v)) + 1
              /\ d.from # n \/ d.version # v => Copies(n, v)' = Copies(n, v)
<1>1. IsFiniteSet(Copies(n, v))
  BY FS_Subset DEF Base, Stored, Copies
<1>2. Cardinality(Copies(n, v)) \in Nat
  BY <1>1, FS_CardinalityType
<1>3. docs' = docs => Copies(n, v)' = Copies(n, v)
  BY DEF Copies
<1>4. ASSUME NEW d, docs' = docs \cup {d}
      PROVE  /\ Cardinality(Copies(n, v)') \in Nat
             /\ Cardinality(Copies(n, v)') <= Cardinality(Copies(n, v)) + 1
             /\ d.from # n \/ d.version # v => Copies(n, v)' = Copies(n, v)
  <2>1. CASE d.from = n /\ d.version = v
    <3>1. Copies(n, v)' = Copies(n, v) \cup {d}
      BY <1>4, <2>1 DEF Copies
    <3>2. Cardinality(Copies(n, v) \cup {d}) \in {Cardinality(Copies(n, v)), Cardinality(Copies(n, v)) + 1}
      BY <1>1, FS_AddElement
    <3> QED BY <1>2, <2>1, <3>1, <3>2
  <2>2. CASE ~(d.from = n /\ d.version = v)
    <3>1. Copies(n, v)' = Copies(n, v)
      BY <1>4, <2>2 DEF Copies
    <3> QED BY <1>2, <3>1
  <2> QED BY <2>1, <2>2
<1> QED BY <1>2, <1>3, <1>4

LEMMA DupInit == ScanInit => DupInv
<1> SUFFICES ASSUME ScanInit PROVE DupInv
  OBVIOUS
<1>1. \A n \in Names : n \in Actors /\ n # "request"
  BY ScanAssumption DEF Actors
<1>2. BatchInv
  BY <1>1 DEF ScanInit, BatchInv
<1>3. VersionInv
  BY <1>1 DEF ScanInit, VersionInv, NoFile
<1>4. CountInv
  <2>1. Base /\ Forgotten \in Nat
    BY BaseInit, ForgottenType
  <2>2. \A n \in Names : \A v \in 1..MaxChanges : Copies(n, v) = {}
    BY DEF ScanInit, Copies
  <2>3. \A n \in Names : \A v \in 1..MaxChanges : Cardinality(Copies(n, v)) = 0
    BY <2>2, FS_EmptySet
  <2> QED BY <2>1, <2>3 DEF CountInv
<1> QED BY <1>2, <1>3, <1>4 DEF DupInv

\* What a step of the ingest of n does, as far as the counting is concerned.
LEMMA NameStep ==
  ASSUME Base, DupInv, NEW n \in Names, FileStep(n) \/ ReadFile(n)
  PROVE  \/ \* read: a version of the directory is being ingested
            /\ at[n] = "queued" /\ at'[n] = "insert" /\ result'[n] = result[n]
            /\ work'[n].version = dir[n].version /\ docs' = docs /\ UNCHANGED faults
         \/ \* a row that will count as ingested
            /\ at[n] = "insert" /\ at'[n] = "publish" /\ UNCHANGED <<faults, result>>
            /\ docs' = docs \cup {[id |-> work[n].id, from |-> n, version |-> work[n].version]}
         \/ \* a row that will not
            /\ at[n] = "insert" /\ at'[n] = "ended" /\ result'[n] # "id"
            /\ Fault("unacknowledged")
            /\ docs' = docs \cup {[id |-> work[n].id, from |-> n, version |-> work[n].version]}
         \/ \* the ingest of a row counts as failed
            /\ at[n] = "mark" /\ at'[n] = "ended" /\ Fault("notMarked") /\ docs' = docs
         \/ \* the ingest goes on, or ends, with a row
            /\ at[n] \in {"publish", "mark"} /\ docs' = docs
            /\ \/ at'[n] = "mark" /\ result' = result
               \/ at'[n] = "ended" /\ result'[n] = "id"
            /\ UNCHANGED faults \/ Fault("publish")
         \/ \* it ends without a row
            /\ at[n] \in {"queued", "insert"} /\ at'[n] = "ended" /\ result'[n] # "id"
            /\ UNCHANGED faults \/ Fault("save") \/ Fault("insert")
            /\ docs' = docs
<1>t. /\ at \in [Actors -> Places] /\ result \in [Actors -> Results] /\ work \in [Actors -> Works]
      /\ n \in Actors /\ n # "request"
  BY ScanAssumption DEF Base, ScanTypeOK, Places, Results, Works, Actors
<1>e. \A r : End(n, r) => at'[n] = "ended" /\ result'[n] = r
  BY <1>t DEF End
<1>1. CASE InsertRow(n)
  BY <1>1, <1>t DEF InsertRow
<1>2. CASE InsertUnacknowledged(n)
  BY <1>2, <1>t, <1>e DEF InsertUnacknowledged
<1>3. CASE SaveFails(n)
  BY <1>3, <1>e DEF SaveFails
<1>4. CASE InsertFails(n)
  BY <1>4, <1>t, <1>e DEF InsertFails
<1>5. CASE Publish(n)
  BY <1>5, <1>e DEF Publish
<1>6. CASE NotPublished(n)
  BY <1>6, <1>t DEF NotPublished
<1>7. CASE MarkNotEnqueued(n)
  BY <1>7, <1>e DEF MarkNotEnqueued
<1>8. CASE MarkFails(n)
  BY <1>8, <1>e DEF MarkFails
<1>9. CASE ReadFile(n)
  <2>1. CASE End(n, "raised") \/ End(n, "refused")
    BY <1>9, <1>e, <2>1 DEF ReadFile
  <2>2. CASE /\ work' = [work EXCEPT ![n] = [version |-> dir[n].version, id |-> NewId(n)]]
             /\ at' = [at EXCEPT ![n] = "insert"] /\ result' = result
    BY <1>9, <1>t, <2>2 DEF ReadFile
  <2> QED BY <1>9, <2>1, <2>2 DEF ReadFile, Accept
<1> QED BY <1>1, <1>2, <1>3, <1>4, <1>5, <1>6, <1>7, <1>8, <1>9 DEF FileStep

LEMMA BatchStep ==
  ASSUME Base, DupInv, [ScanNext]_scanVars
  PROVE  BatchInv'
<1>t. /\ at \in [Actors -> Places] /\ result \in [Actors -> Results] /\ Names \subseteq Actors
      /\ "request" \notin Names /\ BatchInv /\ watch \in {"poll", "ingest"}
  BY ScanAssumption DEF Base, ScanTypeOK, Places, Results, Actors, DupInv
<1>1. CASE Poll
  BY <1>1, <1>t DEF Poll, BatchInv
<1>2. CASE EndBatch
  BY <1>2, <1>t DEF EndBatch, BatchInv
<1>3. CASE Restart
  BY <1>3, <1>t DEF Restart, BatchInv
<1>4. ASSUME NEW m \in Names, ChangeDirectory(m) PROVE BatchInv'
  BY <1>4, <1>t DEF ChangeDirectory, BatchInv
<1>5. ASSUME NEW m \in Names, Collect(m) PROVE BatchInv'
  BY <1>5, <1>t DEF Collect, BatchInv
<1>6. CASE UNCHANGED scanVars
  BY <1>6, <1>t DEF scanVars, BatchInv
<1>7. ASSUME NEW a \in Actors,
             FileStep(a) \/ (a \in Names /\ ReadFile(a)) \/ (a = "request" /\ ReadUpload)
      PROVE  BatchInv'
  <2>1. /\ UNCHANGED <<watch, seen>> /\ at[a] # "none"
        /\ \A b \in Actors \ {a} : at'[b] = at[b] /\ result'[b] = result[b]
    BY <1>7, ActorFrame
  <2>2. CASE a = "request"
    BY <1>t, <2>1, <2>2 DEF BatchInv
  <2>3. CASE a \in Names
    <3>1. watch # "poll" /\ a \notin seen
      BY <1>t, <2>1, <2>3 DEF BatchInv
    <3>2. FileStep(a) \/ ReadFile(a)
      BY <1>7, <1>t, <2>3
    <3>3. at'[a] # "ended" => result'[a] = "none"
      <4>1. at'[a] # "ended" => at[a] # "ended" /\ result'[a] = result[a]
        BY <2>3, <3>2, NameStep
      <4> QED BY <1>t, <2>3, <4>1 DEF BatchInv
    <3> QED BY <1>t, <2>1, <3>1, <3>3 DEF BatchInv
  <2> QED BY <2>2, <2>3 DEF Actors
<1> QED BY <1>1, <1>2, <1>3, <1>4, <1>5, <1>6, <1>7, Steps DEF OtherStep

LEMMA VersionStep ==
  ASSUME Base, DupInv, [ScanNext]_scanVars
  PROVE  VersionInv'
<1>t. /\ at \in [Actors -> Places] /\ work \in [Actors -> Works] /\ Names \subseteq Actors
      /\ "request" \notin Names /\ VersionInv /\ changes \in Nat
      /\ \A n \in Names : dir[n].version \in Nat /\ work[n].version \in Nat
      /\ \A d \in docs : d.version \in Nat
  BY ScanAssumption DEF Base, ScanTypeOK, Places, Works, Actors, DupInv, Scans, NoFile
<1>1. CASE Poll \/ EndBatch \/ Restart
  <2>1. UNCHANGED <<dir, changes, docs>>
    BY <1>1 DEF Poll, EndBatch, Restart
  <2>2. \A n \in Names : at'[n] = "insert" => at[n] = "insert" /\ work'[n] = work[n]
    BY <1>1, <1>t DEF Poll, EndBatch, Restart
  <2> QED BY <1>t, <2>1, <2>2 DEF VersionInv
<1>2. ASSUME NEW m \in Names, ChangeDirectory(m) PROVE VersionInv'
  <2>1. changes' = changes + 1 /\ UNCHANGED <<at, work, docs>>
    BY <1>2 DEF ChangeDirectory
  <2>2. \A n \in Names : dir'[n].version <= changes'
    BY <1>2, <1>t DEF ChangeDirectory, NoFile, VersionInv, Base, ScanTypeOK
  <2> QED BY <1>t, <2>1, <2>2 DEF VersionInv
<1>3. ASSUME NEW m \in Names, Collect(m) PROVE VersionInv'
  BY <1>3, <1>t DEF Collect, VersionInv
<1>4. CASE UNCHANGED scanVars
  BY <1>4, <1>t DEF scanVars, VersionInv
<1>5. ASSUME NEW a \in Actors,
             FileStep(a) \/ (a \in Names /\ ReadFile(a)) \/ (a = "request" /\ ReadUpload)
      PROVE  VersionInv'
  <2>1. /\ UNCHANGED <<dir, changes>>
        /\ \A b \in Actors \ {a} : at'[b] = at[b] /\ work'[b] = work[b]
    BY <1>5, ActorFrame
  <2>2. CASE a = "request"
    <3>1. \A d \in docs' : d \in docs \/ d.from = a
      BY <1>5, ActorRows
    <3> QED BY <1>t, <2>1, <2>2, <3>1 DEF VersionInv
  <2>3. CASE a \in Names
    <3>1. FileStep(a) \/ ReadFile(a)
      BY <1>5, <1>t, <2>3
    <3>2. at'[a] = "insert" => work'[a].version = dir[a].version
      BY <2>3, <3>1, NameStep
    <3>3. \A d \in docs' : d \in docs
                            \/ (at[a] = "insert" /\ d.from = a /\ d.version = work[a].version)
      <4> DEFINE r == [id |-> work[a].id, from |-> a, version |-> work[a].version]
      <4>1. docs' = docs \/ (at[a] = "insert" /\ docs' = docs \cup {r})
        BY <1>5, ActorRows
      <4>2. r.from = a /\ r.version = work[a].version
        OBVIOUS
      <4> HIDE DEF r
      <4> QED BY <4>1, <4>2
    <3> QED BY <1>t, <2>1, <2>3, <3>2, <3>3 DEF VersionInv
  <2> QED BY <2>2, <2>3 DEF Actors
<1> QED BY <1>1, <1>2, <1>3, <1>4, <1>5, Steps DEF OtherStep

\* A version that was just put there has no row yet.
LEMMA NewVersion ==
  ASSUME Base, DupInv, NEW n \in Names
  PROVE  Copies(n, changes + 1) = {} /\ changes \in Nat
<1>1. /\ \A d \in docs : d.version \in Nat
      /\ changes \in Nat
  BY ScanAssumption DEF Base, ScanTypeOK
<1> QED BY <1>1 DEF DupInv, VersionInv, Copies

LEMMA CountStep ==
  ASSUME Base, DupInv, [ScanNext]_scanVars, NEW n \in Names, NEW v \in 1..MaxChanges
  PROVE  /\ Cardinality(Copies(n, v)') <= 1 + Forgotten'
         /\ Fresh(n, v)' => Cardinality(Copies(n, v)') <= Forgotten'
<1> DEFINE c == Cardinality(Copies(n, v))
<1>t. /\ at \in [Actors -> Places] /\ result \in [Actors -> Results] /\ work \in [Actors -> Works]
      /\ Names \subseteq Actors /\ "request" \notin Names
      /\ dir \in [Names -> Scans \cup {NoFile}] /\ BatchInv /\ v \in Nat \ {0}
  BY ScanAssumption DEF Base, ScanTypeOK, Places, Results, Works, Actors, DupInv
<1>c. /\ c \in Nat /\ Forgotten \in Nat
      /\ c <= 1 + Forgotten /\ (Fresh(n, v) => c <= Forgotten)
  BY CopiesCount, ForgottenType DEF DupInv, CountInv
<1>k. {"save", "insert", "unacknowledged", "publish", "notMarked", "restart"} \subseteq FaultKinds
  BY DEF FaultKinds
<1>f. /\ UNCHANGED faults => Forgotten' = Forgotten
      /\ \A k \in {"save", "insert", "publish"} : Fault(k) => Forgotten' = Forgotten
      /\ \A k \in {"unacknowledged", "notMarked", "restart"} :
            Fault(k) => Forgotten' = Forgotten + 1
  BY <1>k, ForgottenType
<1>d. docs' = docs => Copies(n, v)' = Copies(n, v)
  BY CopiesCount
<1>q. /\ Forgotten' \in Nat
      /\ \A r : docs' = docs \cup {r} =>
           /\ Cardinality(Copies(n, v)') \in Nat /\ Cardinality(Copies(n, v)') <= c + 1
           /\ r.from # n \/ r.version # v => Copies(n, v)' = Copies(n, v)
  <2>1. Base'
    BY BaseStep
  <2>2. \A k \in FaultKinds : faults'[k] \in Nat
    BY <2>1, ScanAssumption DEF Base, ScanTypeOK
  <2>3. Forgotten' \in Nat
    BY <1>k, <2>2 DEF Forgotten
  <2> QED BY <2>3, CopiesCount
<1>s. ASSUME Copies(n, v)' = Copies(n, v), Forgotten' \in {Forgotten, Forgotten + 1},
             Forgotten' = Forgotten => (Fresh(n, v)' => Fresh(n, v))
      PROVE  /\ Cardinality(Copies(n, v)') <= 1 + Forgotten'
             /\ Fresh(n, v)' => Cardinality(Copies(n, v)') <= Forgotten'
  BY <1>c, <1>s
<1> HIDE DEF c
<1>1. CASE Poll
  <2>1. Fresh(n, v)' => Fresh(n, v)
    <3>1. at[n] = "none" /\ result[n] = "none" /\ UNCHANGED <<dir, result, work>>
      BY <1>1, <1>t DEF Poll, BatchInv
    <3>2. at'[n] \in {"none", "queued"}
      BY <1>1, <1>t, <3>1 DEF Poll
    <3>3. dir[n] # NoFile /\ n \in seen => n \in seen'
      BY <1>1 DEF Poll
    <3>4. dir[n].version = v => dir[n] # NoFile
      BY <1>t DEF NoFile
    <3> QED BY <3>1, <3>2, <3>3, <3>4 DEF Fresh
  <2> QED BY <1>1, <1>d, <1>f, <1>s, <2>1 DEF Poll
<1>2. CASE EndBatch
  <2>1. Fresh(n, v)' => Fresh(n, v)
    BY <1>2 DEF EndBatch, Fresh
  <2> QED BY <1>2, <1>d, <1>f, <1>s, <2>1 DEF EndBatch
<1>3. CASE Restart
  <2>1. docs' = docs /\ Forgotten' = Forgotten + 1
    BY <1>3, <1>f DEF Restart
  <2> QED BY <1>c, <1>d, <1>s, <2>1
<1>4. ASSUME NEW m \in Names, ChangeDirectory(m)
      PROVE  /\ Cardinality(Copies(n, v)') <= 1 + Forgotten'
             /\ Fresh(n, v)' => Cardinality(Copies(n, v)') <= Forgotten'
  <2>1. docs' = docs /\ UNCHANGED <<faults, at, work, seen, result>>
    BY <1>4 DEF ChangeDirectory
  <2>2. dir'[n] = dir[n] \/ dir'[n] = NoFile \/ dir'[n].version = changes + 1
    BY <1>4, <1>t DEF ChangeDirectory
  <2>3. CASE dir'[n].version = changes + 1 /\ v = changes + 1
    <3>1. c = 0
      BY <2>3, NewVersion, FS_EmptySet DEF c
    <3> QED BY <1>c, <1>d, <1>f, <2>1, <3>1 DEF c
  <2>4. CASE ~(dir'[n].version = changes + 1 /\ v = changes + 1)
    <3>1. Fresh(n, v)' => Fresh(n, v)
      BY <1>t, <2>1, <2>2, <2>4 DEF Fresh, NoFile
    <3> QED BY <1>d, <1>f, <1>s, <2>1, <3>1
  <2> QED BY <2>3, <2>4
<1>5. ASSUME NEW m \in Names, Collect(m)
      PROVE  /\ Cardinality(Copies(n, v)') <= 1 + Forgotten'
             /\ Fresh(n, v)' => Cardinality(Copies(n, v)') <= Forgotten'
  <2>1. Fresh(n, v)' => Fresh(n, v)
    <3>1. CASE m = n
      BY <1>5, <1>t, <3>1 DEF Collect, Fresh
    <3>2. CASE m # n
      BY <1>5, <1>t, <3>2 DEF Collect, Fresh
    <3> QED BY <3>1, <3>2
  <2> QED BY <1>5, <1>d, <1>f, <1>s, <2>1 DEF Collect
<1>6. CASE UNCHANGED scanVars
  <2>1. Fresh(n, v)' => Fresh(n, v)
    BY <1>6 DEF scanVars, Fresh
  <2> QED BY <1>6, <1>d, <1>f, <1>s, <2>1 DEF scanVars
<1>7. ASSUME NEW a \in Actors \ {n},
             FileStep(a) \/ (a \in Names /\ ReadFile(a)) \/ (a = "request" /\ ReadUpload)
      PROVE  /\ Cardinality(Copies(n, v)') <= 1 + Forgotten'
             /\ Fresh(n, v)' => Cardinality(Copies(n, v)') <= Forgotten'
  <2>1. Fresh(n, v)' => Fresh(n, v)
    <3>1. /\ UNCHANGED <<dir, seen>> /\ at'[n] = at[n] /\ work'[n] = work[n]
          /\ result'[n] = result[n]
      BY <1>7, <1>t, ActorFrame
    <3> QED BY <3>1 DEF Fresh
  <2>2. Copies(n, v)' = Copies(n, v)
    BY <1>7, ActorRows DEF Copies
  <2>3. UNCHANGED faults \/ \E k \in FaultKinds : Fault(k)
    BY <1>7, <1>k DEF FileStep, SaveFails, InsertRow, InsertFails, InsertUnacknowledged, Publish,
                     NotPublished, MarkNotEnqueued, MarkFails, ReadFile, ReadUpload
  <2>4. Forgotten' \in {Forgotten, Forgotten + 1}
    BY <2>3, ForgottenType
  <2> QED BY <1>s, <2>1, <2>2, <2>4
<1>8. CASE FileStep(n) \/ ReadFile(n)
  <2>0. UNCHANGED <<dir, seen>> /\ n \in Actors
    BY <1>8, <1>t, ActorFrame
  <2> DEFINE r == [id |-> work[n].id, from |-> n, version |-> work[n].version]
  <2>r. r.from = n /\ r.version = work[n].version
    OBVIOUS
  <2>b. docs' = docs \cup {r} =>
          /\ Cardinality(Copies(n, v)') \in Nat /\ Cardinality(Copies(n, v)') <= c + 1
          /\ work[n].version # v => Copies(n, v)' = Copies(n, v)
    <3> HIDE DEF r
    <3> QED BY <1>q, <2>r
  <2>1. CASE /\ at[n] = "queued" /\ at'[n] = "insert" /\ result'[n] = result[n]
             /\ work'[n].version = dir[n].version /\ docs' = docs /\ UNCHANGED faults
    <3>1. result[n] = "none" /\ n \notin seen
      BY <1>t, <2>1 DEF BatchInv
    <3>2. Fresh(n, v)' => Fresh(n, v)
      BY <2>0, <2>1, <3>1 DEF Fresh
    <3> QED BY <1>d, <1>f, <1>s, <2>1, <3>2
  <2>2. CASE /\ at[n] = "insert" /\ at'[n] = "publish" /\ UNCHANGED <<faults, result>>
             /\ docs' = docs \cup {r}
    <3>1. ~Fresh(n, v)'
      BY <2>2 DEF Fresh
    <3>2. CASE work[n].version = v
      BY <1>c, <1>f, <2>b, <2>2, <3>1, <3>2 DEF Fresh
    <3>3. CASE work[n].version # v
      BY <1>f, <2>b, <1>s, <2>2, <3>1, <3>3
    <3> QED BY <3>2, <3>3
  <2>3. CASE /\ at[n] = "insert" /\ at'[n] = "ended" /\ Fault("unacknowledged")
             /\ docs' = docs \cup {r}
    <3>1. Forgotten' = Forgotten + 1
      BY <1>f, <2>3
    <3>2. CASE work[n].version = v
      <4>1. c <= Forgotten
        BY <1>c, <2>3, <3>2 DEF Fresh
      <4> QED BY <1>c, <2>b, <2>3, <3>1, <4>1
    <3>3. CASE work[n].version # v
      BY <1>c, <2>b, <1>s, <2>3, <3>1, <3>3
    <3> QED BY <3>2, <3>3
  <2>4. CASE at[n] = "mark" /\ at'[n] = "ended" /\ Fault("notMarked") /\ docs' = docs
    <3>1. Forgotten' = Forgotten + 1
      BY <1>f, <2>4
    <3> QED BY <1>c, <1>d, <1>s, <2>4, <3>1
  <2>5. CASE /\ at[n] \in {"publish", "mark"} /\ docs' = docs
             /\ \/ at'[n] = "mark" /\ result' = result
                \/ at'[n] = "ended" /\ result'[n] = "id"
             /\ UNCHANGED faults \/ Fault("publish")
    <3>1. ~Fresh(n, v)'
      BY <2>5 DEF Fresh
    <3> QED BY <1>d, <1>f, <1>s, <2>5, <3>1
  <2>6. CASE /\ at[n] \in {"queued", "insert"} /\ at'[n] = "ended" /\ result'[n] # "id"
             /\ UNCHANGED faults \/ Fault("save") \/ Fault("insert")
             /\ docs' = docs
    <3>1. result[n] = "none"
      BY <1>t, <2>6 DEF BatchInv
    <3>2. Fresh(n, v)' => Fresh(n, v)
      BY <2>0, <2>6, <3>1 DEF Fresh
    <3> QED BY <1>d, <1>f, <1>s, <2>6, <3>2
  <2> QED BY <1>8, <2>1, <2>2, <2>3, <2>4, <2>5, <2>6, NameStep
<1> QED
  <2>1. ASSUME NEW a \in Actors,
               FileStep(a) \/ (a \in Names /\ ReadFile(a)) \/ (a = "request" /\ ReadUpload)
        PROVE  \/ a \in Actors \ {n}
               \/ FileStep(n) \/ ReadFile(n)
    BY <1>t, <2>1
  <2> QED BY <1>1, <1>2, <1>3, <1>4, <1>5, <1>6, <1>7, <1>8, <2>1, Steps DEF OtherStep

LEMMA DupStep == Base /\ DupInv /\ [ScanNext]_scanVars => DupInv'
BY BatchStep, VersionStep, CountStep DEF DupInv, CountInv

\* A version of a file becomes one document, and one more for each time its ingest was
\* forgotten, however many names, threads and faults there are.
THEOREM DuplicatesBounded == ScanSpec => []DuplicatesAccounted
<1>1. DupInv => DuplicatesAccounted
  BY DEF DupInv, CountInv, Copies, DuplicatesAccounted
<1> QED BY <1>1, DupInit, DupStep, BaseAlways, PTL DEF ScanSpec

-------------------------------------------------------------------------------
(* What the answer of an upload says *)

Made == {d.version : d \in {d \in docs : d.from = "request"}}

RequestInv ==
  /\ at["request"] \in {"queued", "insert"} => Made = 1..(work["request"].version - 1)
  /\ at["request"] \in {"publish", "mark"} => Made = 1..work["request"].version
  /\ AnswerMatchesRows

LEMMA RequestInit == ScanInit => RequestInv
<1> SUFFICES ASSUME ScanInit PROVE RequestInv
  OBVIOUS
<1>1. /\ at["request"] \in {"none", "queued"} /\ work["request"].version = 1
  BY DEF ScanInit, Actors, NoWork
<1>2. Made = {} /\ 1..(1 - 1) = {}
  BY DEF ScanInit, Made
<1> QED BY <1>1, <1>2 DEF RequestInv, AnswerMatchesRows

\* The request stops at its version, or goes on with the next.
LEMMA EndAnswer ==
  ASSUME Base, NEW r \in Results, at["request"] \notin {"none", "ended"}, End("request", r),
         \/ Made' = 1..work["request"].version
         \/ r # "id" /\ Made' = 1..(work["request"].version - 1)
  PROVE  RequestInv'
<1> DEFINE v == work["request"].version
<1>t. /\ at \in [Actors -> Places] /\ result \in [Actors -> Results] /\ work \in [Actors -> Works]
      /\ "request" \in Actors /\ v \in 1..Len(Request) /\ Len(Request) \in Nat
      /\ DOMAIN Request = 1..Len(Request)
  BY RequestFiles DEF Base, ScanTypeOK, RequestInRange, Places, Results, Works, Actors
<1>1. CASE r = "id" /\ v < Len(Request)
  <2>1. at'["request"] = "queued" /\ work'["request"].version = v + 1
    BY <1>1, <1>t DEF End, Works
  <2>2. Made' = 1..(work'["request"].version - 1)
    BY <1>1, <1>t, <2>1
  <2> QED BY <2>1, <2>2 DEF RequestInv, AnswerMatchesRows
<1>2. CASE ~(r = "id" /\ v < Len(Request))
  <2>1. at'["request"] = "ended" /\ result'["request"] = r
    BY <1>2, <1>t DEF End
  <2>2. r = "id" => Made' = DOMAIN Request
    BY <1>2, <1>t
  <2>3. v \in DOMAIN Request /\ 1..(v - 1) \subseteq Made' /\ Made' \subseteq 1..v
    BY <1>t
  <2>4. AnswerMatchesRows'
    BY <2>1, <2>2, <2>3 DEF AnswerMatchesRows, Made
  <2> QED BY <2>1, <2>4 DEF RequestInv
<1> QED BY <1>1, <1>2

LEMMA RequestStep == Base /\ RequestInv /\ [ScanNext]_scanVars => RequestInv'
<1> SUFFICES ASSUME Base, RequestInv, [ScanNext]_scanVars PROVE RequestInv'
  OBVIOUS
<1> DEFINE v == work["request"].version
<1>t. /\ at \in [Actors -> Places] /\ result \in [Actors -> Results] /\ work \in [Actors -> Works]
      /\ "request" \in Actors /\ "request" \notin Names /\ Names \subseteq Actors
  BY ScanAssumption DEF Base, ScanTypeOK, Places, Results, Works, Actors
<1>s. ASSUME at'["request"] = at["request"], work'["request"] = work["request"],
             result'["request"] = result["request"], Made' = Made
      PROVE  RequestInv'
  BY <1>s DEF RequestInv, AnswerMatchesRows, Made
<1>1. CASE OtherStep
  <2>1. docs' = docs
    BY <1>1 DEF OtherStep, Poll, EndBatch, Restart, ChangeDirectory, Collect, scanVars
  <2>2. /\ at'["request"] = at["request"] /\ work'["request"] = work["request"]
        /\ result'["request"] = result["request"]
    BY <1>1, <1>t DEF OtherStep, Poll, EndBatch, Restart, ChangeDirectory, Collect, scanVars
  <2> QED BY <1>s, <2>1, <2>2 DEF Made
<1>2. ASSUME NEW a \in Actors, a # "request", FileStep(a) \/ (a \in Names /\ ReadFile(a))
      PROVE  RequestInv'
  <2>1. /\ at'["request"] = at["request"] /\ work'["request"] = work["request"]
        /\ result'["request"] = result["request"]
    BY <1>2, <1>t, ActorFrame
  <2>2. {d \in docs : d.from = "request"}' = {d \in docs : d.from = "request"}
    BY <1>2, ActorRows
  <2>3. Made' = Made
    BY <2>2 DEF Made
  <2> QED BY <1>s, <2>1, <2>3
<1>3. ASSUME FileStep("request") \/ ReadUpload
      PROVE  RequestInv'
  <2>0. /\ at["request"] \notin {"none", "ended"} /\ v \in Nat
        /\ v \in DOMAIN Request
    BY <1>3, <1>t, ActorFrame, RequestFiles DEF Base, RequestInRange
  <2>r. {"none", "id", "None", "refused", "raised"} \subseteq Results
    BY DEF Results
  <2>d. docs' = docs => Made' = Made
    BY DEF Made
  <2>e. ASSUME at["request"] = "insert",
               docs' = docs \cup {[id |-> work["request"].id, from |-> "request", version |-> v]}
        PROVE  Made' = 1..v
    <3> DEFINE r == [id |-> work["request"].id, from |-> "request", version |-> v]
    <3>1. docs' = docs \cup {r} /\ r.from = "request" /\ r.version = v
      BY <2>e
    <3> HIDE DEF r
    <3>2. Made' = Made \cup {v}
      BY <3>1 DEF Made
    <3>3. Made = 1..(v - 1)
      BY <2>e DEF RequestInv
    <3> QED BY <2>0, <3>2, <3>3, RequestFiles
  <2>1. CASE InsertRow("request")
    <3>1. Made' = 1..v
      BY <2>1, <2>e DEF InsertRow
    <3>2. at'["request"] = "publish" /\ work' = work
      BY <1>t, <2>1 DEF InsertRow
    <3> QED BY <3>1, <3>2 DEF RequestInv, AnswerMatchesRows
  <2>2. CASE InsertUnacknowledged("request")
    BY <2>0, <2>2, <2>e, <2>r, EndAnswer DEF InsertUnacknowledged
  <2>3. CASE SaveFails("request") \/ InsertFails("request")
    <3>1. Made' = 1..(v - 1)
      BY <2>3, <2>d DEF SaveFails, InsertFails, RequestInv
    <3> QED BY <2>0, <2>3, <2>r, <3>1, EndAnswer DEF SaveFails, InsertFails
  <2>4. CASE Publish("request") \/ MarkNotEnqueued("request") \/ MarkFails("request")
    <3>1. Made' = 1..v
      BY <2>4, <2>d DEF Publish, MarkNotEnqueued, MarkFails, RequestInv
    <3> QED BY <2>0, <2>4, <2>r, <3>1, EndAnswer DEF Publish, MarkNotEnqueued, MarkFails
  <2>5. CASE NotPublished("request")
    <3>1. at["request"] = "publish" /\ at'["request"] = "mark" /\ UNCHANGED <<work, docs>>
      BY <1>t, <2>5 DEF NotPublished
    <3>2. Made' = 1..v
      BY <2>d, <3>1 DEF RequestInv
    <3> QED BY <3>1, <3>2 DEF RequestInv, AnswerMatchesRows
  <2>6. CASE ReadUpload
    <3>0. PICK f \in Request[v] : Accept("request", v, f)
      BY <2>6 DEF ReadUpload
    <3>1. at["request"] = "queued" /\ docs' = docs
      BY <2>6 DEF ReadUpload
    <3>2. Made' = 1..(v - 1)
      BY <2>d, <3>1 DEF RequestInv
    <3>3. CASE CheckDocument(f) /\ ~f.big
      <4>1. at'["request"] = "insert" /\ work'["request"].version = v
        BY <1>t, <3>0, <3>3 DEF Accept
      <4> QED BY <3>2, <4>1 DEF RequestInv, AnswerMatchesRows
    <3>4. CASE ~(CheckDocument(f) /\ ~f.big)
      BY <2>0, <2>r, <3>0, <3>1, <3>2, <3>4, EndAnswer DEF Accept
    <3> QED BY <3>3, <3>4
  <2> QED BY <1>3, <2>1, <2>2, <2>3, <2>4, <2>5, <2>6 DEF FileStep
<1>4. ASSUME NEW a \in Actors,
             FileStep(a) \/ (a \in Names /\ ReadFile(a)) \/ (a = "request" /\ ReadUpload)
      PROVE  RequestInv'
  <2>1. CASE a = "request"
    BY <1>3, <1>4, <1>t, <2>1
  <2>2. CASE a # "request"
    BY <1>2, <1>4, <2>2
  <2> QED BY <2>1, <2>2
<1> QED BY <1>1, <1>4, Steps

\* An answer to an upload tells which of its files have become documents.
THEOREM AnswersMatch == ScanSpec => []AnswerMatchesRows
<1>1. RequestInv => AnswerMatchesRows
  BY DEF RequestInv
<1> QED BY <1>1, RequestInit, RequestStep, BaseAlways, PTL DEF ScanSpec
=============================================================================
