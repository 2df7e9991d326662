------------------------------- MODULE ScanIntake -------------------------------
(* How files become documents: watch_directory and ingest_one (ingestion/batch.py)  *)
(* on a directory others write to, and the files of one upload request              *)
(* (review_api/documents.py). Both check a file (ingestion/validate.py), store it   *)
(* (ingestion/upload.py), commit its row and publish its job; what the job then     *)
(* reads is in ocr/pages.py.                                                        *)
EXTENDS Integers, Sequences, FiniteSets

CONSTANTS
  Names,        \* file names of the directory
  Files,        \* what a file in the directory can be
  Request,      \* what each file of the upload request can be, in order
  MaxPages,     \* max_pages_per_document
  MaxPixels,    \* max_image_pixels
  Concurrency,  \* threads of the watcher
  MaxChanges,   \* bound: changes of the directory
  MaxFaults,    \* bound: faults of each kind
  MaxKinds      \* bound: different kinds of faults in one behaviour

\* A file as the libraries see it: whether PDFium or Pillow opens it and how many pages
\* it has for them, its largest page, whether its first page can be decoded, whether a
\* later one cannot (it is cut off there), and whether it is over max_upload_size_bytes.
\* A file Pillow opens has a frame; a PDF need not have a page. OpenCV and Pillow are
\* taken to agree on the first page of a raster file.
File ==
  {f \in [format : {"pdf", "raster"}, opens : BOOLEAN, frames : Nat, pixels : Nat,
          decodes : BOOLEAN, cut : BOOLEAN, big : BOOLEAN] :
     f.format = "raster" /\ f.opens => f.frames >= 1}

ASSUME ScanAssumption ==
  /\ Files \subseteq File
  /\ Request \in Seq(SUBSET File)
  /\ "request" \notin Names
  /\ MaxPages \in Nat \ {0} /\ MaxPixels \in Nat /\ Concurrency \in Nat \ {0}
  /\ MaxChanges \in Nat /\ MaxFaults \in Nat /\ MaxKinds \in Nat

Actors     == Names \cup {"request"}
FaultKinds == {"save", "insert", "unacknowledged", "publish", "notMarked", "restart"}
NoFile     == [version |-> 0]
Ids        == Actors \X Nat      \* for uuid4(): unique, and nobody else makes this one
NoWork     == [version |-> 0, id |-> <<"request", 0>>]
Scans      == [version : 1..MaxChanges, file : Files]

VARIABLES
  dir,      \* dir[n]: what is under name n; each change makes a new version
  changes,  \* how often the directory was changed
  watch,    \* main thread of the watcher: "poll" or "ingest"
  seen,     \* its set of names
  at,       \* at[a]: how far the ingest of a name, or the request, is
  work,     \* work[a]: version and id it is about
  result,   \* result[a]: what it came to
  raw,      \* the stored files, each under the id of its document
  docs,     \* the rows of documents
  failed,   \* those whose status is enqueue_failed, by id; the others are uploaded
  faults    \* faults of each kind so far

scanVars == <<dir, changes, watch, seen, at, work, result, raw, docs, failed, faults>>

-------------------------------------------------------------------------------
(* One file *)

\* Mutant: no decode of the first page.
MutantCheckDocument(f) ==
  /\ f.opens
  /\ f.frames <= MaxPages
  /\ f.format = "pdf" => f.frames >= 1
  /\ f.format = "raster" => f.pixels <= MaxPixels

\* check_document: an empty or unreadable file, too many pages or too large a page is
\* refused; of a raster file the first page is decoded, of a PDF none. read_upload_bounded
\* and save_raw_image refuse a file that is too big (Accept).
CheckDocument(f) ==
  /\ f.opens
  /\ f.frames <= MaxPages
  /\ f.format = "pdf" => f.frames >= 1
  /\ f.format = "raster" => f.pixels <= MaxPixels /\ f.decodes

\* count_pages.
CountPages(f) ==
  IF f.format = "pdf" \/ f.opens THEN f.frames ELSE IF f.decodes THEN 1 ELSE 0

\* How many images iter_page_images yields before it ends or raises.
PagesRead(f) ==
  IF ~f.decodes THEN 0
  ELSE IF (f.format = "pdf" \/ f.opens) /\ ~f.cut THEN f.frames ELSE 1

-------------------------------------------------------------------------------
ScanInit ==
  /\ dir = [n \in Names |-> NoFile]
  /\ changes = 0
  /\ watch = "poll"
  /\ seen = {}
  /\ at = [a \in Actors |-> IF a = "request" /\ Request # <<>> THEN "queued" ELSE "none"]
  /\ work = [a \in Actors |-> IF a = "request" THEN [NoWork EXCEPT !.version = 1] ELSE NoWork]
  /\ result = [a \in Actors |-> "none"]
  /\ raw = {}
  /\ docs = {}
  /\ failed = {}
  /\ faults = [k \in FaultKinds |-> 0]

\* Somebody puts a scan into the directory, goes on copying it, replaces it or takes it
\* away.
ChangeDirectory(n) ==
  /\ changes < MaxChanges
  /\ changes' = changes + 1
  /\ \E s \in {NoFile} \cup {[version |-> changes + 1, file |-> f] : f \in Files} :
       dir' = [dir EXCEPT ![n] = s]
  /\ UNCHANGED <<watch, seen, at, work, result, raw, docs, failed, faults>>

Fault(k) ==
  /\ faults[k] < MaxFaults
  /\ Cardinality({j \in FaultKinds \ {k} : faults[j] > 0}) < MaxKinds
  /\ faults' = [faults EXCEPT ![k] = @ + 1]

-------------------------------------------------------------------------------
(* The watcher's main thread *)

\* Mutant: a name is marked seen when it is handed to the pool.
MutantPoll ==
  /\ watch = "poll"
  /\ LET current == {n \in Names : dir[n] # NoFile}
         new     == current \ seen
     IN  /\ seen' = current
         /\ at' = [a \in Actors |-> IF a \in new THEN "queued" ELSE at[a]]
         /\ watch' = IF new = {} THEN "poll" ELSE "ingest"
  /\ UNCHANGED <<dir, changes, work, result, raw, docs, failed, faults>>

\* Names that are gone are forgotten, new ones are handed to the pool.
Poll ==
  /\ watch = "poll"
  /\ LET current == {n \in Names : dir[n] # NoFile}
         new     == current \ seen
     IN  /\ seen' = seen \cap current
         /\ at' = [a \in Actors |-> IF a \in new THEN "queued" ELSE at[a]]
         /\ watch' = IF new = {} THEN "poll" ELSE "ingest"
  /\ UNCHANGED <<dir, changes, work, result, raw, docs, failed, faults>>

\* Mutant: an exception out of ingest_one ends the loop.
MutantCollect(n) ==
  /\ at[n] = "ended"
  /\ result[n] # "raised"
  /\ seen' = IF result[n] = "id" THEN seen \cup {n} ELSE seen
  /\ at' = [at EXCEPT ![n] = "none"]
  /\ result' = [result EXCEPT ![n] = "none"]
  /\ UNCHANGED <<dir, changes, watch, work, raw, docs, failed, faults>>

\* future.result(): only an ingest that returned an id marks the name seen.
Collect(n) ==
  /\ at[n] = "ended"
  /\ seen' = IF result[n] = "id" THEN seen \cup {n} ELSE seen
  /\ at' = [at EXCEPT ![n] = "none"]
  /\ result' = [result EXCEPT ![n] = "none"]
  /\ UNCHANGED <<dir, changes, watch, work, raw, docs, failed, faults>>

\* The pool is left when all futures are done; after the pause comes the next poll.
EndBatch ==
  /\ watch = "ingest"
  /\ \A n \in Names : at[n] = "none"
  /\ watch' = "poll"
  /\ UNCHANGED <<dir, changes, seen, at, work, result, raw, docs, failed, faults>>

\* The watcher is stopped or dies, and is started again: its names were in memory.
Restart ==
  /\ Fault("restart")
  /\ watch' = "poll"
  /\ seen' = {}
  /\ at' = [a \in Actors |-> IF a = "request" THEN at[a] ELSE "none"]
  /\ result' = [a \in Actors |-> IF a = "request" THEN result[a] ELSE "none"]
  /\ work' = [a \in Actors |-> IF a = "request" THEN work[a] ELSE NoWork]
  /\ UNCHANGED <<dir, changes, raw, docs, failed>>

-------------------------------------------------------------------------------
(* One document, for a thread of the watcher or for the request *)

\* How the file ended: the watcher's future is done, the request is answered, or it
\* goes on with its next file.
End(a, r) ==
  IF a = "request" /\ r = "id" /\ work[a].version < Len(Request)
    THEN /\ at' = [at EXCEPT ![a] = "queued"]
         /\ work' = [work EXCEPT ![a].version = @ + 1]
         /\ result' = result
    ELSE /\ at' = [at EXCEPT ![a] = "ended"]
         /\ result' = [result EXCEPT ![a] = r]
         /\ work' = [work EXCEPT ![a] = NoWork]

Running == {n \in Names : at[n] \notin {"none", "queued", "ended"}}

NewId(a) == <<a, Cardinality({x \in raw : x.id[1] = a}) + 1>>

\* The content is read once; what is checked is what is stored.
Accept(a, version, f) ==
  IF CheckDocument(f) /\ ~f.big
    THEN LET id == NewId(a)
         IN  /\ raw' = raw \cup {[id |-> id, file |-> f]}
             /\ work' = [work EXCEPT ![a] = [version |-> version, id |-> id]]
             /\ at' = [at EXCEPT ![a] = "insert"]
             /\ result' = result
    ELSE End(a, "refused") /\ raw' = raw

\* Begun when a thread of the pool is free. A file that is gone by now raises.
ReadFile(n) ==
  /\ at[n] = "queued" /\ Cardinality(Running) < Concurrency
  /\ IF dir[n] = NoFile
       THEN End(n, "raised") /\ raw' = raw
       ELSE Accept(n, dir[n].version, dir[n].file)
  /\ UNCHANGED <<dir, changes, watch, seen, docs, failed, faults>>

ReadUpload ==
  /\ at["request"] = "queued"
  /\ \E f \in Request[work["request"].version] :
       Accept("request", work["request"].version, f)
  /\ UNCHANGED <<dir, changes, watch, seen, docs, failed, faults>>

\* The disk is full: not among the exceptions that are handled.
SaveFails(a) ==
  /\ at[a] = "queued" /\ (a \in Names => Cardinality(Running) < Concurrency)
  /\ Fault("save")
  /\ End(a, "raised")
  /\ UNCHANGED <<dir, changes, watch, seen, raw, docs, failed>>

InsertRow(a) ==
  /\ at[a] = "insert"
  /\ docs' = docs \cup {[id |-> work[a].id, from |-> a, version |-> work[a].version]}
  /\ at' = [at EXCEPT ![a] = "publish"]
  /\ UNCHANGED <<dir, changes, watch, seen, work, result, raw, failed, faults>>

\* Mutant: a refused commit is logged and forgotten.
MutantInsertFails(a) ==
  /\ at[a] = "insert"
  /\ Fault("insert")
  /\ End(a, IF a = "request" THEN "id" ELSE "None")
  /\ UNCHANGED <<dir, changes, watch, seen, raw, docs, failed>>

\* ingest_one returns None, the request fails.
InsertFails(a) ==
  /\ at[a] = "insert"
  /\ Fault("insert")
  /\ End(a, IF a = "request" THEN "raised" ELSE "None")
  /\ UNCHANGED <<dir, changes, watch, seen, raw, docs, failed>>

\* The commit, or the refresh after it, raises although the row is there.
InsertUnacknowledged(a) ==
  /\ at[a] = "insert"
  /\ Fault("unacknowledged")
  /\ docs' = docs \cup {[id |-> work[a].id, from |-> a, version |-> work[a].version]}
  /\ End(a, IF a = "request" THEN "raised" ELSE "None")
  /\ UNCHANGED <<dir, changes, watch, seen, raw, failed>>

\* What becomes of the job is in Intake and DocumentPipeline.
Publish(a) ==
  /\ at[a] = "publish"
  /\ End(a, "id")
  /\ UNCHANGED <<dir, changes, watch, seen, raw, docs, failed, faults>>

\* delay() raises, whether or not the broker took the message.
NotPublished(a) ==
  /\ at[a] = "publish"
  /\ Fault("publish")
  /\ at' = [at EXCEPT ![a] = "mark"]
  /\ UNCHANGED <<dir, changes, watch, seen, work, result, raw, docs, failed>>

\* Mutant: the status is returned instead of the id.
MutantReturnStatus(a) ==
  /\ at[a] = "mark"
  /\ failed' = failed \cup {work[a].id}
  /\ End(a, "enqueue_failed")
  /\ UNCHANGED <<dir, changes, watch, seen, raw, docs, faults>>

\* Mutant: a document whose job could not be published counts as not ingested.
MutantMarkNotEnqueued(a) ==
  /\ at[a] = "mark"
  /\ failed' = failed \cup {work[a].id}
  /\ End(a, "None")
  /\ UNCHANGED <<dir, changes, watch, seen, raw, docs, faults>>

MarkNotEnqueued(a) ==
  /\ at[a] = "mark"
  /\ failed' = failed \cup {work[a].id}
  /\ End(a, "id")
  /\ UNCHANGED <<dir, changes, watch, seen, raw, docs, faults>>

\* The database fails too: ingest_one raises, the request fails.
MarkFails(a) ==
  /\ at[a] = "mark"
  /\ Fault("notMarked")
  /\ End(a, "raised")
  /\ UNCHANGED <<dir, changes, watch, seen, raw, docs, failed>>

-------------------------------------------------------------------------------
FileStep(a) ==
  \/ SaveFails(a) \/ InsertRow(a) \/ InsertFails(a) \/ InsertUnacknowledged(a)
  \/ Publish(a) \/ NotPublished(a) \/ MarkNotEnqueued(a) \/ MarkFails(a)

IngestStep(n) == ReadFile(n) \/ FileStep(n)

ScanNext ==
  \/ Poll \/ EndBatch \/ Restart
  \/ \E n \in Names : ChangeDirectory(n) \/ Collect(n) \/ IngestStep(n)
  \/ ReadUpload \/ FileStep("request")

\* The watcher's loop and its threads go on; nobody has to change the directory, to
\* send the request or to fail.
ScanFairness ==
  /\ WF_scanVars(Poll) /\ WF_scanVars(EndBatch)
  /\ \A n \in Names : WF_scanVars(Collect(n)) /\ WF_scanVars(IngestStep(n))

ScanSpec == ScanInit /\ [][ScanNext]_scanVars /\ ScanFairness

-------------------------------------------------------------------------------
(* Properties *)

ScanTypeOK ==
  /\ dir \in [Names -> Scans \cup {NoFile}]
  /\ changes \in 0..MaxChanges
  /\ watch \in {"poll", "ingest"}
  /\ seen \subseteq Names
  /\ at \in [Actors -> {"none", "queued", "insert", "publish", "mark", "ended"}]
  /\ work \in [Actors -> [version : Nat, id : Ids]]
  /\ result \in [Actors -> {"none", "id", "None", "refused", "raised"}]
  /\ raw \subseteq [id : Ids, file : File]
  /\ docs \subseteq [id : Ids, from : Actors, version : Nat]
  /\ failed \subseteq Ids
  /\ faults \in [FaultKinds -> 0..MaxFaults]

\* The pipeline can read what intake let in: every row has its stored file, whose pages
\* are counted and no more than allowed. A raster file yields an image; if its later
\* pages can be decoded, and those of a PDF, it yields as many as were counted
\* (validate.py:28-124 against pages.py:65-155).
DocumentsReadable ==
  \A d \in docs :
    /\ \E x \in raw : x.id = d.id
    /\ \A x \in raw :
         x.id = d.id =>
           /\ CountPages(x.file) \in 1..MaxPages
           /\ x.file.format = "raster" => PagesRead(x.file) >= 1
           /\ x.file.decodes /\ ~x.file.cut => PagesRead(x.file) = CountPages(x.file)

\* How often an ingest was forgotten that had made its row.
Forgotten == faults["restart"] + faults["unacknowledged"] + faults["notMarked"]

\* A version of a file becomes more than one document only by a restart of the watcher,
\* a commit whose answer is lost, or a failure to record a failed publish
\* (batch.py:52-148).
DuplicatesAccounted ==
  \A n \in Names : \A v \in 1..MaxChanges :
    Cardinality({d \in docs : d.from = n /\ d.version = v})
      <= 1 + Forgotten

\* "A file is only marked seen after a successful ingest" (batch.py:121).
SeenHasDocument == \A n \in seen : \E d \in docs : d.from = n

\* A request that succeeds has made one document of each file; one that fails has made
\* them of the files before the one that failed, and at most of that one
\* (documents.py:87-119).
AnswerMatchesRows ==
  LET made == {d.version : d \in {d \in docs : d.from = "request"}}
  IN  at["request"] = "ended" =>
        /\ result["request"] = "id" => made = DOMAIN Request
        /\ result["request"] # "id" =>
             \E k \in DOMAIN Request : 1..(k - 1) \subseteq made /\ made \subseteq 1..k

\* "... so a transient failure is retried on the next poll" (batch.py:121-122): a scan
\* that can be read and stays under a name the watcher has not seen becomes a document.
NewScansIngested ==
  \A n \in Names : \A v \in 1..MaxChanges :
    /\ n \notin seen /\ at[n] \in {"none", "queued"}
    /\ dir[n].version = v /\ CheckDocument(dir[n].file) /\ ~dir[n].file.big
    ~> dir[n].version # v \/ \E d \in docs : d.from = n /\ d.version = v
=============================================================================
