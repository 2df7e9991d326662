------------------------------- MODULE Anomalies -------------------------------
(* The flags of one page (extraction/anomalies.py), written by runs that may be         *)
(* interrupted (_run_ocr_stage, _run_extraction_stage and _run_anomaly_stage of          *)
(* pipeline/run.py) while reviewers correct entities. Confidences are in percent.        *)
EXTENDS Integers, Sequences, FiniteSetsExt, Functions

CONSTANTS
  Kinds,           \* Kinds[i]: the type of the page's i-th region
  Readings,        \* what OCR may make of a region
  Findings,        \* sequences of entities that may be found in a region with text
  Similar,         \* pairs of names at least entity_conflict_name_fuzzy_threshold alike
  Corrections,     \* values a reviewer may set
  LowConfidence, IllegibleConfidence, MinYear, MaxYear, MaxPlausible,  \* settings
  ColumnLimit,     \* the first amount NUMERIC(14, 2) does not hold
  MaxInterruptions, MaxCorrected  \* bounds

\* noise: mostly other than letters and digits. text: not blank.
Reading == [confidence : 0..100, words : Seq(0..100), noise : BOOLEAN, text : BOOLEAN]
\* value: a date's year, an amount's magnitude; 0 if it cannot be parsed.
Found   == [type : {"person", "date", "location", "amount"}, raw : STRING, value : Nat]

\* (A page without regions gets a flag of its own and none of these stages.)
ASSUME AnomaliesAssumption ==
  /\ Kinds \in Seq({"paragraph", "table", "signature", "margin_annotation", "stamp"}) \ {<<>>}
  /\ Readings \subseteq Reading /\ Findings \subseteq Seq(Found)
  /\ \A found \in Findings : \A i, j \in DOMAIN found :
       found[i].raw = found[j].raw /\ found[i].type \in {"date", "amount"} => found[i] = found[j]
  /\ \A pair \in Similar : \E a, b \in pair : a # b /\ pair = {a, b}
  /\ LowConfidence \in Nat /\ MaxPlausible \in Nat /\ MaxPlausible < ColumnLimit

VARIABLES
  page,           \* page[i]: the reading of region i and the entities in it
  stage, next,    \* of the run: its stage, and the region the stage comes to next
  recorded,       \* regions with an OCR result in the database
  fresh,          \* regions whose result the run made itself, words and all
  rows,           \* rows[i]: the entities of region i in the database
  seen,           \* seen[i]: those the run works with
  flags,          \* the committed review flags, each with its entity
  interruptions, corrected  \* runs interrupted; the entities corrected

anomalyVars == <<page, stage, next, recorded, fresh, rows, seen, flags, interruptions, corrected>>

PageRegions == DOMAIN Kinds

AnomaliesInit ==
  /\ page \in [PageRegions -> {p \in [reading : Readings, found : Findings] :
                             ~p.reading.text => p.found = <<>>}]
  /\ stage = "ocr" /\ next = 1
  /\ recorded = {} /\ fresh = {}
  /\ rows = [i \in PageRegions |-> <<>>]
  /\ seen = [i \in PageRegions |-> <<>>]
  /\ flags = {}
  /\ interruptions = 0 /\ corrected = {}

Advance(following) ==
  IF next = Len(Kinds) THEN stage' = following /\ next' = 1
  ELSE UNCHANGED stage /\ next' = next + 1

\* A result in the database is reused.
OcrStage ==
  /\ stage = "ocr"
  /\ recorded' = recorded \cup {next}
  /\ fresh' = IF next \in recorded THEN fresh ELSE fresh \cup {next}
  /\ Advance("extraction")
  /\ UNCHANGED <<page, rows, seen, flags, interruptions, corrected>>

Storable(found) == \A j \in DOMAIN found : found[j].type = "amount" => found[j].value < ColumnLimit

\* The entities of region i as the run sees them, each with its place in the text as id:
\* those it has just found in that order, those in the database in any (no ORDER BY).
Seen(i) ==
  LET places == DOMAIN rows'[i]
      orders == IF rows[i] = <<>> THEN {[k \in places |-> k]} ELSE Bijection(places, places)
      entity(j) == [id |-> j, type |-> rows'[i][j].type, raw |-> rows'[i][j].raw,
                    value |-> rows'[i][j].value]
  IN  {[k \in places |-> entity(order[k])] : order \in orders}

\* Entities in the database are reused too, with the values they have by now. A region's
\* entities are inserted together or not at all.
ExtractionStage ==
  /\ stage = "extraction"
  /\ rows[next] = <<>> => Storable(page[next].found)
  /\ rows' = IF rows[next] = <<>> THEN [rows EXCEPT ![next] = page[next].found] ELSE rows
  /\ \E found \in Seen(next) : seen' = [seen EXCEPT ![next] = found]
  /\ Advance("anomalies")
  /\ UNCHANGED <<page, recorded, fresh, flags, interruptions, corrected>>

\* The insert raises, at every attempt.
ExtractionFails ==
  /\ stage = "extraction"
  /\ rows[next] = <<>> /\ ~Storable(page[next].found)
  /\ stage' = "error"
  /\ UNCHANGED <<page, next, recorded, fresh, rows, seen, flags, interruptions, corrected>>

-------------------------------------------------------------------------------
\* nth: of which word or entity of the region, where there may be several alike.
Flag(type, severity, region, about, value, nth) ==
  [type |-> type, severity |-> severity, region |-> region, about |-> about, value |-> value,
   nth |-> nth]

\* The further below the threshold, the more severe.
Severity(confidence) ==
  LET gap == LowConfidence - confidence
  IN  IF 10 * gap >= 6 * LowConfidence THEN "high"
      ELSE IF 10 * gap >= 3 * LowConfidence THEN "medium" ELSE "low"

LowFlag(i, confidence, nth) ==
  Flag("low_ocr_confidence", Severity(confidence), i, {}, confidence, nth)

Illegible(reading) == reading.confidence < IllegibleConfidence \/ reading.noise

\* One flag for a region, or else one for each of its words.
ReadingFlags(i, reading) ==
  IF Illegible(reading) THEN {Flag("illegible", "high", i, {}, reading.confidence, 0)}
  ELSE IF reading.confidence < LowConfidence THEN {LowFlag(i, reading.confidence, 0)}
  ELSE {LowFlag(i, reading.words[n], n) :
          n \in {n \in DOMAIN reading.words : reading.words[n] < LowConfidence}}

Implausible(e) ==
  \/ e.type = "date" /\ e.value # 0 /\ e.value \notin MinYear..MaxYear
  \/ e.type = "amount" /\ e.value > MaxPlausible

ValueFlags(i, found) ==
  {Flag("entity_conflict", "medium", i, {found[n].raw}, found[n].value, n) :
     n \in {n \in DOMAIN found : Implausible(found[n])}}

Persons(found) == {found[n].raw : n \in {n \in DOMAIN found : found[n].type = "person"}}

\* Each two similar spellings once, where the first of them is met.
NameFlags(found) ==
  {Flag("entity_conflict", "medium", Min({i \in PageRegions : Persons(found[i]) \cap pair # {}}), pair, 0, 0) :
     pair \in {pair \in Similar : \A name \in pair : \E i \in PageRegions : name \in Persons(found[i])}}

Expected(i) == CASE Kinds[i] = "table" -> "amount" [] Kinds[i] = "signature" -> "person" [] OTHER -> "None"

FailureFlags(i, found) ==
  {Flag("extraction_failure", "medium", i, {}, 0, 0) :
     expected \in {t \in {Expected(i)} \ {"None"} : \A n \in DOMAIN found : found[n].type # t}}

\* detect_all_anomalies
DetectAll(readings, found) ==
  LET regional(i) == ReadingFlags(i, readings[i]) \cup ValueFlags(i, found[i]) \cup FailureFlags(i, found[i])
  IN  (UNION {regional(i) : i \in PageRegions}) \cup NameFlags(found)

\* Mutant: what was not read again counts as read without a doubt.
MutantReloaded(reading) == [reading EXCEPT !.words = <<>>, !.confidence = 100]

\* The schema keeps no words.
Reloaded(reading) == [reading EXCEPT !.words = <<>>]

\* The entities of a flag's region with its raw text. What is about two spellings has none.
Candidates(flag) == {k \in DOMAIN seen[flag.region] : {seen[flag.region][k].raw} = flag.about}

Nth(places, n) == CHOOSE k \in places : Cardinality({j \in places : j < k}) = n

\* Mutant: the entity stays in the queue.
MutantNamed(all, flag) ==
  LET queue == Candidates(flag)
  IN  IF queue = {} THEN 0 ELSE seen[flag.region][Nth(queue, 0)].id

\* The entity a flag is given: the next of its candidates, as many having been given away
\* as there are flags before it. (What the rulers match once they match wherever it stands:
\* the flags of dates and those of amounts never want the same entity.)
Named(all, flag) ==
  LET queue == Candidates(flag)
      given == {f.nth : f \in {f \in all : f.region = flag.region /\ f.about = flag.about /\ f.nth < flag.nth}}
  IN  IF Cardinality(given) < Cardinality(queue)
      THEN seen[flag.region][Nth(queue, Cardinality(given))].id ELSE 0

\* Nothing is added to a page that has flags.
AnomalyStage ==
  /\ stage = "anomalies"
  /\ stage' = "flagged"
  /\ IF flags # {} THEN UNCHANGED flags
     ELSE LET all == DetectAll([i \in PageRegions |->
                       IF i \in fresh THEN page[i].reading ELSE Reloaded(page[i].reading)], seen)
          IN  flags' = {[flag |-> f, entity |-> Named(all, f)] : f \in all}
  /\ UNCHANGED <<page, next, recorded, fresh, rows, seen, interruptions, corrected>>

-------------------------------------------------------------------------------
\* The run ends early; the next one begins with what was committed.
Interrupted ==
  /\ stage # "error"
  /\ interruptions < MaxInterruptions
  /\ interruptions' = interruptions + 1
  /\ stage' = "ocr" /\ next' = 1
  /\ fresh' = {}
  /\ seen' = [i \in PageRegions |-> <<>>]
  /\ UNCHANGED <<page, recorded, rows, flags, corrected>>

\* PATCH /entities/{id}: the value, never the raw text.
CorrectEntity(i, j, value) ==
  /\ Cardinality(corrected) < MaxCorrected
  /\ rows[i][j].type \in {"date", "amount"}
  /\ rows' = [rows EXCEPT ![i][j].value = value]
  /\ corrected' = corrected \cup {<<i, j>>}
  /\ UNCHANGED <<page, stage, next, recorded, fresh, seen, flags, interruptions>>

AnomaliesNext ==
  \/ OcrStage \/ ExtractionStage \/ ExtractionFails \/ AnomalyStage \/ Interrupted
  \/ \E i \in PageRegions : \E j \in DOMAIN rows[i] : \E value \in Corrections : CorrectEntity(i, j, value)

AnomaliesSpec == AnomaliesInit /\ [][AnomaliesNext]_anomalyVars

-------------------------------------------------------------------------------
\* Which word or entity of several a flag is of is not part of what it says.
Says(flag) == [type |-> flag.type, severity |-> flag.severity, region |-> flag.region,
               about |-> flag.about, value |-> flag.value]

\* What one run without interruptions would have flagged.
Uninterrupted ==
  {Says(f) : f \in DetectAll([i \in PageRegions |-> page[i].reading],
                             [i \in PageRegions |-> page[i].found])}

Flagged == {Says(row.flag) : row \in flags}

CorrectedText(i) == {page[i].found[c[2]].raw : c \in {c \in corrected : c[1] = i}}

\* run.py:332-340: "that only costs the word-level variant of detect_low_ocr_confidence for
\* a resumed region". A page's flags are those one run would have written, less the flags
\* of words, unless a reviewer corrected the entity before the resumed run judged it.
ResumeLosesOnlyWordFlags ==
  stage = "flagged" =>
    /\ \A f \in Uninterrupted \ Flagged :
         \/ /\ interruptions > 0
            /\ f.type = "low_ocr_confidence" /\ page[f.region].reading.confidence >= LowConfidence
         \/ interruptions > 0 /\ f.type = "entity_conflict" /\ f.about \cap CorrectedText(f.region) # {}
    /\ \A f \in Flagged \ Uninterrupted :
         interruptions > 0 /\ f.type = "entity_conflict" /\ f.about \cap CorrectedText(f.region) # {}

\* _run_anomaly_stage's queues of entities with one raw text: the flag of an implausible
\* value names an entity of that text in that region, no two flags name the same, and it is
\* the one with the implausible value unless one of that text was corrected.
FlagsNameTheirEntities ==
  \A row \in flags :
    LET f == row.flag  j == row.entity
    IN  /\ f.type = "entity_conflict" /\ f.value # 0 =>
             /\ j # 0 /\ f.about = {page[f.region].found[j].raw}
             /\ \A other \in flags \ {row} : other.flag.region = f.region => other.entity # j
             /\ page[f.region].found[j].value = f.value \/ f.about \subseteq CorrectedText(f.region)
        /\ f.type # "entity_conflict" => j = 0
===============================================================================
