------------------------------- MODULE ReviewDesk -------------------------------
(* PATCH /entities/{id} (review_api/entities.py) on one entity. Every call has a    *)
(* session of its own: it reads the row (db.get), works on that copy, and commits   *)
(* the columns that now differ from the copy, with an EntityCorrection.             *)
EXTENDS Integers, Sequences

CONSTANTS
  Reviewers,  \* each has at most one call in progress
  Values,     \* normalized values, as the parsers of storage/typed_values.py see them
  Types,      \* the types an entity can have
  MaxClock    \* bound: no call begins after this

\* A normalized value: what parse_date_value and parse_amount_value make of it ("None"
\* when they cannot), and whether that fits NUMERIC(14,2) and VARCHAR(8).
Value == [text : STRING, date : STRING, amount : STRING, currency : STRING, fits : BOOLEAN]
EntityType == {"person", "date", "location", "amount"}

ASSUME DeskAssumption ==
  /\ Values \subseteq Value /\ \E v \in Values : v.fits
  /\ Types \subseteq EntityType
  /\ MaxClock \in Nat

VARIABLES
  type,    \* the entity's type; nothing changes it
  row,     \* its columns that a correction writes, as committed
  calls,   \* calls[r]: the call of reviewer r in progress, or NoCall
  clock,   \* now() of the database: transactions begun and committed so far
  trail    \* the committed EntityCorrections, in the order of their commits

deskVars == <<type, row, calls, clock, trail>>

\* Mutant: a value that cannot be parsed leaves the typed columns as they were.
MutantColumns(t, v, old) ==
  [text     |-> v.text,
   date     |-> IF t = "date" /\ v.date # "None" THEN v.date ELSE old.date,
   amount   |-> IF t = "amount" /\ v.amount # "None" THEN v.amount ELSE old.amount,
   currency |-> IF t = "amount" /\ v.amount # "None" THEN v.currency ELSE old.currency]

\* The columns after a correction to v: the typed ones change for their type only.
Columns(t, v, old) ==
  [text     |-> v.text,
   date     |-> IF t = "date" THEN v.date ELSE old.date,
   amount   |-> IF t = "amount" THEN v.amount ELSE old.amount,
   currency |-> IF t = "amount" THEN v.currency ELSE old.currency]

NoColumns == [text |-> "None", date |-> "None", amount |-> "None", currency |-> "None"]

\* "typed, queryable projections of normalized_value": the row extraction inserts.
Projection(t, v) == Columns(t, v, NoColumns)

Fits(t, v) == t = "amount" => v.fits

NoCall == [begun |-> 0]

DeskInit ==
  /\ type \in Types
  /\ \E v \in {v \in Values : Fits(type, v)} : row = Projection(type, v)
  /\ calls = [r \in Reviewers |-> NoCall]
  /\ clock = 0
  /\ trail = <<>>

\* db.get begins the transaction, whose start is the created_at of the correction.
ReadEntity(r, v) ==
  /\ calls[r] = NoCall
  /\ clock < MaxClock
  /\ clock' = clock + 1
  /\ calls' = [calls EXCEPT ![r] = [begun |-> clock', value |-> v, loaded |-> row]]
  /\ UNCHANGED <<type, row, trail>>

\* Mutant: the text is written only where a typed column changed.
MutantUpdated(loaded, new) ==
  [c \in DOMAIN row |->
     IF new[c] # loaded[c] /\ (c = "text" => \E d \in DOMAIN row \ {"text"} : new[d] # loaded[d])
     THEN new[c] ELSE row[c]]

\* The UPDATE of the unit of work: it names the columns that differ from what was
\* loaded, and leaves the others as they are by now.
Updated(loaded, new) ==
  [c \in DOMAIN row |-> IF new[c] # loaded[c] THEN new[c] ELSE row[c]]

CommitCorrection(r) ==
  LET call == calls[r] IN
  /\ call # NoCall
  /\ Fits(type, call.value)
  /\ clock' = clock + 1
  /\ row' = Updated(call.loaded, Columns(type, call.value, call.loaded))
  /\ trail' = Append(trail, [original |-> call.loaded.text, corrected |-> call.value,
                             reviewer |-> r, created |-> call.begun, committed |-> clock'])
  /\ calls' = [calls EXCEPT ![r] = NoCall]
  /\ UNCHANGED type

\* The database refuses the values or is gone: 500, and the session is rolled back.
CallFails(r) ==
  /\ calls[r] # NoCall
  /\ calls' = [calls EXCEPT ![r] = NoCall]
  /\ UNCHANGED <<type, row, clock, trail>>

DeskNext ==
  \E r \in Reviewers :
    \/ \E v \in Values : ReadEntity(r, v)
    \/ CommitCorrection(r)
    \/ CallFails(r)

DeskSpec == DeskInit /\ [][DeskNext]_deskVars

-------------------------------------------------------------------------------
(* Properties *)

Entries == DOMAIN trail

\* Correction i was committed after j had read the row.
CommittedAfter(i, j) == trail[i].committed > trail[j].created

\* The two were in progress at the same time.
Overlap(i, j) == i # j /\ CommittedAfter(i, j) /\ CommittedAfter(j, i)

\* The audit trail accounts for the value (models.py:204-213, entities.py:28-48): it is
\* the one of the newest correction by created_at, or of one that was in progress
\* beside that one; no correction is lost to an older one that had ended.
TrailExplainsValue ==
  trail # <<>> =>
    LET newest == CHOOSE i \in Entries : \A j \in Entries : trail[j].created <= trail[i].created
    IN  \E i \in Entries :
          /\ row.text = trail[i].corrected.text
          /\ i = newest \/ Overlap(i, newest)

\* A correction that overlapped no other leaves the row whole: the typed columns that
\* search uses are those of its value. Two that overlap may tear it, each writing only
\* the columns that differ from what both had read (models.py:166-174,
\* entities.py:39-48).
TornOnlyByOverlap ==
  trail # <<>> =>
    LET last == Len(trail) IN
    \/ \E i \in Entries : Overlap(i, last)
    \/ row = Projection(type, trail[last].corrected)
===============================================================================
