------------------------------ MODULE ReviewProofs ------------------------------
(* What reviewers see and leave behind, for any reviewers, values, flags and        *)
(* documents: corrections of an entity, the queue, and the document page.            *)
EXTENDS ReviewDesk, ReviewQueue, DocumentView, FiniteSetTheorems, SequenceTheorems,
        WellFoundedInduction, TLAPS

-------------------------------------------------------------------------------
(* ReviewDesk *)

\* "None" is the null of a column.
Text  == STRING \cup {"None"}
Row   == [text : Text, date : Text, amount : Text, currency : Text]
Call  == [begun : Nat \ {0}, value : Values, loaded : Row]
Entry == [original : Text, corrected : Values, reviewer : Reviewers,
          created : Nat \ {0}, committed : Nat]

DeskTypes ==
  /\ type \in Types /\ row \in Row /\ clock \in Nat /\ trail \in Seq(Entry)
  /\ calls \in [Reviewers -> Call \cup {NoCall}]

\* Typed columns of another type stay empty.
OwnColumns(r) ==
  /\ type # "date" => r.date = "None"
  /\ type # "amount" => r.amount = "None" /\ r.currency = "None"

ColumnsInv ==
  /\ OwnColumns(row)
  /\ \A r \in Reviewers : calls[r] # NoCall => OwnColumns(calls[r].loaded)

\* What has happened is in the past, and the trail is ordered by its commits.
ClockInv ==
  /\ \A r \in Reviewers : calls[r] # NoCall => calls[r].begun <= clock
  /\ \A i \in Entries : trail[i].created < trail[i].committed /\ trail[i].committed <= clock
  /\ \A i, j \in Entries : i < j => trail[i].committed < trail[j].committed

\* A call in progress has read the row as it is, unless something was committed since.
FreshInv ==
  \A r \in Reviewers :
    calls[r] # NoCall =>
      \/ calls[r].loaded = row
      \/ \E i \in Entries : trail[i].committed > calls[r].begun

\* If the text has changed since, then to that of a correction committed since.
TextInv ==
  \A r \in Reviewers :
    calls[r] # NoCall =>
      \/ calls[r].loaded.text = row.text
      \/ \E i \in Entries :
           trail[i].committed > calls[r].begun /\ row.text = trail[i].corrected.text

\* created_at orders the trail: some correction is the newest.
Newest(i) == \A j \in Entries : trail[j].created <= trail[i].created

Explained ==
  /\ trail # <<>> => \E i \in Entries : Newest(i)
  /\ \A m \in Entries : Newest(m) =>
       \E i \in Entries : row.text = trail[i].corrected.text /\ (i = m \/ Overlap(i, m))

DeskInv ==
  /\ DeskTypes /\ ColumnsInv /\ ClockInv /\ FreshInv /\ TextInv
  /\ TornOnlyByOverlap /\ Explained

LEMMA ColumnsTypes ==
  ASSUME NEW t, NEW v \in Value, NEW old \in Row
  PROVE  Columns(t, v, old) \in Row
BY DEF Columns, Value, Row, Text

LEMMA ProjectionTypes ==
  ASSUME NEW v \in Value
  PROVE  Projection(type, v) \in Row /\ OwnColumns(Projection(type, v))
<1>1. NoColumns \in Row
  BY DEF NoColumns, Row, Text
<1> QED BY <1>1, ColumnsTypes DEF Projection, Columns, NoColumns, OwnColumns

LEMMA DeskInitInv == DeskInit => DeskInv
<1> SUFFICES ASSUME DeskInit PROVE DeskInv
  OBVIOUS
<1>1. PICK v \in Values : row = Projection(type, v)
  BY DEF DeskInit
<1>2. row \in Row /\ OwnColumns(row)
  BY <1>1, ProjectionTypes, DeskAssumption
<1>3. trail = <<>> /\ Entries = {} /\ \A r \in Reviewers : calls[r] = NoCall
  BY DEF DeskInit, Entries
<1> QED BY <1>2, <1>3 DEF DeskInit, DeskInv, DeskTypes, ColumnsInv, ClockInv, FreshInv, TextInv,
           TornOnlyByOverlap, Explained

LEMMA CallShape ==
  ASSUME DeskTypes, NEW r \in Reviewers, calls[r] # NoCall
  PROVE  /\ calls[r] \in Call /\ calls[r].begun \in Nat \ {0} /\ calls[r].value \in Value
         /\ calls[r].value \in Values /\ calls[r].loaded \in Row
BY DeskAssumption DEF DeskTypes, Call

LEMMA EntryShape ==
  ASSUME DeskTypes, NEW i \in Entries
  PROVE  /\ trail[i] \in Entry /\ trail[i].created \in Nat /\ trail[i].committed \in Nat
         /\ trail[i].corrected \in Values /\ i \in Nat \ {0} /\ i <= Len(trail)
<1>1. trail \in Seq(Entry) /\ i \in DOMAIN trail
  BY DEF DeskTypes, Entries
<1>2. i \in 1..Len(trail) /\ Len(trail) \in Nat
  BY <1>1, LenProperties
<1>3. trail[i] \in Entry
  BY <1>1, <1>2, ElementOfSeq
<1> QED BY <1>2, <1>3 DEF Entry

LEMMA ReadKeeps ==
  ASSUME DeskInv, NEW r \in Reviewers, NEW v \in Values, ReadEntity(r, v)
  PROVE  DeskInv'
<1> DEFINE call == [begun |-> clock + 1, value |-> v, loaded |-> row]
<1>1. /\ clock' = clock + 1 /\ calls' = [calls EXCEPT ![r] = call]
      /\ UNCHANGED <<type, row, trail>>
  BY DEF ReadEntity
<1>2. call \in Call
  BY DEF DeskInv, DeskTypes, Call
<1>3. DeskTypes'
  BY <1>1, <1>2 DEF DeskInv, DeskTypes
<1>4. \A s \in Reviewers : calls'[s] = IF s = r THEN call ELSE calls[s]
  BY <1>1 DEF DeskInv, DeskTypes
<1>5. \A i \in Entries : trail[i].committed \in Nat /\ trail[i].created \in Nat
  BY EntryShape DEF DeskInv
<1>6. \A s \in Reviewers : calls[s] # NoCall => calls[s].begun \in Nat
  BY CallShape DEF DeskInv
<1>7. clock \in Nat
  BY DEF DeskInv, DeskTypes
<1> HIDE DEF call
<1>8. call.begun = clock + 1 /\ call.loaded = row
  BY DEF call
<1>9. ColumnsInv'
  BY <1>1, <1>4, <1>8 DEF DeskInv, ColumnsInv, OwnColumns
<1>10. ClockInv'
  BY <1>1, <1>4, <1>5, <1>6, <1>7, <1>8 DEF DeskInv, ClockInv, Entries
<1>11. FreshInv' /\ TextInv'
  BY <1>1, <1>4, <1>8 DEF DeskInv, FreshInv, TextInv, Entries
<1>12. TornOnlyByOverlap' /\ Explained'
  BY <1>1 DEF DeskInv, TornOnlyByOverlap, Explained, Newest, Overlap, CommittedAfter, Entries, Projection
<1> QED BY <1>3, <1>9, <1>10, <1>11, <1>12 DEF DeskInv

LEMMA FailureKeeps ==
  ASSUME DeskInv, NEW r \in Reviewers, CallFails(r)
  PROVE  DeskInv'
<1>1. calls' = [calls EXCEPT ![r] = NoCall] /\ UNCHANGED <<type, row, clock, trail>>
  BY DEF CallFails
<1>2. \A s \in Reviewers : calls'[s] # NoCall => calls'[s] = calls[s]
  BY <1>1 DEF DeskInv, DeskTypes
<1>3. DeskTypes'
  BY <1>1 DEF DeskInv, DeskTypes
<1>4. ColumnsInv' /\ ClockInv' /\ FreshInv' /\ TextInv'
  BY <1>1, <1>2 DEF DeskInv, ColumnsInv, OwnColumns, ClockInv, FreshInv, TextInv, Entries
<1>5. TornOnlyByOverlap' /\ Explained'
  BY <1>1 DEF DeskInv, TornOnlyByOverlap, Explained, Newest, Overlap, CommittedAfter, Entries, Projection
<1> QED BY <1>3, <1>4, <1>5 DEF DeskInv

LEMMA CommitKeeps ==
  ASSUME DeskInv, NEW r \in Reviewers, CommitCorrection(r)
  PROVE  DeskInv'
<1> DEFINE call == calls[r]
           new  == Columns(type, call.value, call.loaded)
           e    == [original |-> call.loaded.text, corrected |-> call.value, reviewer |-> r,
                    created |-> call.begun, committed |-> clock + 1]
<1>1. /\ call # NoCall /\ clock' = clock + 1 /\ row' = Updated(call.loaded, new)
      /\ trail' = Append(trail, e) /\ calls' = [calls EXCEPT ![r] = NoCall] /\ type' = type
  BY DEF CommitCorrection
<1>2. call \in Call /\ call.begun \in Nat \ {0} /\ call.value \in Value /\ call.value \in Values
      /\ call.loaded \in Row
  BY <1>1, CallShape DEF DeskInv
<1>3. type \in Types /\ row \in Row /\ clock \in Nat /\ trail \in Seq(Entry)
      /\ calls \in [Reviewers -> Call \cup {NoCall}]
  BY DEF DeskInv, DeskTypes
<1>4. e \in Entry /\ e.corrected = call.value /\ e.created = call.begun /\ e.committed = clock + 1
  BY <1>2, <1>3 DEF Entry, Row
<1>5. new \in Row /\ new.text = call.value.text
  BY <1>2, ColumnsTypes DEF Columns
<1>6. call.begun <= clock
  BY <1>1 DEF DeskInv, ClockInv
<1> HIDE DEF e, call, new
<1> PICK n \in Nat : n = Len(trail) + 1
  BY <1>3, LenProperties
<1>7. /\ trail' \in Seq(Entry) /\ n \in Nat /\ Entries = 1..(n - 1) /\ Entries' = 1..n
      /\ Len(trail') = n /\ trail'[n] = e /\ trail' # <<>>
      /\ \A i \in Entries : trail'[i] = trail[i]
  BY <1>1, <1>3, <1>4, AppendProperties, LenProperties DEF Entries
<1>8. \A s \in Reviewers : calls'[s] # NoCall => s # r /\ calls'[s] = calls[s]
  BY <1>1, <1>3
<1>9. /\ row' \in Row
      /\ row'.text     = IF new.text     # call.loaded.text     THEN new.text     ELSE row.text
      /\ row'.date     = IF new.date     # call.loaded.date     THEN new.date     ELSE row.date
      /\ row'.amount   = IF new.amount   # call.loaded.amount   THEN new.amount   ELSE row.amount
      /\ row'.currency = IF new.currency # call.loaded.currency THEN new.currency ELSE row.currency
  BY <1>1, <1>2, <1>3, <1>5 DEF Updated, Row
<1>10. \A i \in Entries : /\ trail[i].committed \in Nat /\ trail[i].created \in Nat
                          /\ trail[i].committed <= clock /\ trail[i].created < trail[i].committed
  BY EntryShape DEF DeskInv, ClockInv
<1>11. DeskTypes'
  BY <1>1, <1>3, <1>7, <1>9 DEF DeskTypes
<1>12. ColumnsInv'
  <2>1. OwnColumns(call.loaded) /\ OwnColumns(row)
    BY <1>1 DEF DeskInv, ColumnsInv, call
  <2>2. OwnColumns(row)'
    BY <1>1, <1>9, <2>1 DEF OwnColumns, Columns, new
  <2> QED BY <1>1, <1>8, <2>2 DEF DeskInv, ColumnsInv, OwnColumns
<1>13. ClockInv'
  <2>1. \A s \in Reviewers : calls'[s] # NoCall => calls'[s].begun <= clock'
    <3> SUFFICES ASSUME NEW s \in Reviewers, calls'[s] # NoCall PROVE calls'[s].begun <= clock'
      OBVIOUS
    <3>1. calls[s] # NoCall /\ calls'[s] = calls[s]
      BY <1>8
    <3>2. calls[s].begun \in Nat /\ calls[s].begun <= clock
      BY <3>1, CallShape DEF DeskInv, ClockInv
    <3> QED BY <1>1, <1>3, <3>1, <3>2
  <2>2. \A i \in Entries' : trail'[i].created < trail'[i].committed /\ trail'[i].committed <= clock'
    BY <1>1, <1>2, <1>3, <1>4, <1>6, <1>7, <1>10
  <2>3. \A i, j \in Entries' : i < j => trail'[i].committed < trail'[j].committed
    <3> SUFFICES ASSUME NEW i \in Entries', NEW j \in Entries', i < j
                 PROVE  trail'[i].committed < trail'[j].committed
      OBVIOUS
    <3>1. i \in Entries
      BY <1>7
    <3>2. CASE j = n
      BY <1>3, <1>4, <1>7, <1>10, <3>1, <3>2
    <3>3. CASE j # n
      <4>1. j \in Entries
        BY <1>7, <3>3
      <4> QED BY <1>7, <3>1, <4>1 DEF DeskInv, ClockInv
    <3> QED BY <3>2, <3>3
  <2> QED BY <2>1, <2>2, <2>3 DEF ClockInv
<1>14. ASSUME NEW s \in Reviewers, calls'[s] # NoCall
       PROVE  trail'[n].committed > calls'[s].begun
  <2>1. calls[s] # NoCall /\ calls'[s] = calls[s]
    BY <1>8, <1>14
  <2>2. calls[s].begun \in Nat /\ calls[s].begun <= clock
    BY <2>1, CallShape DEF DeskInv, ClockInv
  <2> QED BY <1>3, <1>4, <1>7, <2>1, <2>2
<1>15. FreshInv'
  BY <1>7, <1>14 DEF FreshInv
<1>16. TextInv'
  <2> SUFFICES ASSUME NEW s \in Reviewers, calls'[s] # NoCall
               PROVE  \/ calls'[s].loaded.text = row'.text
                      \/ \E i \in Entries' : /\ trail'[i].committed > calls'[s].begun
                                             /\ row'.text = trail'[i].corrected.text
    BY DEF TextInv
  <2>1. CASE new.text # call.loaded.text
    <3>1. row'.text = trail'[n].corrected.text
      BY <1>4, <1>5, <1>7, <1>9, <2>1
    <3> QED BY <1>7, <1>14, <3>1
  <2>2. CASE new.text = call.loaded.text
    <3>1. row'.text = row.text /\ calls[s] # NoCall /\ calls'[s] = calls[s]
      BY <1>8, <1>9, <2>2
    <3> QED BY <1>7, <3>1 DEF DeskInv, TextInv
  <2> QED BY <2>1, <2>2
<1>17. ASSUME NEW i \in Entries, trail[i].committed > call.begun
       PROVE  Overlap(i, n)'
  BY <1>2, <1>3, <1>4, <1>7, <1>10, <1>17 DEF Overlap, CommittedAfter
<1>18. TornOnlyByOverlap'
  <2> SUFFICES ASSUME ~ \E i \in Entries' : Overlap(i, n)'
               PROVE  row' = Projection(type, call.value)
    BY <1>1, <1>4, <1>7 DEF TornOnlyByOverlap, Projection, Columns
  <2>1. call.loaded = row
    BY <1>1, <1>7, <1>17 DEF DeskInv, FreshInv, call
  <2>2. OwnColumns(row)
    BY DEF DeskInv, ColumnsInv
  <2>3. row' = new
    BY <1>5, <1>9, <2>1 DEF Row
  <2>4. new = Projection(type, call.value)
    BY <2>1, <2>2, <1>3 DEF new, Columns, Projection, NoColumns, OwnColumns, Row
  <2> QED BY <1>1, <2>3, <2>4
<1>19. Explained'
  <2>1. \E i \in Entries' : Newest(i)'
    <3>1. CASE trail = <<>>
      <4>1. n = 1
        BY <3>1
      <4> QED BY <1>2, <1>4, <1>7, <4>1 DEF Newest
    <3>2. CASE trail # <<>>
      <4>1. PICK m \in Entries : Newest(m)
        BY <3>2 DEF DeskInv, Explained
      <4>2. CASE trail[m].created >= call.begun
        <5>1. Newest(m)'
          <6> SUFFICES ASSUME NEW j \in Entries'
                       PROVE  trail'[j].created <= trail'[m].created
            BY DEF Newest
          <6>1. CASE j \in Entries
            BY <1>7, <4>1, <6>1 DEF Newest
          <6>2. CASE j = n
            BY <1>4, <1>7, <4>1, <4>2, <6>2
          <6> QED BY <1>7, <6>1, <6>2
        <5> QED BY <1>7, <5>1
      <4>3. CASE trail[m].created < call.begun
        <5>1. Newest(n)'
          BY <1>2, <1>4, <1>7, <1>10, <4>1, <4>3 DEF Newest
        <5> QED BY <1>7, <5>1
      <4> QED BY <1>2, <1>10, <4>2, <4>3
    <3> QED BY <3>1, <3>2
  <2>2. ASSUME NEW m \in Entries', Newest(m)'
        PROVE  \E i \in Entries' : row'.text = trail'[i].corrected.text /\ (i = m \/ Overlap(i, m)')
    <3>1. CASE m = n
      <4>1. CASE row'.text = call.value.text
        BY <1>4, <1>7, <3>1, <4>1
      <4>2. CASE row'.text # call.value.text
        <5>1. row'.text = row.text /\ call.loaded.text # row.text
          BY <1>5, <1>9, <4>2
        <5>2. PICK i \in Entries : trail[i].committed > call.begun /\ row.text = trail[i].corrected.text
          BY <1>1, <5>1 DEF DeskInv, TextInv, call
        <5> QED BY <1>7, <1>17, <3>1, <5>1, <5>2
      <4> QED BY <4>1, <4>2
    <3>2. CASE m # n
      <4>1. m \in Entries /\ Newest(m) /\ trail[m].created >= call.begun
        BY <1>2, <1>4, <1>7, <1>10, <2>2, <3>2 DEF Newest
      <4>2. CASE row'.text = row.text
        <5>1. PICK i \in Entries : row.text = trail[i].corrected.text /\ (i = m \/ Overlap(i, m))
          BY <4>1 DEF DeskInv, Explained
        <5> QED BY <1>7, <4>1, <4>2, <5>1 DEF Overlap, CommittedAfter
      <4>3. CASE row'.text # row.text
        <5>1. row'.text = trail'[n].corrected.text
          BY <1>4, <1>5, <1>7, <1>9, <4>3
        <5>2. Overlap(n, m)'
          BY <1>2, <1>3, <1>4, <1>7, <1>10, <4>1 DEF Overlap, CommittedAfter
        <5> QED BY <1>7, <5>1, <5>2
      <4> QED BY <4>2, <4>3
    <3> QED BY <3>1, <3>2
  <2> QED BY <2>1, <2>2 DEF Explained
<1> QED BY <1>11, <1>12, <1>13, <1>15, <1>16, <1>18, <1>19 DEF DeskInv

LEMMA DeskAlways == DeskSpec => []DeskInv
<1>1. DeskInv /\ [DeskNext]_deskVars => DeskInv'
  <2> SUFFICES ASSUME DeskInv, [DeskNext]_deskVars PROVE DeskInv'
    OBVIOUS
  <2>1. CASE UNCHANGED deskVars
    BY <2>1 DEF deskVars, DeskInv, DeskTypes, ColumnsInv, OwnColumns, ClockInv, FreshInv, TextInv,
       TornOnlyByOverlap, Explained, Newest, Overlap, CommittedAfter, Entries, Projection
  <2>2. CASE DeskNext
    BY <2>2, ReadKeeps, CommitKeeps, FailureKeeps DEF DeskNext
  <2> QED BY <2>1, <2>2
<1> QED BY <1>1, DeskInitInv, PTL DEF DeskSpec

\* A correction that overlapped no other leaves text and typed columns together, whatever
\* was committed before and whoever else has a call in progress.
THEOREM CorrectionsWhole == DeskSpec => []TornOnlyByOverlap
<1>1. DeskInv => TornOnlyByOverlap
  BY DEF DeskInv
<1> QED BY <1>1, DeskAlways, PTL

\* The text is the one of the newest correction or of one in progress beside it.
THEOREM TrailExplains == DeskSpec => []TrailExplainsValue
<1>1. DeskInv => TrailExplainsValue
  <2> SUFFICES ASSUME DeskInv, trail # <<>> PROVE TrailExplainsValue
    BY DEF TrailExplainsValue
  <2> DEFINE newest == CHOOSE i \in Entries : \A j \in Entries : trail[j].created <= trail[i].created
  <2>1. newest \in Entries /\ Newest(newest)
    BY DEF DeskInv, Explained, Newest
  <2> HIDE DEF newest
  <2>2. \E i \in Entries : row.text = trail[i].corrected.text /\ (i = newest \/ Overlap(i, newest))
    BY <2>1 DEF DeskInv, Explained
  <2> QED BY <2>2 DEF TrailExplainsValue, newest
<1> QED BY <1>1, DeskAlways, PTL

-------------------------------------------------------------------------------
(* Numbers and the order of a list *)

Below(S) == {pair \in S \X S : pair[1] < pair[2]}

\* A set of natural numbers that is not empty has a least element.
LEMMA LeastNatural ==
  ASSUME NEW S \in SUBSET Nat, S # {}
  PROVE  \E least \in S : \A n \in S : least <= n
<1>1. IsWellFoundedOn(Below(Nat), Nat)
  BY NatLessThanWellFounded DEF OpToRel, Below
<1>2. PICK least \in S : \A n \in S : <<n, least>> \notin Below(Nat)
  BY <1>1, WFMin
<1>3. ASSUME NEW n \in S PROVE least <= n
  <2>1. n \in Nat /\ least \in Nat
    OBVIOUS
  <2>2. ~(n < least)
    BY <1>2, <2>1 DEF Below
  <2> QED BY <2>1, <2>2
<1> QED BY <1>3

\* One that is bounded has a greatest element.
LEMMA GreatestNatural ==
  ASSUME NEW S \in SUBSET Nat, S # {}, NEW bound \in Nat, \A n \in S : n <= bound
  PROVE  \E greatest \in S : \A n \in S : n <= greatest
<1> DEFINE Gaps == {bound - n : n \in S}
<1>1. Gaps \in SUBSET Nat /\ Gaps # {}
  <2>1. \A n \in S : bound - n \in Nat
    OBVIOUS
  <2> QED BY <2>1
<1>2. PICK least \in Gaps : \A gap \in Gaps : least <= gap
  BY <1>1, LeastNatural
<1>3. PICK greatest \in S : least = bound - greatest
  OBVIOUS
<1>4. ASSUME NEW n \in S PROVE n <= greatest
  <2>1. least <= bound - n
    BY <1>2
  <2> QED BY <2>1, <1>3
<1> QED BY <1>4

\* There is a k-th open flag for every k up to their number.
LEMMA NthIsOpen ==
  ASSUME QueueAssumption, NEW k \in 1..Cardinality(OpenFlags)
  PROVE  Nth(k) \in OpenFlags
<1> DEFINE Upto(f) == {g \in OpenFlags : g <= f}
           Reach   == {f \in OpenFlags : Cardinality(Upto(f)) >= k}
<1>1. IsFiniteSet(OpenFlags) /\ Cardinality(OpenFlags) \in Nat /\ OpenFlags \subseteq Nat
  <2>1. IsFiniteSet(Flags)
    BY FS_Interval DEF QueueAssumption, Flags
  <2> QED BY <2>1, FS_Subset, FS_CardinalityType DEF OpenFlags, Flags
<1>2. ASSUME NEW f PROVE IsFiniteSet(Upto(f)) /\ Cardinality(Upto(f)) \in Nat
  BY <1>1, FS_Subset, FS_CardinalityType
<1>3. Reach # {}
  <2>1. OpenFlags # {}
    BY FS_EmptySet
  <2>2. \A f \in OpenFlags : f <= FlagCount
    BY DEF OpenFlags, Flags
  <2>3. PICK last \in OpenFlags : \A g \in OpenFlags : g <= last
    BY <1>1, <2>1, <2>2, GreatestNatural DEF QueueAssumption
  <2>4. Upto(last) = OpenFlags
    BY <2>3
  <2>5. last \in Reach
    BY <2>4, <1>1
  <2> QED BY <2>5
<1>4. PICK f \in Reach : \A g \in Reach : f <= g
  BY <1>1, <1>3, LeastNatural
<1>5. Cardinality(Upto(f)) = k
  <2> SUFFICES ASSUME Cardinality(Upto(f)) > k PROVE FALSE
    BY <1>2
  <2> DEFINE Lower == Upto(f) \ {f}
  <2>0. f \in Upto(f)
    BY <1>1
  <2>1. IsFiniteSet(Lower) /\ Cardinality(Lower) = Cardinality(Upto(f)) - 1
    <3>1. IsFiniteSet(Upto(f))
      BY <1>2
    <3> HIDE DEF Upto
    <3> QED BY <2>0, <3>1, FS_RemoveElement
  <2>2. Lower # {}
    <3>1. Cardinality(Lower) # 0
      BY <2>1, <1>2
    <3> QED BY <3>1, <2>1, FS_EmptySet
  <2>3. PICK g \in Lower : \A h \in Lower : h <= g
    BY <1>1, <2>2, GreatestNatural
  <2>4. \A h : h \in Upto(g) <=> h \in Lower
    <3> TAKE h
    <3>1. g <= f /\ g # f /\ g \in OpenFlags /\ f \in OpenFlags
      OBVIOUS
    <3>2. ASSUME h \in OpenFlags, h <= g PROVE h <= f /\ h # f
      BY <1>1, <3>1, <3>2
    <3>3. ASSUME h \in Lower PROVE h \in OpenFlags /\ h <= g
      BY <2>3, <3>3
    <3> QED BY <3>2, <3>3
  <2>5. Upto(g) = Lower
    <3> HIDE DEF Upto, Lower
    <3> QED BY <2>4
  <2>6. g \in Reach /\ g < f
    BY <2>1, <2>5, <1>1, <1>2
  <2> QED BY <2>6, <1>4, <1>1
<1> QED BY <1>5 DEF Nth

\* A page of the queue holds flags that are open as it is read.
LEMMA PageIsOpen ==
  ASSUME QueueAssumption, NEW o \in Offsets
  PROVE  Page(o) \in Seq(OpenFlags)
<1> DEFINE left == Cardinality(OpenFlags) - o
           size == IF left < 0 THEN 0 ELSE IF left < PageSize THEN left ELSE PageSize
<1>1. Cardinality(OpenFlags) \in Nat /\ o \in Nat
  <2>1. IsFiniteSet(Flags)
    BY FS_Interval DEF QueueAssumption, Flags
  <2>2. IsFiniteSet(OpenFlags)
    BY <2>1, FS_Subset DEF OpenFlags
  <2> QED BY <2>2, FS_CardinalityType DEF Offsets, QueueAssumption
<1>2. size \in Nat /\ 1..size = 1..(IF left < PageSize THEN left ELSE PageSize)
  BY <1>1 DEF QueueAssumption
<1>3. Page(o) = [i \in 1..size |-> Nth(o + i)]
  BY <1>2 DEF Page
<1>4. \A i \in 1..size : Nth(o + i) \in OpenFlags
  <2> TAKE i \in 1..size
  <2>1. o + i \in 1..Cardinality(OpenFlags)
    BY <1>1 DEF QueueAssumption
  <2> QED BY <2>1, NthIsOpen
<1> HIDE DEF size
<1> QED BY <1>2, <1>3, <1>4

-------------------------------------------------------------------------------
(* ReviewQueue *)

\* A decided flag stays decided: no step makes a flag open again.
Decided == {f \in Flags : status[f] \in Decisions}

Patch == [flag : Flags, status : Decisions, step : {"sent", "read", "committed"},
          loaded : {"none", "open"} \cup Decisions]
List  == [has : BOOLEAN, stale : BOOLEAN, failed : BOOLEAN, rows : Seq(Flags), total : Nat]
Fetch == [step : {"none", "sent"}] \cup [step : {"counted"}, total : Nat]
           \cup [step : {"selected"}, total : Nat, rows : Seq(Flags)]

QueueTypes ==
  /\ status \in [Flags -> {"none", "open"} \cup Decisions]
  /\ offset \in Offsets
  /\ cache \in [Offsets -> List]
  /\ fetch \in [Offsets -> Fetch]
  /\ patches \in Seq(Patch \cup {Ended})
  /\ mine \in SUBSET Flags
  /\ missed \in [Offsets -> SUBSET Flags]

\* What was answered here is decided, as is what a PATCH has committed or found decided.
DecidedInv ==
  /\ mine \subseteq Decided
  /\ \A k \in DOMAIN patches :
       \/ patches[k].step = "committed"
       \/ patches[k].step = "read" /\ patches[k].loaded \in Decisions
       => patches[k].flag \in Decided

\* The rows of a list that were answered here, other than those in except.
Again(rows, except) == \E i \in DOMAIN rows : rows[i] \in mine \ except

\* A list taken for fresh, or on its way, offers none of them again but those answered
\* while its GET went on.
ListsInv ==
  \A o \in Offsets :
    /\ ~cache[o].stale => ~Again(cache[o].rows, missed[o])
    /\ fetch[o].step = "selected" => ~Again(fetch[o].rows, missed[o])

QueueInv == QueueTypes /\ DecidedInv /\ ListsInv

LEMMA QueueInitInv == QueueAssumption /\ QueueInit => QueueInv
<1> SUFFICES ASSUME QueueAssumption, QueueInit PROVE QueueInv
  OBVIOUS
<1>1. 0 \in Offsets
  BY DEF Offsets, QueueAssumption
<1>2. <<>> \in Seq(Flags) /\ <<>> \in Seq(Patch \cup {Ended}) /\ DOMAIN <<>> = {}
  OBVIOUS
<1>3. QueueTypes
  BY <1>1, <1>2 DEF QueueInit, QueueTypes, List, Fetch, NoData, NoFetch, Sent
<1>4. DecidedInv /\ ListsInv
  BY <1>1, <1>2 DEF QueueInit, DecidedInv, ListsInv, Again, NoData, NoFetch, Sent
<1> QED BY <1>3, <1>4 DEF QueueInv

\* What adds or decides flags leaves those decided before decided, and the lists alone.
LEMMA StatusKeeps ==
  ASSUME QueueAssumption, QueueInv, NEW f \in Flags, NEW s \in {"open"} \cup Decisions,
         status[f] = "none" \/ s \in Decisions,
         status' = [status EXCEPT ![f] = s],
         UNCHANGED <<offset, cache, fetch, patches, mine, missed>>
  PROVE  QueueInv' /\ Decided \subseteq Decided'
<1>1. QueueTypes'
  BY DEF QueueInv, QueueTypes
<1>2. Decided \subseteq Decided'
  BY DEF Decided, QueueInv, QueueTypes, QueueAssumption
<1>3. DecidedInv'
  BY <1>2 DEF QueueInv, DecidedInv
<1>4. ListsInv'
  BY DEF QueueInv, ListsInv, Again
<1> QED BY <1>1, <1>2, <1>3, <1>4 DEF QueueInv

LEMMA AddKeeps ==
  ASSUME QueueAssumption, QueueInv, NEW f \in Flags, AddFlag(f)
  PROVE  QueueInv'
BY StatusKeeps DEF AddFlag

LEMMA ElsewhereKeeps ==
  ASSUME QueueAssumption, QueueInv, NEW f \in Flags, NEW s \in Decisions, DecideElsewhere(f, s)
  PROVE  QueueInv'
BY StatusKeeps DEF DecideElsewhere

LEMMA CountKeeps ==
  ASSUME QueueAssumption, QueueInv, NEW o \in Offsets, CountFlags(o)
  PROVE  QueueInv'
<1>1. Cardinality(OpenFlags) \in Nat
  <2>1. IsFiniteSet(Flags)
    BY FS_Interval DEF QueueAssumption, Flags
  <2> QED BY <2>1, FS_Subset, FS_CardinalityType DEF OpenFlags
<1>2. [step |-> "counted", total |-> Cardinality(OpenFlags)] \in Fetch
  BY <1>1 DEF Fetch
<1>3. QueueTypes'
  BY <1>2 DEF CountFlags, QueueInv, QueueTypes
<1>4. DecidedInv'
  BY DEF CountFlags, QueueInv, DecidedInv, Decided
<1>5. ListsInv'
  BY DEF CountFlags, QueueInv, QueueTypes, ListsInv, Again
<1> QED BY <1>3, <1>4, <1>5 DEF QueueInv

\* The rows of a SELECT are open, what was answered here is not.
LEMMA SelectKeeps ==
  ASSUME QueueAssumption, QueueInv, NEW o \in Offsets, SelectFlags(o)
  PROVE  QueueInv'
<1> DEFINE got == [step |-> "selected", total |-> fetch[o].total, rows |-> Page(o)]
<1>1. Page(o) \in Seq(OpenFlags) /\ OpenFlags \subseteq Flags
  BY PageIsOpen DEF OpenFlags
<1>2. fetch' = [fetch EXCEPT ![o] = got]
  BY DEF SelectFlags
<1>3. got \in Fetch
  <2>1. Page(o) \in Seq(Flags)
    BY <1>1
  <2>2. fetch[o] \in Fetch /\ fetch[o].step = "counted"
    BY DEF QueueInv, QueueTypes, SelectFlags
  <2>3. fetch[o].total \in Nat
    BY <2>2 DEF Fetch
  <2> QED BY <2>1, <2>3 DEF Fetch
<1>4. QueueTypes'
  BY <1>2, <1>3 DEF SelectFlags, QueueInv, QueueTypes
<1>5. DecidedInv'
  BY DEF SelectFlags, QueueInv, DecidedInv, Decided
<1>6. \A i \in DOMAIN Page(o) : Page(o)[i] \notin mine
  <2>1. OpenFlags \cap mine = {}
    BY DEF QueueInv, DecidedInv, Decided, OpenFlags, QueueAssumption
  <2> QED BY <1>1, <2>1
<1>7. ListsInv'
  <2> SUFFICES ASSUME NEW p \in Offsets
               PROVE /\ ~cache[p].stale => ~Again(cache[p].rows, missed[p])
                     /\ fetch'[p].step = "selected" => ~Again(fetch'[p].rows, missed[p])
    BY DEF SelectFlags, ListsInv, Again
  <2>1. CASE p = o
    <3>1. fetch'[p].rows = Page(o)
      BY <2>1, <1>2 DEF QueueInv, QueueTypes
    <3> QED BY <2>1, <3>1, <1>6 DEF QueueInv, ListsInv, Again
  <2>2. CASE p # o
    BY <2>2, <1>2 DEF QueueInv, QueueTypes, ListsInv
  <2> QED BY <2>1, <2>2
<1> QED BY <1>4, <1>5, <1>7 DEF QueueInv

\* What a step on one PATCH leaves in its place.
LEMMA PatchChanged ==
  ASSUME QueueTypes, NEW k \in DOMAIN patches, NEW new \in Patch \cup {Ended},
         patches' = [patches EXCEPT ![k] = new]
  PROVE  /\ patches' \in Seq(Patch \cup {Ended}) /\ DOMAIN patches' = DOMAIN patches
         /\ patches'[k] = new /\ \A j \in DOMAIN patches \ {k} : patches'[j] = patches[j]
BY ExceptSeq DEF QueueTypes

LEMMA ReadFlagKeeps ==
  ASSUME QueueAssumption, QueueInv, NEW k \in DOMAIN patches, ReadFlag(k)
  PROVE  QueueInv'
<1> DEFINE new == [patches[k] EXCEPT !.step = "read", !.loaded = status[patches[k].flag]]
<1>1. patches[k] \in Patch
  <2>1. patches[k] \in Patch \cup {Ended}
    BY DEF QueueInv, QueueTypes
  <2> QED BY <2>1 DEF ReadFlag, Ended
<1>2. new \in Patch /\ new.flag = patches[k].flag /\ new.step = "read"
        /\ new.loaded = status[patches[k].flag]
  BY <1>1 DEF QueueInv, QueueTypes, Patch
<1>3. patches' = [patches EXCEPT ![k] = new]
  BY DEF ReadFlag
<1> HIDE DEF new
<1>4. /\ patches' \in Seq(Patch \cup {Ended}) /\ DOMAIN patches' = DOMAIN patches
      /\ patches'[k] = new /\ \A j \in DOMAIN patches \ {k} : patches'[j] = patches[j]
  BY <1>2, <1>3, PatchChanged DEF QueueInv
<1>5. QueueTypes'
  BY <1>4 DEF ReadFlag, QueueInv, QueueTypes
<1>6. DecidedInv'
  <2>1. new.loaded \in Decisions => new.flag \in Decided
    BY <1>1, <1>2 DEF Decided, Patch
  <2> QED BY <1>2, <1>4, <2>1 DEF ReadFlag, QueueInv, DecidedInv, Decided
<1>7. ListsInv'
  BY DEF ReadFlag, QueueInv, ListsInv, Again
<1> QED BY <1>5, <1>6, <1>7 DEF QueueInv

\* Whether the UPDATE names the status or not, the flag is decided when it is committed.
LEMMA DecisionKeeps ==
  ASSUME QueueAssumption, QueueInv, NEW k \in DOMAIN patches, CommitDecision(k)
  PROVE  QueueInv'
<1> DEFINE new == [patches[k] EXCEPT !.step = "committed"]
<1>1. patches[k] \in Patch /\ patches[k].step = "read"
  <2>1. patches[k] \in Patch \cup {Ended}
    BY DEF QueueInv, QueueTypes
  <2> QED BY <2>1 DEF CommitDecision, Ended
<1>2. new \in Patch /\ new.flag = patches[k].flag /\ new.step = "committed"
  BY <1>1 DEF Patch
<1>3. patches' = [patches EXCEPT ![k] = new]
  BY DEF CommitDecision
<1> HIDE DEF new
<1>4. /\ patches' \in Seq(Patch \cup {Ended}) /\ DOMAIN patches' = DOMAIN patches
      /\ patches'[k] = new /\ \A j \in DOMAIN patches \ {k} : patches'[j] = patches[j]
  BY <1>2, <1>3, PatchChanged DEF QueueInv
<1>5. QueueTypes'
  BY <1>1, <1>4 DEF CommitDecision, QueueInv, QueueTypes, Patch
<1>6. Decided \subseteq Decided' /\ patches[k].flag \in Decided'
  <2>1. CASE patches[k].loaded = patches[k].status
    BY <1>1, <2>1 DEF CommitDecision, QueueInv, DecidedInv, Decided, Patch
  <2>2. CASE patches[k].loaded # patches[k].status
    BY <1>1, <2>2 DEF CommitDecision, QueueInv, QueueTypes, Decided, Patch
  <2> QED BY <2>1, <2>2
<1>7. DecidedInv'
  BY <1>2, <1>4, <1>6 DEF CommitDecision, QueueInv, DecidedInv
<1>8. ListsInv'
  BY DEF CommitDecision, QueueInv, ListsInv, Again
<1> QED BY <1>5, <1>7, <1>8 DEF QueueInv

\* What a step leaves alone of the server's side.
LEMMA DecidedKept ==
  ASSUME QueueInv, UNCHANGED <<status, patches, mine>>
  PROVE  DecidedInv'
BY DEF QueueInv, DecidedInv, Decided

LEMMA ReceiveKeeps ==
  ASSUME QueueAssumption, QueueInv, NEW o \in Offsets, Receive(o)
  PROVE  QueueInv'
<1> DEFINE new == [has |-> TRUE, stale |-> FALSE, failed |-> FALSE,
                   rows |-> fetch[o].rows, total |-> fetch[o].total]
<1>1. new \in List
  <2>1. fetch[o] \in Fetch /\ fetch[o].step = "selected"
    BY DEF QueueInv, QueueTypes, Receive
  <2> QED BY <2>1 DEF Fetch, List
<1>2. cache' = [cache EXCEPT ![o] = new]
  BY DEF Receive
<1>3. NoFetch \in Fetch
  BY DEF NoFetch, Fetch
<1>4. QueueTypes'
  BY <1>1, <1>2, <1>3 DEF Receive, QueueInv, QueueTypes
<1>5. ListsInv'
  <2> SUFFICES ASSUME NEW p \in Offsets
               PROVE /\ ~cache'[p].stale => ~Again(cache'[p].rows, missed[p])
                     /\ fetch'[p].step = "selected" => ~Again(fetch'[p].rows, missed[p])
    BY DEF Receive, ListsInv, Again
  <2>1. CASE p = o
    BY <2>1, <1>2 DEF Receive, QueueInv, QueueTypes, ListsInv, NoFetch
  <2>2. CASE p # o
    BY <2>2, <1>2 DEF Receive, QueueInv, QueueTypes, ListsInv
  <2> QED BY <2>1, <2>2
<1>6. DecidedInv'
  BY DecidedKept DEF Receive
<1> QED BY <1>4, <1>5, <1>6 DEF QueueInv

LEMMA FetchFailsKeeps ==
  ASSUME QueueAssumption, QueueInv, NEW o \in Offsets, FetchFails(o)
  PROVE  QueueInv'
<1> DEFINE new == [cache[o] EXCEPT !.stale = TRUE, !.failed = TRUE]
<1>1. new \in List /\ new.stale
  BY DEF QueueInv, QueueTypes, List
<1>2. cache' = [cache EXCEPT ![o] = new]
  BY DEF FetchFails
<1> HIDE DEF new
<1>3. NoFetch \in Fetch
  BY DEF NoFetch, Fetch
<1>4. QueueTypes'
  BY <1>1, <1>2, <1>3 DEF FetchFails, QueueInv, QueueTypes
<1>5. ListsInv'
  <2> SUFFICES ASSUME NEW p \in Offsets
               PROVE /\ ~cache'[p].stale => ~Again(cache'[p].rows, missed[p])
                     /\ fetch'[p].step = "selected" => ~Again(fetch'[p].rows, missed[p])
    BY DEF FetchFails, ListsInv, Again
  <2>1. CASE p = o
    BY <2>1, <1>1, <1>2 DEF FetchFails, QueueInv, QueueTypes, ListsInv, NoFetch
  <2>2. CASE p # o
    BY <2>2, <1>2 DEF FetchFails, QueueInv, QueueTypes, ListsInv
  <2> QED BY <2>1, <2>2
<1>6. DecidedInv'
  BY DecidedKept DEF FetchFails
<1> QED BY <1>4, <1>5, <1>6 DEF QueueInv

\* A page that comes into view forgets what its last GET missed only when it is stale.
LEMMA VisitKeeps ==
  ASSUME QueueAssumption, QueueInv, NEW o \in Offsets, NEW aged \in BOOLEAN, Visit(o, aged),
         offset' \in Offsets, UNCHANGED <<status, patches, mine>>
  PROVE  QueueInv'
<1> DEFINE new == [cache[o] EXCEPT !.stale = @ \/ aged]
<1>1. /\ new \in List /\ new.rows = cache[o].rows
      /\ new.stale <=> cache[o].stale \/ aged
  BY DEF QueueInv, QueueTypes, List
<1>2. cache' = [cache EXCEPT ![o] = new]
  BY DEF Visit
<1> HIDE DEF new
<1>3. Sent \in Fetch
  BY DEF Sent, Fetch
<1>4. QueueTypes'
  <2>1. cache' \in [Offsets -> List]
    BY <1>1, <1>2 DEF QueueInv, QueueTypes
  <2>2. fetch' \in [Offsets -> Fetch] /\ missed' \in [Offsets -> SUBSET Flags]
    BY <1>3 DEF Visit, QueueInv, QueueTypes
  <2> QED BY <2>1, <2>2 DEF QueueInv, QueueTypes
<1>5. ListsInv'
  <2> SUFFICES ASSUME NEW p \in Offsets
               PROVE /\ ~cache'[p].stale => ~Again(cache'[p].rows, missed'[p])
                     /\ fetch'[p].step = "selected" => ~Again(fetch'[p].rows, missed'[p])
    BY DEF ListsInv, Again
  <2>1. CASE p = o
    <3>1. cache'[p] = new
      BY <2>1, <1>2 DEF QueueInv, QueueTypes
    <3>2. CASE (cache[o].stale \/ aged) /\ fetch[o].step = "none"
      <4>1. fetch'[p].step = "sent"
        BY <2>1, <3>2 DEF Visit, QueueInv, QueueTypes, Sent
      <4> QED BY <2>1, <3>1, <3>2, <4>1, <1>1
    <3>3. CASE ~((cache[o].stale \/ aged) /\ fetch[o].step = "none")
      <4>1. fetch' = fetch /\ missed' = missed
        BY <3>3 DEF Visit
      <4> QED BY <2>1, <3>1, <4>1, <1>1 DEF QueueInv, ListsInv
    <3> QED BY <3>2, <3>3
  <2>2. CASE p # o
    <3>1. cache'[p] = cache[p] /\ fetch'[p] = fetch[p] /\ missed'[p] = missed[p]
      BY <2>2, <1>2 DEF Visit, QueueInv, QueueTypes
    <3> QED BY <3>1 DEF QueueInv, ListsInv
  <2> QED BY <2>1, <2>2
<1>6. DecidedInv'
  BY DecidedKept
<1> QED BY <1>4, <1>5, <1>6 DEF QueueInv

LEMMA DecideKeeps ==
  ASSUME QueueAssumption, QueueInv, NEW i \in DOMAIN Shown, NEW s \in Decisions, Decide(Shown[i], s)
  PROVE  QueueInv'
<1> DEFINE new == [flag |-> Shown[i], status |-> s, step |-> "sent", loaded |-> "none"]
<1>1. new \in Patch /\ new.step = "sent"
  <2>1. Shown \in Seq(Flags)
    BY DEF Shown, QueueInv, QueueTypes, List
  <2>2. Shown[i] \in Flags
    BY <2>1
  <2> QED BY <2>2 DEF Patch
<1>2. patches' = Append(patches, new)
  BY DEF Decide
<1> HIDE DEF new
<1>3. /\ patches' \in Seq(Patch \cup {Ended}) /\ DOMAIN patches' = DOMAIN patches \cup {Len(patches) + 1}
      /\ patches'[Len(patches) + 1] = new /\ \A j \in DOMAIN patches : patches'[j] = patches[j]
  <2>1. patches \in Seq(Patch \cup {Ended}) /\ new \in Patch \cup {Ended}
    BY <1>1 DEF QueueInv, QueueTypes
  <2> QED BY <2>1, <1>2, AppendProperties
<1>4. QueueTypes'
  BY <1>3 DEF Decide, QueueInv, QueueTypes
<1>5. DecidedInv'
  BY <1>1, <1>3 DEF Decide, QueueInv, DecidedInv, Decided
<1>6. ListsInv'
  BY DEF Decide, QueueInv, ListsInv, Again
<1> QED BY <1>4, <1>5, <1>6 DEF QueueInv

\* The answer: every list is stale, and a GET that goes on has missed it.
LEMMA AnswerKeeps ==
  ASSUME QueueAssumption, QueueInv, NEW k \in DOMAIN patches, AnswerDecision(k)
  PROVE  QueueInv'
<1> DEFINE f == patches[k].flag
<1>1. patches[k] \in Patch
  <2>1. patches[k] \in Patch \cup {Ended}
    BY DEF QueueInv, QueueTypes
  <2> QED BY <2>1 DEF AnswerDecision, Ended
<1>2. f \in Flags /\ f \in Decided
  BY <1>1 DEF AnswerDecision, QueueInv, DecidedInv, Patch
<1>3. /\ patches' \in Seq(Patch \cup {Ended}) /\ DOMAIN patches' = DOMAIN patches
      /\ patches'[k] = Ended /\ \A j \in DOMAIN patches \ {k} : patches'[j] = patches[j]
  BY PatchChanged DEF AnswerDecision, QueueInv
<1>4. QueueTypes'
  <2>1. cache' \in [Offsets -> List]
    <3>1. ASSUME NEW o \in Offsets PROVE [cache[o] EXCEPT !.stale = TRUE] \in List
      <4>1. cache[o] \in List
        BY DEF QueueInv, QueueTypes
      <4> QED BY <4>1 DEF List
    <3> QED BY <3>1 DEF AnswerDecision
  <2>2. fetch' \in [Offsets -> Fetch]
    <3>1. Sent \in Fetch
      BY DEF Sent, Fetch
    <3> QED BY <3>1 DEF AnswerDecision, QueueInv, QueueTypes
  <2>3. missed' \in [Offsets -> SUBSET Flags]
    BY <1>2 DEF AnswerDecision, QueueInv, QueueTypes
  <2> QED BY <1>2, <1>3, <2>1, <2>2, <2>3 DEF AnswerDecision, QueueInv, QueueTypes
<1>5. DecidedInv'
  BY <1>2, <1>3 DEF AnswerDecision, QueueInv, DecidedInv, Decided, Ended
<1>6. ListsInv'
  <2> SUFFICES ASSUME NEW o \in Offsets
               PROVE /\ cache'[o].stale
                     /\ fetch'[o].step = "selected" =>
                          \A i \in DOMAIN fetch'[o].rows : fetch'[o].rows[i] \notin mine' \ missed'[o]
    BY DEF ListsInv, Again
  <2>1. cache'[o].stale
    BY DEF AnswerDecision, QueueInv, QueueTypes, List
  <2>2. ASSUME fetch'[o].step = "selected"
        PROVE  \A i \in DOMAIN fetch'[o].rows : fetch'[o].rows[i] \notin mine' \ missed'[o]
    <3>1. ~Restarted(o) /\ fetch'[o] = fetch[o]
      BY <2>2 DEF AnswerDecision, Sent
    <3>2. GoesOn(o)
      BY <2>2, <3>1 DEF Restarted, GoesOn
    <3>3. missed'[o] = missed[o] \cup {f} /\ mine' = mine \cup {f}
      BY <3>2 DEF AnswerDecision
    <3>4. ~Again(fetch[o].rows, missed[o])
      BY <2>2, <3>1 DEF QueueInv, ListsInv
    <3> QED BY <3>1, <3>3, <3>4 DEF Again
  <2> QED BY <2>1, <2>2
<1> QED BY <1>4, <1>5, <1>6 DEF QueueInv

LEMMA DecisionFailsKeeps ==
  ASSUME QueueAssumption, QueueInv, NEW k \in DOMAIN patches, DecisionFails(k)
  PROVE  QueueInv'
<1>1. /\ patches' \in Seq(Patch \cup {Ended}) /\ DOMAIN patches' = DOMAIN patches
      /\ patches'[k] = Ended /\ \A j \in DOMAIN patches \ {k} : patches'[j] = patches[j]
  BY PatchChanged DEF DecisionFails, QueueInv
<1>2. QueueTypes'
  BY <1>1 DEF DecisionFails, QueueInv, QueueTypes
<1>3. DecidedInv'
  BY <1>1 DEF DecisionFails, QueueInv, DecidedInv, Decided, Ended
<1>4. ListsInv'
  BY DEF DecisionFails, QueueInv, ListsInv, Again
<1> QED BY <1>2, <1>3, <1>4 DEF QueueInv

LEMMA QueueAlways == QueueSpec => []QueueInv
<1>1. QueueInv /\ [QueueNext]_queueVars => QueueInv'
  <2> SUFFICES ASSUME QueueInv, [QueueNext]_queueVars PROVE QueueInv'
    OBVIOUS
  <2> USE QueueAssumption
  <2>1. CASE ServerStep
    BY <2>1, AddKeeps, ElsewhereKeeps, CountKeeps, SelectKeeps, ReadFlagKeeps, DecisionKeeps DEF ServerStep
  <2>2. CASE PageStep
    <3>1. ASSUME NEW aged \in BOOLEAN, Focus(aged) PROVE QueueInv'
      <4>1. offset \in Offsets
        BY DEF QueueInv, QueueTypes
      <4> QED BY <3>1, <4>1, VisitKeeps DEF Focus
    <3>2. ASSUME NEW aged \in BOOLEAN, NEW o \in Offsets, TurnPage(o, aged) PROVE QueueInv'
      BY <3>2, VisitKeeps DEF TurnPage
    <3>3. ASSUME NEW i \in 1..PageSize, Move(i) PROVE QueueInv'
      BY <3>3 DEF Move, QueueInv, QueueTypes, DecidedInv, Decided, ListsInv, Again
    <3>4. ASSUME NEW i \in 1..PageSize, NEW s \in Decisions, Click(i, s) PROVE QueueInv'
      BY <3>4, DecideKeeps DEF Click
    <3>5. ASSUME NEW s \in Decisions, Press(s) PROVE QueueInv'
      BY <3>5, DecideKeeps DEF Press
    <3> QED BY <2>2, <3>1, <3>2, <3>3, <3>4, <3>5, ReceiveKeeps, FetchFailsKeeps, AnswerKeeps,
               DecisionFailsKeeps DEF PageStep
  <2>3. CASE UNCHANGED queueVars
    BY <2>3 DEF queueVars, QueueInv, QueueTypes, DecidedInv, Decided, ListsInv, Again
  <2> QED BY <2>1, <2>2, <2>3 DEF QueueNext
<1> QED BY <1>1, QueueInitInv, QueueAssumption, PTL DEF QueueSpec

\* A list that is taken for fresh offers none of the decisions answered here as open
\* again, but those that were answered while its GET went on.
THEOREM DecisionsLeave == QueueSpec => []OwnDecisionsLeaveQueue
<1>1. QueueInv => OwnDecisionsLeaveQueue
  BY DEF QueueInv, ListsInv, Again, OwnDecisionsLeaveQueue
<1> QED BY <1>1, QueueAlways, PTL

-------------------------------------------------------------------------------
(* DocumentView *)

Load == [doc : Docs \cup {"none"}, page : Pages, ended : BOOLEAN]

Choice == [flag : FlagsHere \cup {0}, region : Pages \cup {0}]

\* What the page remembers of flags is of the document on the screen.
ViewTypes ==
  /\ view \in Docs \cup {"none"} /\ page \in Pages
  /\ detail \in [ready : BOOLEAN, loading : BOOLEAN, failed : BOOLEAN, open : SUBSET FlagsHere]
  /\ selected \in Choice
  /\ decision \in [flag : FlagsHere \cup {0}, next : FlagsHere \cup {0}, committed : BOOLEAN]

\* The load whose effect lives is of what is shown, and only it may have left a URL.
ImageInv ==
  /\ loads \in Seq(Load) /\ effect \in {0} \cup DOMAIN loads
  /\ effect # 0 => loads[effect].doc = view /\ loads[effect].page = page
  /\ imageUrl \in {0, effect}
  /\ urls = {imageUrl} \ {0}

ViewInv == ViewTypes /\ ImageInv /\ SelectionOnPage

LEMMA FlagsHereTypes ==
  ASSUME ViewAssumption
  PROVE  /\ FlagsHere \in SUBSET Nat /\ 0 \notin FlagsHere
         /\ \A f \in FlagsHere : f <= Len(DocFlags) /\ DocFlags[f].page \in Pages
                                  /\ DocFlags[f].region \in BOOLEAN
         /\ Len(DocFlags) \in Nat /\ 0 \notin Pages /\ 1 \in Pages
<1>1. /\ DocFlags \in Seq([doc : Docs, page : Pages, region : BOOLEAN])
      /\ Len(DocFlags) \in Nat /\ DOMAIN DocFlags = 1..Len(DocFlags)
  BY DEF ViewAssumption
<1>2. ASSUME NEW f \in FlagsHere
      PROVE  /\ f \in Nat \ {0} /\ f <= Len(DocFlags)
             /\ DocFlags[f] \in [doc : Docs, page : Pages, region : BOOLEAN]
  <2>1. f \in 1..Len(DocFlags)
    BY <1>1 DEF FlagsHere
  <2>2. DocFlags[f] \in [doc : Docs, page : Pages, region : BOOLEAN]
    <3> DEFINE S == [doc : Docs, page : Pages, region : BOOLEAN]
    <3>1. DocFlags \in Seq(S)
      BY <1>1
    <3> HIDE DEF S
    <3>2. DocFlags[f] \in S
      BY <2>1, <3>1
    <3> QED BY <3>2 DEF S
  <2> QED BY <1>1, <2>1, <2>2
<1>3. 0 \notin Pages /\ 1 \in Pages
  BY DEF ViewAssumption, Pages
<1> QED BY <1>1, <1>2, <1>3

\* The first and the last of a set of flags are among them.
LEMMA FirstIsOne ==
  ASSUME NEW S \in SUBSET Nat
  PROVE  First(S) \in S \cup {0}
<1>1. CASE S = {}
  BY <1>1 DEF First
<1>2. CASE S # {}
  BY <1>2, LeastNatural DEF First, Min
<1> QED BY <1>1, <1>2

LEMMA NeighboursHere ==
  ASSUME ViewAssumption, ViewTypes, NEW f
  PROVE  /\ Later(f) \in FlagsHere \cup {0} /\ Earlier(f) \in FlagsHere \cup {0}
         /\ CurrentFlag \in FlagsHere \cup {0}
<1>1. detail.open \in SUBSET FlagsHere /\ detail.open \in SUBSET Nat
  BY FlagsHereTypes DEF ViewTypes
<1>2. Later(f) \in FlagsHere \cup {0} /\ CurrentFlag \in FlagsHere \cup {0}
  BY <1>1, FirstIsOne DEF Later, CurrentFlag
<1>3. Earlier(f) \in FlagsHere \cup {0}
  <2> DEFINE S == {0} \cup {g \in detail.open : g < f}
  <2>1. S \in SUBSET Nat /\ S # {} /\ \A n \in S : n <= Len(DocFlags)
    BY <1>1, FlagsHereTypes
  <2>2. \E greatest \in S : \A n \in S : greatest >= n
    <3>1. PICK greatest \in S : \A n \in S : n <= greatest
      BY <2>1, FlagsHereTypes, GreatestNatural
    <3> QED BY <3>1, <2>1
  <2>3. Max(S) \in S
    BY <2>2 DEF Max
  <2> QED BY <2>3, <1>1 DEF Earlier
<1> QED BY <1>2, <1>3

\* Following a selection leads to the page it is on.
OnPage(s, p) ==
  /\ s.region # 0 => s.region = p
  /\ s.flag # 0 => DocFlags[s.flag].page = p

LEMMA FollowLands ==
  ASSUME ViewAssumption, ViewTypes, SelectionOnPage, NEW s \in Choice,
         s.region # 0 /\ s.flag # 0 => s.region = DocFlags[s.flag].page
  PROVE  Follow(s) \in Pages /\ OnPage(s, Follow(s))
<1>1. page \in Pages /\ OnPage(selected, page)
  BY DEF ViewTypes, SelectionOnPage, OnPage
<1>2. s.flag \in FlagsHere \cup {0} /\ s.region \in Pages \cup {0}
  BY DEF Choice
<1> QED BY <1>1, <1>2, FlagsHereTypes DEF Follow, OnPage

LEMMA FlagSelectionOnPage ==
  ASSUME ViewAssumption, NEW f \in FlagsHere \cup {0}
  PROVE  /\ FlagSelection(f) \in Choice
         /\ FlagSelection(f).region # 0 /\ FlagSelection(f).flag # 0
              => FlagSelection(f).region = DocFlags[FlagSelection(f).flag].page
BY FlagsHereTypes DEF FlagSelection, Nothing, Choice

\* New effects leave the last one's load as the one that counts.
LEMMA LoadKeeps ==
  ASSUME ViewTypes, ImageInv, NEW pages \in Seq(Pages), pages # <<>>, LoadImages(pages),
         page' = pages[Len(pages)], UNCHANGED view
  PROVE  ImageInv'
<1> DEFINE more == [i \in DOMAIN pages |-> [doc |-> view, page |-> pages[i], ended |-> FALSE]]
<1>1. more \in Seq(Load) /\ Len(more) = Len(pages) /\ Len(pages) \in Nat \ {0}
  <2>1. Len(pages) \in Nat \ {0} /\ DOMAIN pages = 1..Len(pages)
    BY EmptySeq
  <2>2. \A i \in 1..Len(pages) : pages[i] \in Pages
    OBVIOUS
  <2>3. \A i \in 1..Len(pages) : [doc |-> view, page |-> pages[i], ended |-> FALSE] \in Load
    BY <2>2 DEF Load, ViewTypes
  <2> QED BY <2>1, <2>3
<1>2. /\ loads' \in Seq(Load) /\ Len(loads') = Len(loads) + Len(more)
      /\ loads'[Len(loads) + Len(more)] = more[Len(more)]
  <2>1. loads' = loads \o more /\ loads \in Seq(Load)
    BY DEF LoadImages, ImageInv
  <2> HIDE DEF more
  <2>2. /\ loads \o more \in Seq(Load) /\ Len(loads \o more) = Len(loads) + Len(more)
        /\ (loads \o more)[Len(loads) + Len(more)] = more[Len(more)]
    <3>1. Len(loads) \in Nat /\ Len(more) \in Nat \ {0}
      BY <1>1, <2>1
    <3>2. loads \in Seq(Load) /\ more \in Seq(Load)
      BY <1>1, <2>1
    <3>3. loads \o more \in Seq(Load) /\ Len(loads \o more) = Len(loads) + Len(more)
      BY <3>2, ConcatProperties
    <3>4. (loads \o more)[Len(loads) + Len(more)] = more[Len(more)]
      BY <3>1, <3>2, ConcatProperties
    <3> QED BY <3>3, <3>4
  <2> QED BY <2>1, <2>2
<1>3. effect' = Len(loads') /\ effect' \in DOMAIN loads' /\ effect' # 0
  <2>1. loads \in Seq(Load) /\ effect' = Len(loads')
    BY DEF LoadImages, ImageInv
  <2> QED BY <1>1, <1>2, <2>1
<1>4. loads'[effect'].doc = view' /\ loads'[effect'].page = page'
  BY <1>1, <1>2, <1>3
<1>5. imageUrl' = 0 /\ urls' = {}
  BY DEF LoadImages, Kept, ImageInv
<1> QED BY <1>2, <1>3, <1>4, <1>5 DEF ImageInv

LEMMA UnmountKeeps ==
  ASSUME ImageInv, UnmountCanvas
  PROVE  ImageInv'
BY DEF ImageInv, UnmountCanvas, Kept

LEMMA ShowKeeps ==
  ASSUME ViewTypes, ImageInv, NEW p \in Pages, ShowPage(p), UNCHANGED view
  PROVE  page' = p /\ ImageInv'
<1>1. page' = p
  BY DEF ShowPage
<1>2. CASE effect = 0 \/ p = page
  BY <1>1, <1>2 DEF ShowPage, imageVars, ImageInv
<1>3. CASE ~(effect = 0 \/ p = page)
  <2>1. LoadImages(<<p>>)
    BY <1>3 DEF ShowPage
  <2>2. <<p>> \in Seq(Pages) /\ <<p>> # <<>> /\ <<p>>[Len(<<p>>)] = p
    OBVIOUS
  <2> QED BY <1>1, <2>1, <2>2, LoadKeeps
<1> QED BY <1>1, <1>2, <1>3

LEMMA ViewInitInv == ViewAssumption /\ ViewInit => ViewInv
<1> SUFFICES ASSUME ViewAssumption, ViewInit PROVE ViewInv
  OBVIOUS
<1>1. <<>> \in Seq(Load) /\ 1 \in Pages
  BY FlagsHereTypes
<1>2. ViewTypes
  BY <1>1 DEF ViewInit, ViewTypes, NoDetail, Nothing, NoDecision, Choice
<1>3. ImageInv /\ SelectionOnPage
  BY <1>1 DEF ViewInit, ImageInv, SelectionOnPage, Nothing
<1> QED BY <1>2, <1>3 DEF ViewInv

LEMMA ImageEndsKeeps ==
  ASSUME ViewAssumption, ViewInv, NEW i \in DOMAIN loads, ImageArrives(i) \/ ImageFails(i)
  PROVE  ViewInv'
<1> DEFINE new == [loads[i] EXCEPT !.ended = TRUE]
<1>1. loads \in Seq(Load) /\ loads[i] \in Load /\ i \in Nat \ {0}
  BY DEF ViewInv, ImageInv
<1>2. new \in Load /\ new.doc = loads[i].doc /\ new.page = loads[i].page
  BY <1>1 DEF Load
<1>3. loads' = [loads EXCEPT ![i] = new]
  BY DEF ImageArrives, ImageFails
<1> HIDE DEF new
<1>4. /\ loads' \in Seq(Load) /\ DOMAIN loads' = DOMAIN loads
      /\ \A j \in DOMAIN loads : loads'[j].doc = loads[j].doc /\ loads'[j].page = loads[j].page
  BY <1>1, <1>2, <1>3, ExceptSeq
<1>5. imageUrl' \in {0, effect} /\ urls' = {imageUrl'} \ {0}
  BY <1>1 DEF ImageArrives, ImageFails, Wanted, ViewInv, ImageInv
<1>6. ImageInv'
  BY <1>4, <1>5 DEF ImageArrives, ImageFails, ViewInv, ImageInv
<1> QED BY <1>6 DEF ImageArrives, ImageFails, ViewInv, ViewTypes, FlagsHere, Choice, SelectionOnPage

\* A selection, the page that follows it and the image of that page.
LEMMA SelectKeepsView ==
  ASSUME ViewAssumption, ViewInv, NEW s \in Choice, Select(s), UNCHANGED view,
         s.region # 0 /\ s.flag # 0 => s.region = DocFlags[s.flag].page
  PROVE  selected' \in Choice /\ page' \in Pages /\ ImageInv' /\ SelectionOnPage'
<1>1. Follow(s) \in Pages /\ OnPage(s, Follow(s))
  BY FollowLands DEF ViewInv
<1>2. page' = Follow(s) /\ ImageInv'
  BY <1>1, ShowKeeps DEF Select, ViewInv
<1>3. selected' = s
  BY DEF Select
<1> QED BY <1>1, <1>2, <1>3, FlagsHereTypes DEF Choice, SelectionOnPage, OnPage, FlagsHere

LEMMA SelectRegionKeeps ==
  ASSUME ViewAssumption, ViewInv, NEW r \in Pages \cup {0}, SelectRegion(r)
  PROVE  ViewInv'
<1>1. [flag |-> 0, region |-> r] \in Choice
  BY DEF Choice
<1>2. selected' \in Choice /\ page' \in Pages /\ ImageInv' /\ SelectionOnPage'
  BY <1>1, SelectKeepsView DEF SelectRegion
<1> QED BY <1>2 DEF SelectRegion, ViewInv, ViewTypes, FlagsHere, Choice

LEMMA MoveKeeps ==
  ASSUME ViewAssumption, ViewInv, NEW to \in FlagsHere \cup {0}, MoveFlag(to)
  PROVE  ViewInv'
<1> DEFINE f == IF to = 0 THEN CurrentFlag ELSE to
<1>1. f \in FlagsHere \cup {0}
  BY NeighboursHere DEF ViewInv
<1>2. Select(FlagSelection(f)) /\ UNCHANGED <<decided, view, detail, decision>>
  BY DEF MoveFlag
<1> HIDE DEF f
<1>3. selected' \in Choice /\ page' \in Pages /\ ImageInv' /\ SelectionOnPage'
  BY <1>1, <1>2, FlagSelectionOnPage, SelectKeepsView
<1> QED BY <1>2, <1>3 DEF ViewInv, ViewTypes, FlagsHere, Choice

LEMMA GoKeeps ==
  ASSUME ViewAssumption, ViewInv, NEW p \in Pages, GoToPage(p)
  PROVE  ViewInv'
<1>1. page' = p /\ ImageInv'
  BY ShowKeeps DEF GoToPage, ViewInv
<1>2. selected' = Nothing /\ UNCHANGED <<decided, view, detail, decision>>
  BY DEF GoToPage, Leave
<1> QED BY <1>1, <1>2 DEF ViewInv, ViewTypes, FlagsHere, Choice, Nothing, SelectionOnPage

LEMMA NavigateKeeps ==
  ASSUME ViewAssumption, ViewInv, NEW d \in Docs \cup {"none"}, Navigate(d)
  PROVE  ViewInv'
<1>1. ImageInv'
  BY UnmountKeeps DEF Navigate, ViewInv
<1>2. ViewTypes' /\ SelectionOnPage'
  BY FlagsHereTypes DEF Navigate, ViewInv, ViewTypes, NoDetail, Nothing, NoDecision, Choice, SelectionOnPage
<1> QED BY <1>1, <1>2 DEF ViewInv

LEMMA ReceivedHere == Received \in [ready : BOOLEAN, loading : BOOLEAN, failed : BOOLEAN, open : SUBSET FlagsHere]
BY DEF Received

\* Between the two effects of the first answer nothing is drawn of the first page.
LEMMA ReceiveFirstKeeps ==
  ASSUME ViewAssumption, ViewInv, ReceiveFirst
  PROVE  ViewInv'
<1>1. PICK f \in FlagsHere \cup {First(Received.open)} :
        /\ selected' = FlagSelection(f)
        /\ page' = Follow(FlagSelection(f))
        /\ LoadImages(IF Follow(FlagSelection(f)) = 1 THEN <<1>> ELSE <<1, Follow(FlagSelection(f))>>)
  BY DEF ReceiveFirst
<1>2. f \in FlagsHere \cup {0}
  <2>1. Received.open \in SUBSET FlagsHere /\ Received.open \in SUBSET Nat
    BY FlagsHereTypes DEF Received
  <2> QED BY <2>1, FirstIsOne
<1>3. /\ FlagSelection(f) \in Choice
      /\ Follow(FlagSelection(f)) \in Pages /\ OnPage(FlagSelection(f), Follow(FlagSelection(f)))
  BY <1>2, FlagSelectionOnPage, FollowLands DEF ViewInv
<1>4. UNCHANGED <<decided, view, decision>> /\ detail' = Received
  BY DEF ReceiveFirst
<1>5. ImageInv'
  <2> DEFINE p == Follow(FlagSelection(f))
             pages == IF p = 1 THEN <<1>> ELSE <<1, p>>
  <2>1. p \in Pages /\ 1 \in Pages /\ page' = p /\ LoadImages(pages)
    BY <1>1, <1>3, FlagsHereTypes
  <2> HIDE DEF p
  <2>2. pages \in Seq(Pages) /\ pages # <<>> /\ pages[Len(pages)] = p
    BY <2>1
  <2> HIDE DEF pages
  <2> QED BY <1>4, <2>1, <2>2, LoadKeeps DEF ViewInv
<1>6. ViewTypes'
  BY <1>1, <1>3, <1>4, ReceivedHere DEF ViewInv, ViewTypes, FlagsHere, Choice
<1>7. SelectionOnPage'
  BY <1>1, <1>3, <1>4, FlagsHereTypes DEF SelectionOnPage, OnPage, Choice, FlagsHere
<1> QED BY <1>5, <1>6, <1>7 DEF ViewInv

LEMMA ReceiveAgainKeeps ==
  ASSUME ViewAssumption, ViewInv, ReceiveAgain
  PROVE  ViewInv'
<1>1. UNCHANGED <<decided, view, page, selected, decision>> /\ detail' = Received
  BY DEF ReceiveAgain
<1>2. ImageInv'
  <2>1. CASE detail.failed
    <3>1. LoadImages(<<page>>)
      BY <2>1 DEF ReceiveAgain
    <3>2. page \in Pages
      BY DEF ViewInv, ViewTypes
    <3>3. <<page>> \in Seq(Pages) /\ <<page>> # <<>> /\ <<page>>[Len(<<page>>)] = page
      BY <3>2
    <3> QED BY <1>1, <3>1, <3>3, LoadKeeps DEF ViewInv
  <2>2. CASE ~detail.failed
    BY <1>1, <2>2 DEF ReceiveAgain, imageVars, ViewInv, ImageInv
  <2> QED BY <2>1, <2>2
<1>3. ViewTypes' /\ SelectionOnPage'
  BY <1>1, ReceivedHere DEF ViewInv, ViewTypes, FlagsHere, Choice, SelectionOnPage
<1> QED BY <1>2, <1>3 DEF ViewInv

LEMMA ReceiveFailsKeeps ==
  ASSUME ViewAssumption, ViewInv, ReceiveFails
  PROVE  ViewInv'
<1>1. ImageInv'
  BY UnmountKeeps DEF ReceiveFails, ViewInv
<1>2. ViewTypes' /\ SelectionOnPage'
  BY DEF ReceiveFails, ViewInv, ViewTypes, FlagsHere, Choice, SelectionOnPage
<1> QED BY <1>1, <1>2 DEF ViewInv

\* The flag selected after a decision is of this mount's document.
LEMMA FollowDecisionKeeps ==
  ASSUME ViewAssumption, ViewInv, FollowDecision
  PROVE  ViewInv'
<1>1. decision.next \in FlagsHere \cup {0}
  BY DEF ViewInv, ViewTypes
<1>2. selected' \in Choice /\ page' \in Pages /\ ImageInv' /\ SelectionOnPage'
  BY <1>1, FlagSelectionOnPage, SelectKeepsView DEF FollowDecision
<1> QED BY <1>2 DEF FollowDecision, NoDecision, ViewInv, ViewTypes, FlagsHere, Choice

\* Steps that leave the page, the selection and the images alone.
LEMMA QuietKeeps ==
  ASSUME ViewAssumption, ViewInv, UNCHANGED <<view, page, loads, effect, urls, imageUrl>>,
         selected' \in {selected, Nothing},
         detail' \in {detail, [detail EXCEPT !.loading = TRUE]},
         decision' \in [flag : FlagsHere \cup {0}, next : FlagsHere \cup {0}, committed : BOOLEAN]
  PROVE  ViewInv'
<1>1. ImageInv'
  BY DEF ViewInv, ImageInv
<1>2. ViewTypes'
  <2>1. FlagsHere' = FlagsHere /\ Choice' = Choice
    BY DEF FlagsHere, Choice
  <2>2. Nothing \in Choice
    BY DEF Nothing, Choice
  <2>3. detail' \in [ready : BOOLEAN, loading : BOOLEAN, failed : BOOLEAN, open : SUBSET FlagsHere]
    BY DEF ViewInv, ViewTypes
  <2> QED BY <2>1, <2>2, <2>3 DEF ViewInv, ViewTypes
<1>3. SelectionOnPage'
  BY DEF ViewInv, SelectionOnPage, Nothing
<1> QED BY <1>1, <1>2, <1>3 DEF ViewInv

LEMMA ViewAlways == ViewSpec => []ViewInv
<1>1. ViewInv /\ [ViewNext]_viewVars => ViewInv'
  <2> SUFFICES ASSUME ViewInv, [ViewNext]_viewVars PROVE ViewInv'
    OBVIOUS
  <2> USE ViewAssumption
  <2> DEFINE Decision == [flag : FlagsHere \cup {0}, next : FlagsHere \cup {0}, committed : BOOLEAN]
  <2>1. NoDecision \in Decision /\ decision \in Decision
    BY DEF NoDecision, ViewInv, ViewTypes
  <2>2. CASE UNCHANGED viewVars
    BY <2>1, <2>2, QuietKeeps DEF viewVars
  <2>3. CASE MoveFlag(Later(CurrentFlag)) \/ MoveFlag(Earlier(CurrentFlag))
    BY <2>3, MoveKeeps, NeighboursHere DEF ViewInv
  <2>4. CASE DecideFlag
    <3>1. decision' \in Decision
      <4>1. /\ Later(CurrentFlag) \in FlagsHere \cup {0} /\ Earlier(CurrentFlag) \in FlagsHere \cup {0}
            /\ CurrentFlag \in FlagsHere \cup {0}
        BY NeighboursHere DEF ViewInv
      <4> QED BY <2>4, <4>1 DEF DecideFlag, NoDecision
    <3> QED BY <2>4, <3>1, QuietKeeps DEF DecideFlag
  <2>5. CASE StoreDecision
    <3>1. decision' \in Decision
      BY <2>1, <2>5 DEF StoreDecision
    <3> QED BY <2>5, <3>1, QuietKeeps DEF StoreDecision
  <2>6. CASE Clear \/ Refetch \/ DecisionRefused \/ \E f \in DOMAIN DocFlags \ decided : DecidedElsewhere(f)
    BY <2>1, <2>6, QuietKeeps DEF Clear, Refetch, DecisionRefused, DecidedElsewhere
  <2> HIDE DEF Decision
  <2> QED BY <2>2, <2>3, <2>4, <2>5, <2>6, NavigateKeeps, ReceiveFirstKeeps, ReceiveAgainKeeps,
             ReceiveFailsKeeps, ImageEndsKeeps, SelectRegionKeeps, GoKeeps, FollowDecisionKeeps DEF ViewNext
<1> QED BY <1>1, ViewInitInv, ViewAssumption, PTL DEF ViewSpec

\* However late the images come, the one object URL is the one shown, and of the page and
\* the document on the screen.
THEOREM UrlsAccounted == ViewSpec => []ImageUrlsAccounted
<1>1. ViewInv => ImageUrlsAccounted
  BY DEF ViewInv, ImageInv, ImageUrlsAccounted
<1> QED BY <1>1, ViewAlways, PTL

\* What is selected is on the page shown, also by a late answer to a decision.
THEOREM SelectionShown == ViewSpec => []SelectionOnPage
<1>1. ViewInv => SelectionOnPage
  BY DEF ViewInv
<1> QED BY <1>1, ViewAlways, PTL
===============================================================================
