------------------------------ MODULE ContentProofs ------------------------------
(* What is read from a page, for any page and any text: values and their confidence.    *)
EXTENDS Layout, Entities, Values, Anomalies, FiniteSetTheorems, WellFoundedInduction, TLAPS

-------------------------------------------------------------------------------
(* Values *)

\* An entity is a value of its match, as sure as the match and the text make it.
EntityInv ==
  /\ match \in Matches
  /\ entity # NoEntity =>
       /\ Accepted(match)
       /\ entity.value \in ValuesOf(match)
       /\ entity.ocr \in OcrConfidences
       /\ entity.confidence = Blended(Confidence(match), entity.ocr)

LEMMA EntityInit == ValuesInit => EntityInv
BY DEF ValuesInit, EntityInv

LEMMA EntityNext == EntityInv /\ [ValuesNext]_valueVars => EntityInv'
<1> SUFFICES ASSUME EntityInv, [ValuesNext]_valueVars PROVE EntityInv'
  OBVIOUS
<1>1. CASE UNCHANGED valueVars
  BY <1>1 DEF EntityInv, valueVars
<1>2. CASE Read
  <2>1. match' = match /\ Accepted(match)
    BY <1>2 DEF Read
  <2>2. PICK value \in ValuesOf(match), ocr \in OcrConfidences :
          entity' = [type |-> IF match.kind \in {"word", "numeric"} THEN "date" ELSE "amount",
                     value |-> value, ocr |-> ocr,
                     confidence |-> Blended(Confidence(match), ocr)]
    BY <1>2 DEF Read
  <2> QED BY <2>1, <2>2 DEF EntityInv
<1> QED BY <1>1, <1>2 DEF ValuesNext

LEMMA EntityAlways == ValuesSpec => []EntityInv
BY EntityInit, EntityNext, PTL DEF ValuesSpec

\* What a match of each kind is made of.
LEMMA MatchKinds ==
  ASSUME NEW m \in Matches
  PROVE  /\ m.kind \in {"word", "numeric", "gbp", "sd", "dollar", "dollars"}
         /\ m.kind = "word" => m \in WordDates
         /\ m.kind = "numeric" => m \in NumericDates
         /\ m.kind = "gbp" => m \in Ledger
         /\ m.kind = "sd" => m \in BareLedger
BY DEF Matches, WordDates, NumericDates, Ledger, BareLedger, DollarSigns, SpelledOut

LEMMA ThreeAtMost ==
  ASSUME NEW a, NEW b, NEW c
  PROVE  IsFiniteSet({a, b, c}) /\ Cardinality({a, b, c}) <= 3
<1>1. IsFiniteSet({a}) /\ Cardinality({a}) = 1
  BY FS_Singleton
<1>2. IsFiniteSet({a} \cup {b}) /\ Cardinality({a} \cup {b}) <= 2
  <2>1. /\ IsFiniteSet({a} \cup {b})
        /\ Cardinality({a} \cup {b}) = IF b \in {a} THEN Cardinality({a}) ELSE Cardinality({a}) + 1
    BY <1>1, FS_AddElement
  <2> QED BY <1>1, <2>1
<1>3. IsFiniteSet({a} \cup {b} \cup {c}) /\ Cardinality({a} \cup {b} \cup {c}) <= 3
  <2> DEFINE S == {a} \cup {b}
  <2>1. IsFiniteSet(S) /\ Cardinality(S) <= 2 /\ Cardinality(S) \in Nat
    BY <1>2, FS_CardinalityType
  <2> HIDE DEF S
  <2>2. /\ IsFiniteSet(S \cup {c})
        /\ Cardinality(S \cup {c}) = IF c \in S THEN Cardinality(S) ELSE Cardinality(S) + 1
    BY <2>1, FS_AddElement
  <2>3. Cardinality(S \cup {c}) <= 3
    BY <2>1, <2>2
  <2> QED BY <2>2, <2>3 DEF S
<1>4. {a} \cup {b} \cup {c} = {a, b, c}
  OBVIOUS
<1> QED BY <1>3, <1>4

\* Digits read without letters are clean already.
LEMMA CleanRun ==
  ASSUME NEW V, NEW U, NEW d \in DigitRuns(V, U)
  PROVE  /\ [d EXCEPT !.misread = FALSE] \in DigitRuns(V, U)
         /\ ~d.misread => [d EXCEPT !.misread = FALSE] = d
<1>1. d.misread \in BOOLEAN
  BY DEF DigitRuns
<1>2. d = [value |-> d.value, misread |-> d.misread, unread |-> d.unread]
  BY DEF DigitRuns
<1>3. [d EXCEPT !.misread = FALSE] = [value |-> d.value, misread |-> FALSE, unread |-> d.unread]
  <2>1. \A B : \A e \in [value : V, misread : B, unread : U] : \A f \in B :
          [e EXCEPT !.misread = f] = [value |-> e.value, misread |-> f, unread |-> e.unread]
    OBVIOUS
  <2>2. d \in [value : V, misread : BOOLEAN, unread : U] /\ FALSE \in BOOLEAN
    BY DEF DigitRuns
  <2> DEFINE B == BOOLEAN
             f == FALSE
  <2>3. d \in [value : V, misread : B, unread : U] /\ f \in B
    BY <2>2
  <2> HIDE DEF B, f
  <2>4. [d EXCEPT !.misread = f] = [value |-> d.value, misread |-> f, unread |-> d.unread]
    BY <2>1, <2>3
  <2> QED BY <2>4 DEF f
<1>4. ~d.misread => d.misread = FALSE
  BY <1>1
<1> QED BY <1>2, <1>3, <1>4 DEF DigitRuns

\* The parts of a word date that were misread.
Faulty(m) ==
  {part \in {"month", "day", "year"} : IF part = "month" THEN ~m.exact ELSE m[part].misread}

LEMMA FaultyCount ==
  ASSUME NEW m \in WordDates
  PROVE  /\ Cardinality(Faulty(m)) \in 0..3
         /\ Faulty(m) = {} => Cardinality(Faulty(m)) = 0
         /\ Faulty(m) # {} => Cardinality(Faulty(m)) > 0
<1>1. /\ IsFiniteSet({"month", "day", "year"})
      /\ Cardinality({"month", "day", "year"}) <= 3
  BY ThreeAtMost
<1>2. Faulty(m) \subseteq {"month", "day", "year"}
  BY DEF Faulty
<1>3. /\ IsFiniteSet(Faulty(m))
      /\ Cardinality(Faulty(m)) <= Cardinality({"month", "day", "year"})
  BY <1>1, <1>2, FS_Subset
<1>4. Cardinality(Faulty(m)) \in Nat /\ Cardinality({"month", "day", "year"}) \in Nat
  BY <1>1, <1>3, FS_CardinalityType
<1>5. Cardinality(Faulty(m)) = 0 <=> Faulty(m) = {}
  BY <1>3, FS_EmptySet
<1> QED BY <1>1, <1>3, <1>4, <1>5

\* A match has a confidence in percent, and what was misread lowers it.
LEMMA Sureness ==
  ASSUME NEW m \in Matches
  PROVE  /\ Confidence(m) \in 0..100 /\ Confidence(Clean(m)) \in 0..100
         /\ m # Clean(m) => Confidence(m) < Confidence(Clean(m))
<1>1. CASE m.kind = "word"
  <2>1. m \in WordDates
    BY <1>1, MatchKinds
  <2> DEFINE c == Clean(m)
  <2>2. c = [m EXCEPT !.day.misread = FALSE, !.year.misread = FALSE, !.exact = TRUE]
    BY <1>1 DEF Clean
  <2>3. c.kind = "word" /\ c.exact /\ ~c.day.misread /\ ~c.year.misread
    BY <2>1, <2>2 DEF WordDates, DigitRuns
  <2>o. /\ c = [kind |-> m.kind, day |-> [m.day EXCEPT !.misread = FALSE], month |-> m.month,
                exact |-> TRUE, year |-> [m.year EXCEPT !.misread = FALSE]]
        /\ m = [kind |-> m.kind, day |-> m.day, month |-> m.month, exact |-> m.exact,
                year |-> m.year]
        /\ m.day \in DigitRuns(Days, BOOLEAN) /\ m.year \in DigitRuns(Years, BOOLEAN)
        /\ m.exact \in BOOLEAN /\ m.month \in Months \cup {0}
    BY <2>1, <2>2 DEF WordDates
  <2>4. c \in WordDates
    BY <1>1, <2>o, CleanRun DEF WordDates
  <2>5. Faulty(c) = {}
    BY <2>3 DEF Faulty
  <2>6. Faulty(m) = {} => m = c
    <3> SUFFICES ASSUME Faulty(m) = {} PROVE m = c
      OBVIOUS
    <3>1. m.exact /\ ~m.day.misread /\ ~m.year.misread
      BY DEF Faulty
    <3>2. m.exact = TRUE
      BY <2>o, <3>1
    <3>3. [m.day EXCEPT !.misread = FALSE] = m.day /\ [m.year EXCEPT !.misread = FALSE] = m.year
      BY <2>o, <3>1, CleanRun
    <3> HIDE DEF c
    <3> QED BY <2>o, <3>2, <3>3
  <2> HIDE DEF c
  <2>7. Confidence(m) = 92 - 15 * Cardinality(Faulty(m))
    BY <1>1 DEF Confidence, Faulty
  <2>8. Confidence(c) = 92 - 15 * Cardinality(Faulty(c))
    BY <2>3 DEF Confidence, Faulty
  <2>9. /\ Confidence(m) \in 0..100 /\ Confidence(c) \in 0..100
        /\ m # c => Confidence(m) < Confidence(c)
    BY <2>1, <2>4, <2>5, <2>6, <2>7, <2>8, FaultyCount
  <2> QED BY <2>9 DEF c
<1>2. CASE m.kind = "numeric"
  <2>1. m \in NumericDates
    BY <1>2, MatchKinds
  <2>2. Clean(m) = [m EXCEPT !.day.misread = FALSE, !.year.misread = FALSE, !.month.misread = FALSE]
    BY <1>2 DEF Clean
  <2>3. /\ Clean(m).kind = "numeric" /\ ~Clean(m).day.misread /\ ~Clean(m).month.misread
        /\ ~Clean(m).year.misread
    BY <2>1, <2>2 DEF NumericDates, DigitRuns
  <2>o. /\ Clean(m) = [kind |-> m.kind, day |-> [m.day EXCEPT !.misread = FALSE],
                       month |-> [m.month EXCEPT !.misread = FALSE],
                       year |-> [m.year EXCEPT !.misread = FALSE]]
        /\ m = [kind |-> m.kind, day |-> m.day, month |-> m.month, year |-> m.year]
        /\ m.day \in DigitRuns(Days, {FALSE}) /\ m.month \in DigitRuns(Months, {FALSE})
        /\ m.year \in DigitRuns(Years, {FALSE})
    BY <2>1, <2>2 DEF NumericDates
  <2>4. ~m.day.misread /\ ~m.month.misread /\ ~m.year.misread => m = Clean(m)
    BY <2>o, CleanRun
  <2>5. \A p \in {"month", "day", "year"} : ~Clean(m)[p].misread
    BY <2>3
  <2>6. Confidence(Clean(m)) = 85
    BY <2>3, <2>5 DEF Confidence
  <2>7. Confidence(m) \in {70, 85} /\ (m # Clean(m) => Confidence(m) = 70)
    BY <1>2, <2>4 DEF Confidence
  <2> QED BY <2>6, <2>7
<1>3. CASE m.kind = "gbp"
  <2>1. m \in Ledger
    BY <1>3, MatchKinds
  <2>2. Clean(m) = [m EXCEPT !.pounds.misread = FALSE]
    BY <1>3 DEF Clean
  <2>3. Clean(m).kind = "gbp" /\ ~Clean(m).pounds.misread
    BY <2>1, <2>2 DEF Ledger, DigitRuns
  <2>4. ~m.pounds.misread => m = Clean(m)
    BY <2>1, <2>2 DEF Ledger, DigitRuns
  <2> QED BY <1>3, <2>3, <2>4 DEF Confidence
<1>4. CASE m.kind \in {"sd", "dollar", "dollars"}
  <2>1. Clean(m) = m
    BY <1>4 DEF Clean
  <2>2. Confidence(m) \in {60, 85, 95}
    BY <1>4 DEF Confidence
  <2> QED BY <2>1, <2>2
<1> QED BY <1>1, <1>2, <1>3, <1>4, MatchKinds

\* Letters read as digits change what is believed of a value, not the value.
LEMMA SameValue ==
  ASSUME NEW m \in Matches
  PROVE  (Accepted(Clean(m)) <=> Accepted(m)) /\ ValuesOf(Clean(m)) = ValuesOf(m)
<1>1. CASE m.kind = "word"
  <2>1. m \in WordDates
    BY <1>1, MatchKinds
  <2>2. Clean(m) = [m EXCEPT !.day.misread = FALSE, !.year.misread = FALSE, !.exact = TRUE]
    BY <1>1 DEF Clean
  <2>3. /\ Clean(m).kind = "word" /\ Clean(m).month = m.month
        /\ Clean(m).day.value = m.day.value /\ Clean(m).day.unread = m.day.unread
        /\ Clean(m).year.value = m.year.value /\ Clean(m).year.unread = m.year.unread
    BY <2>1, <2>2 DEF WordDates, DigitRuns
  <2> QED BY <1>1, <2>3 DEF Accepted, ValuesOf
<1>2. CASE m.kind = "numeric"
  <2>1. m \in NumericDates
    BY <1>2, MatchKinds
  <2>2. Clean(m) = [m EXCEPT !.day.misread = FALSE, !.year.misread = FALSE, !.month.misread = FALSE]
    BY <1>2 DEF Clean
  <2>3. /\ Clean(m).kind = "numeric" /\ Clean(m).day.value = m.day.value
        /\ Clean(m).month.value = m.month.value /\ Clean(m).year.value = m.year.value
    BY <2>1, <2>2 DEF NumericDates, DigitRuns
  <2> QED BY <1>2, <2>3 DEF Accepted, ValuesOf
<1>3. CASE m.kind = "gbp"
  <2>1. m \in Ledger
    BY <1>3, MatchKinds
  <2>2. Clean(m) = [m EXCEPT !.pounds.misread = FALSE]
    BY <1>3 DEF Clean
  <2>3. /\ Clean(m).kind = "gbp" /\ Clean(m).pounds.value = m.pounds.value
        /\ Clean(m).shillings = m.shillings /\ Clean(m).pence = m.pence
    BY <2>1, <2>2 DEF Ledger, DigitRuns
  <2>4. Sum(Clean(m)) = Sum(m)
    BY <1>3, <2>3 DEF Sum
  <2>5. Cents(Clean(m)) = Cents(m)
    BY <2>4 DEF Cents
  <2> QED BY <1>3, <2>3, <2>5 DEF Accepted, ValuesOf
<1>4. CASE m.kind \in {"sd", "dollar", "dollars"}
  BY <1>4 DEF Clean
<1> QED BY <1>1, <1>2, <1>3, <1>4, MatchKinds

LEMMA Scaled ==
  ASSUME NEW a \in Nat, NEW b \in Nat, NEW n \in Nat
  PROVE  /\ a <= b => a * n <= b * n
         /\ a < b /\ n > 0 => a * n < b * n
<1>1. a <= b => a * n <= b * n
  <2> SUFFICES ASSUME a <= b PROVE a * n <= b * n
    OBVIOUS
  <2>1. b * n = a * n + (b - a) * n
    OBVIOUS
  <2>2. (b - a) * n \in Nat
    OBVIOUS
  <2> QED BY <2>1, <2>2
<1>2. a < b /\ n > 0 => a * n < b * n
  <2> SUFFICES ASSUME a < b, n > 0 PROVE a * n < b * n
    OBVIOUS
  <2>1. b * n = a * n + (b - a) * n
    OBVIOUS
  <2>2. (b - a) * n > 0
    OBVIOUS
  <2> QED BY <2>1, <2>2
<1> QED BY <1>1, <1>2

\* No value is surer than its text, and what was read from misread letters is the value of
\* the clean text, with less confidence.
THEOREM MisreadsLessSure == ValuesSpec => []MisreadNeverSurer
<1>1. EntityInv => MisreadNeverSurer
  <2> SUFFICES ASSUME EntityInv, entity # NoEntity
               PROVE  /\ entity.confidence <= 100 * entity.ocr
                      /\ Accepted(Clean(match)) /\ entity.value \in ValuesOf(Clean(match))
                      /\ match # Clean(match) /\ entity.ocr > 0 =>
                           entity.confidence < Blended(Confidence(Clean(match)), entity.ocr)
    BY DEF MisreadNeverSurer
  <2>1. /\ match \in Matches /\ Accepted(match) /\ entity.value \in ValuesOf(match)
        /\ entity.ocr \in 0..100
        /\ entity.confidence = Confidence(match) * entity.ocr
    BY ValuesAssumption DEF EntityInv, Blended
  <2>2. Confidence(match) \in 0..100 /\ Confidence(Clean(match)) \in 0..100
    BY <2>1, Sureness
  <2>3. entity.confidence <= 100 * entity.ocr
    <3>1. PICK a \in Nat, n \in Nat : a = Confidence(match) /\ n = entity.ocr /\ a <= 100
      <4>1. Confidence(match) \in Nat /\ entity.ocr \in Nat /\ Confidence(match) <= 100
        BY <2>1, <2>2
      <4> QED BY <4>1
    <3>2. a * n <= 100 * n
      BY <3>1, Scaled
    <3> QED BY <2>1, <3>1, <3>2
  <2>4. Accepted(Clean(match)) /\ entity.value \in ValuesOf(Clean(match))
    BY <2>1, SameValue
  <2>5. ASSUME match # Clean(match), entity.ocr > 0
        PROVE  entity.confidence < Confidence(Clean(match)) * entity.ocr
    <3>1. Confidence(match) < Confidence(Clean(match))
      BY <2>1, <2>5, Sureness
    <3>2. Confidence(match) * entity.ocr < Confidence(Clean(match)) * entity.ocr
      <4>1. PICK a \in Nat, b \in Nat, n \in Nat :
              a = Confidence(match) /\ b = Confidence(Clean(match)) /\ n = entity.ocr
        <5>1. /\ Confidence(match) \in Nat /\ Confidence(Clean(match)) \in Nat
              /\ entity.ocr \in Nat
          BY <2>1, <2>2
        <5> QED BY <5>1
      <4> QED BY <2>5, <3>1, <4>1, Scaled
    <3> QED BY <2>1, <3>2
  <2> QED BY <2>3, <2>4, <2>5 DEF Blended
<1> QED BY <1>1, EntityAlways, PTL

LEMMA SumType ==
  ASSUME NEW m \in Ledger \cup BareLedger
  PROVE  Sum(m) \in Nat
<1>1. CASE m \in Ledger
  <2>1. m.pounds.value \in Nat /\ m.shillings \in Nat /\ m.pence \in Nat /\ m.kind = "gbp"
    BY <1>1, ValuesAssumption DEF Ledger, DigitRuns
  <2> QED BY <2>1 DEF Sum
<1>2. CASE m \in BareLedger
  <2>1. m.shillings \in Nat /\ m.pence \in Nat /\ m.kind = "sd"
    BY <1>2, ValuesAssumption DEF BareLedger
  <2> QED BY <2>1 DEF Sum
<1> QED BY <1>1, <1>2

\* A penny is 10/24 of a cent: rounding keeps the order of sums, and three pence tell.
LEMMA CentsOrder ==
  ASSUME NEW l, NEW m, Sum(l) \in Nat, Sum(m) \in Nat,
         NEW a \in Cents(l), NEW b \in Cents(m)
  PROVE  /\ Sum(m) > Sum(l) => b >= a
         /\ Sum(m) >= Sum(l) + 3 => b > a
<1>1. PICK s \in Nat, t \in Nat : s = Sum(l) /\ t = Sum(m)
  OBVIOUS
<1>2. a \in {(10 * s + 12) \div 24, (10 * s + 11) \div 24}
  BY <1>1 DEF Cents
<1>3. b \in {(10 * t + 12) \div 24, (10 * t + 11) \div 24}
  BY <1>1 DEF Cents
<1> QED BY <1>1, <1>2, <1>3

\* In cents the sums of a ledger keep their order, and three pence are never lost.
THEOREM LedgerInOrder == ValuesSpec => []LedgerOrderKept
<1>1. EntityInv => LedgerOrderKept
  <2> SUFFICES ASSUME EntityInv, entity # NoEntity, match.kind \in {"gbp", "sd"},
                      NEW m \in Ledger \cup BareLedger, NEW cents \in Cents(m)
               PROVE  /\ Sum(m) > Sum(match) => cents >= entity.value[2]
                      /\ Sum(m) >= Sum(match) + 3 => cents > entity.value[2]
    BY DEF LedgerOrderKept
  <2>1. match \in Ledger \cup BareLedger
    BY MatchKinds DEF EntityInv
  <2>2. entity.value[2] \in Cents(match)
    BY DEF EntityInv, ValuesOf
  <2> QED BY <2>1, <2>2, SumType, CentsOrder
<1> QED BY <1>1, EntityAlways, PTL

-------------------------------------------------------------------------------
(* What filter_spans keeps *)

Below(S) == {p \in S \X S : p[1] < p[2]}

LEMMA LeastNatural ==
  ASSUME NEW S \in SUBSET Nat, S # {}
  PROVE  \E least \in S : \A n \in S : least <= n
<1>1. IsWellFoundedOn(Below(Nat), Nat)
  BY NatLessThanWellFounded DEF OpToRel, Below
<1>2. PICK least \in S : \A n \in S : <<n, least>> \notin Below(Nat)
  BY <1>1, WFMin
<1>3. ASSUME NEW n \in S PROVE least <= n
  <2>1. n \in Nat /\ least \in Nat
    OBVIOUS
  <2>2. ~(n < least)
    BY <1>2, <2>1 DEF Below
  <2> QED BY <2>1, <2>2
<1> QED BY <1>3

\* Numbers that go up along a relation.
Rises(rank, relation, S, bound) ==
  /\ rank \in [S -> 0..bound]
  /\ \A k, s \in S : <<k, s>> \in relation => rank[k] < rank[s]

\* Where each thing is kept unless it clashes with one kept before, what is kept is well
\* defined.
LEMMA KeptExists ==
  ASSUME NEW S, NEW Clash, NEW bound \in Nat, NEW rank, Rises(rank, Clash, S, bound)
  PROVE  \E kept \in SUBSET S :
           \A s \in S : s \in kept <=> \A k \in kept : <<k, s>> \notin Clash
<1>0. rank \in [S -> 0..bound] /\ \A k, s \in S : <<k, s>> \in Clash => rank[k] < rank[s]
  BY DEF Rises
<1> DEFINE Upto(n) == {s \in S : rank[s] < n}
           Right(n, kept) ==
             /\ kept \subseteq Upto(n)
             /\ \A s \in Upto(n) : s \in kept <=> \A k \in kept : <<k, s>> \notin Clash
           Wrong == {n \in Nat : \A kept \in SUBSET S : ~Right(n, kept)}
<1>1. Wrong = {}
  <2> SUFFICES ASSUME Wrong # {} PROVE FALSE
    OBVIOUS
  <2>1. PICK n \in Wrong : \A m \in Wrong : n <= m
    <3>1. Wrong \in SUBSET Nat
      OBVIOUS
    <3> HIDE DEF Wrong
    <3> QED BY <3>1, LeastNatural
  <2>2. n # 0
    <3>1. Upto(0) = {}
      BY <1>0
    <3>2. Right(0, {})
      BY <3>1
    <3> QED BY <3>2
  <2>3. n \in Nat /\ n - 1 \in Nat /\ n - 1 \notin Wrong
    BY <2>1, <2>2
  <2>4. PICK kept \in SUBSET S : Right(n - 1, kept)
    BY <2>3
  <2> DEFINE added == {s \in S : rank[s] = n - 1 /\ \A k \in kept : <<k, s>> \notin Clash}
             more == kept \cup added
  <2>5. \A k \in kept : rank[k] < n - 1
    BY <2>4
  <2>6. ASSUME NEW s \in Upto(n)
        PROVE  s \in more <=> \A k \in more : <<k, s>> \notin Clash
    <3>1. rank[s] \in Nat /\ rank[s] <= n - 1
      BY <1>0, <2>3
    <3>2. \A k \in added : <<k, s>> \notin Clash
      <4>1. \A k \in added : k \in S /\ ~(rank[k] < rank[s])
        BY <2>3, <3>1
      <4> QED BY <1>0, <4>1
    <3>3. CASE rank[s] < n - 1
      <4>1. s \in more <=> s \in kept
        BY <2>3, <3>1, <3>3
      <4> QED BY <2>4, <3>2, <3>3, <4>1
    <3>4. CASE rank[s] = n - 1
      <4>1. s \notin kept
        BY <2>3, <2>5, <3>4
      <4> QED BY <3>2, <3>4, <4>1
    <3> QED BY <2>3, <3>1, <3>3, <3>4
  <2>7. more \subseteq Upto(n)
    BY <1>0, <2>3, <2>5
  <2>8. more \in SUBSET S /\ Right(n, more)
    BY <2>6, <2>7
  <2> QED BY <2>8
<1>2. bound + 1 \in Nat
  OBVIOUS
<1>3. PICK kept \in SUBSET S : Right(bound + 1, kept)
  <2> HIDE DEF Right
  <2> QED BY <1>1, <1>2
<1>4. \A s \in S : s \in Upto(bound + 1)
  BY <1>0
<1> QED BY <1>3, <1>4

\* And nothing else answers to the same description.
LEMMA KeptUnique ==
  ASSUME NEW S, NEW Clash, NEW bound \in Nat, NEW rank, Rises(rank, Clash, S, bound),
         NEW one \in SUBSET S, \A s \in S : s \in one <=> \A k \in one : <<k, s>> \notin Clash,
         NEW other \in SUBSET S,
         \A s \in S : s \in other <=> \A k \in other : <<k, s>> \notin Clash
  PROVE  one = other
<1>0. rank \in [S -> 0..bound] /\ \A k, s \in S : <<k, s>> \in Clash => rank[k] < rank[s]
  BY DEF Rises
<1> DEFINE Apart == {s \in S : ~(s \in one <=> s \in other)}
           Ranks == {rank[s] : s \in Apart}
<1>1. Apart = {}
  <2> SUFFICES ASSUME Apart # {} PROVE FALSE
    OBVIOUS
  <2>1. Ranks \in SUBSET Nat /\ Ranks # {}
    BY <1>0
  <2>2. PICK least \in Ranks : \A n \in Ranks : least <= n
    <3> HIDE DEF Ranks
    <3> QED BY <2>1, LeastNatural
  <2>3. PICK s \in Apart : least = rank[s]
    BY <2>2
  <2>4. ASSUME NEW k \in S, <<k, s>> \in Clash
        PROVE  k \in one <=> k \in other
    <3>1. rank[k] < rank[s] /\ rank[k] \in Nat /\ rank[s] \in Nat
      BY <1>0, <2>4
    <3>2. k \in Apart => rank[s] <= rank[k]
      BY <2>2, <2>3
    <3> QED BY <3>1, <3>2
  <2>5. (\A k \in one : <<k, s>> \notin Clash) <=> (\A k \in other : <<k, s>> \notin Clash)
    BY <2>4
  <2> QED BY <2>5
<1> QED BY <1>1

LEMMA SpanEnds ==
  ASSUME NEW s, At(s) \in Spans
  PROVE  /\ s.first \in 1..TokenCount /\ s.last \in 1..TokenCount /\ s.first <= s.last
         /\ Length(s) \in 0..(TokenCount - 1)
         /\ TokenCount \in Nat
<1>1. At(s).first = s.first /\ At(s).last = s.last
  BY DEF At
<1>2. TokenCount \in Nat
  BY EntitiesAssumption
<1>3. s.first \in 1..TokenCount /\ s.last \in 1..TokenCount /\ s.first <= s.last
  BY <1>1 DEF Spans
<1> QED BY <1>2, <1>3 DEF Length

\* The sort of filter_spans as a number: twice the tokens and one are more than the ends
\* of equally long spans can tell apart.
LEMMA SpanRank ==
  ASSUME NEW S, NEW A, \A s \in S : At(s) \in Spans
  PROVE  \E bound \in Nat : \E rank \in [S -> 0..bound] :
           \A k, s \in S : Precedes(k, s, A) => rank[k] < rank[s]
<1> DEFINE N == TokenCount
           M == 2 * N + 2
           Tie(s) == 2 * s.first + (IF s \in A THEN 0 ELSE 1)
           Rank(s) == (N - Length(s)) * M + Tie(s)
           bound == N * M + M
<1>0. N \in Nat /\ M \in Nat
  BY EntitiesAssumption
<1>1. \A s \in S : N - Length(s) \in 0..N /\ Tie(s) \in Nat /\ Tie(s) < M
  <2> SUFFICES ASSUME NEW s \in S PROVE N - Length(s) \in 0..N /\ Tie(s) \in Nat /\ Tie(s) < M
    OBVIOUS
  <2>1. s.first \in 1..N /\ Length(s) \in 0..(N - 1)
    BY SpanEnds
  <2> QED BY <1>0, <2>1
<1>2. \A a \in 0..N : a * M \in Nat /\ a * M <= N * M
  BY <1>0, Scaled
<1>3. \A a, b \in 0..N : a < b => a * M + M <= b * M
  <2> SUFFICES ASSUME NEW a \in 0..N, NEW b \in 0..N, a < b PROVE a * M + M <= b * M
    OBVIOUS
  <2>1. (a + 1) * M = a * M + M
    BY <1>0
  <2>2. (a + 1) * M <= b * M
    BY <1>0, Scaled
  <2> QED BY <2>1, <2>2
<1> HIDE DEF M
<1>4. bound \in Nat
  BY <1>0, <1>2
<1>5. \A s \in S : Rank(s) \in 0..bound
  <2> SUFFICES ASSUME NEW s \in S PROVE Rank(s) \in 0..bound
    OBVIOUS
  <2>1. (N - Length(s)) * M \in Nat /\ (N - Length(s)) * M <= N * M
    BY <1>1, <1>2
  <2>2. Tie(s) \in Nat /\ Tie(s) < M /\ N * M \in Nat
    BY <1>0, <1>1, <1>2
  <2> HIDE DEF Tie
  <2> QED BY <1>0, <2>1, <2>2
<1>6. ASSUME NEW k \in S, NEW s \in S, Precedes(k, s, A) PROVE Rank(k) < Rank(s)
  <2>0. /\ N - Length(k) \in 0..N /\ N - Length(s) \in 0..N
        /\ Length(k) \in 0..(N - 1) /\ Length(s) \in 0..(N - 1)
        /\ k.first \in 1..N /\ s.first \in 1..N
    BY <1>1, SpanEnds
  <2>t. Tie(k) \in Nat /\ Tie(k) < M /\ Tie(s) \in Nat
    BY <1>1
  <2>1. CASE Length(k) > Length(s)
    <3>1. N - Length(k) < N - Length(s)
      BY <1>0, <2>0, <2>1
    <3>2. (N - Length(k)) * M + M <= (N - Length(s)) * M
      BY <1>3, <2>0, <3>1
    <3>3. (N - Length(k)) * M \in Nat /\ (N - Length(s)) * M \in Nat
      BY <1>2, <2>0
    <3> HIDE DEF Tie
    <3> QED BY <1>0, <2>t, <3>2, <3>3
  <2>2. CASE Length(k) = Length(s)
    <3>1. Tie(k) < Tie(s)
      BY <2>0, <1>6, <2>2 DEF Precedes
    <3>2. (N - Length(k)) * M \in Nat
      BY <1>2, <2>0
    <3> HIDE DEF Tie
    <3> QED BY <2>2, <2>t, <3>1, <3>2
  <2> QED BY <1>6, <2>1, <2>2 DEF Precedes
<1> DEFINE rank == [s \in S |-> Rank(s)]
<1> HIDE DEF Rank, bound
<1>7. rank \in [S -> 0..bound] /\ \A k, s \in S : Precedes(k, s, A) => rank[k] < rank[s]
  BY <1>5, <1>6
<1> QED BY <1>4, <1>7

\* filter_spans: to keep a span unless one kept before it holds one of its ends, longer ones
\* first, leaves one set to keep and no other.
THEOREM FilterGreedy ==
  ASSUME NEW S, NEW A, \A s \in S : At(s) \in Spans
  PROVE  /\ FilterSpans(S, A) \in SUBSET S
         /\ \A kept \in SUBSET S :
              kept = FilterSpans(S, A) <=>
                \A s \in S :
                  s \in kept <=>
                    \A k \in kept : Precedes(k, s, A) => {s.first, s.last} \cap Tokens(k) = {}
<1> DEFINE Clash == {p \in S \X S :
                       Precedes(p[1], p[2], A) /\ {p[2].first, p[2].last} \cap Tokens(p[1]) # {}}
           Right(K) == \A s \in S :
             s \in K <=> \A k \in K : Precedes(k, s, A) => {s.first, s.last} \cap Tokens(k) = {}
<1>0. PICK bound \in Nat : \E rank \in [S -> 0..bound] :
        \A k, s \in S : Precedes(k, s, A) => rank[k] < rank[s]
  BY SpanRank
<1>1. PICK rank \in [S -> 0..bound] :
        \A k, s \in S : Precedes(k, s, A) => rank[k] < rank[s]
  BY <1>0
<1>2. \A k, s \in S :
        <<k, s>> \in Clash <=> Precedes(k, s, A) /\ {s.first, s.last} \cap Tokens(k) # {}
  OBVIOUS
<1>3. Rises(rank, Clash, S, bound)
  <2>1. \A k, s \in S : <<k, s>> \in Clash => rank[k] < rank[s]
    BY <1>1, <1>2
  <2> HIDE DEF Clash
  <2> QED BY <1>1, <2>1 DEF Rises
<1>4. \A K \in SUBSET S :
        Right(K) <=> \A s \in S : s \in K <=> \A k \in K : <<k, s>> \notin Clash
  <2> HIDE DEF Clash
  <2> QED BY <1>2
<1>5. FilterSpans(S, A) \in SUBSET S /\ Right(FilterSpans(S, A))
  <2>1. \E K \in SUBSET S : \A s \in S : s \in K <=> \A k \in K : <<k, s>> \notin Clash
    <3> HIDE DEF Clash
    <3> QED BY <1>0, <1>3, KeptExists
  <2>2. \E K \in SUBSET S : Right(K)
    <3> HIDE DEF Clash, Right
    <3> QED BY <1>4, <2>1
  <2> QED BY <2>2 DEF FilterSpans
<1>6. ASSUME NEW kept \in SUBSET S, Right(kept) PROVE kept = FilterSpans(S, A)
  <2> HIDE DEF Clash, Right
  <2>1. \A s \in S : s \in kept <=> \A k \in kept : <<k, s>> \notin Clash
    BY <1>4, <1>6
  <2>2. \A s \in S : s \in FilterSpans(S, A) <=> \A k \in FilterSpans(S, A) : <<k, s>> \notin Clash
    BY <1>4, <1>5
  <2> QED BY <1>0, <1>3, <1>5, <2>1, <2>2, KeptUnique
<1> QED BY <1>5, <1>6

\* What is kept overlaps nothing else that is kept, and what is dropped overlaps something
\* at least as long: to look at the ends of a span is enough when longer ones come first.
LEMMA Filtered ==
  ASSUME NEW S, NEW A, \A s \in S : At(s) \in Spans
  PROVE  /\ FilterSpans(S, A) \subseteq S
         /\ \A s \in S \ FilterSpans(S, A) :
              \E k \in FilterSpans(S, A) : Precedes(k, s, A) /\ Overlaps(k, s)
         /\ \A s, t \in FilterSpans(S, A) :
              Overlaps(s, t) => At(s) = At(t) /\ (s \in A <=> t \in A)
<1> DEFINE K == FilterSpans(S, A)
<1>5. /\ K \in SUBSET S
      /\ \A s \in S : s \in K <=>
          \A k \in K : Precedes(k, s, A) => {s.first, s.last} \cap Tokens(k) = {}
  BY FilterGreedy
<1> HIDE DEF K
<1>6. ASSUME NEW s \in S, s \notin K
      PROVE  \E k \in K : Precedes(k, s, A) /\ Overlaps(k, s)
  <2>1. PICK k \in K : Precedes(k, s, A) /\ {s.first, s.last} \cap Tokens(k) # {}
    BY <1>5, <1>6
  <2>2. s.first \in Tokens(s) /\ s.last \in Tokens(s)
    BY SpanEnds DEF Tokens
  <2> QED BY <2>1, <2>2 DEF Overlaps
\* The shorter of two that overlap has an end in the longer.
<1>7. ASSUME NEW k \in S, NEW s \in S, Precedes(k, s, A), Overlaps(k, s)
      PROVE  {s.first, s.last} \cap Tokens(k) # {}
  <2>1. /\ k.first \in Int /\ k.last \in Int /\ k.first <= k.last
        /\ s.first \in Int /\ s.last \in Int /\ s.first <= s.last
    BY SpanEnds
  <2>2. Length(k) >= Length(s)
    BY <2>1, <1>7 DEF Precedes, Length
  <2>3. PICK n \in Int : n >= k.first /\ n <= k.last /\ n >= s.first /\ n <= s.last
    BY <1>7, <2>1 DEF Overlaps, Tokens
  <2>4. k.last - k.first >= s.last - s.first
    BY <2>2 DEF Length
  <2>5. s.first \in k.first..k.last \/ s.last \in k.first..k.last
    BY <2>1, <2>3, <2>4
  <2> QED BY <2>5 DEF Tokens
<1>8. ASSUME NEW s \in K, NEW t \in K, Overlaps(s, t)
      PROVE  At(s) = At(t) /\ (s \in A <=> t \in A)
  <2>0. s \in S /\ t \in S /\ Overlaps(t, s)
    BY <1>5, <1>8 DEF Overlaps
  <2>1. ~Precedes(s, t, A) /\ ~Precedes(t, s, A)
    BY <1>5, <1>7, <1>8, <2>0
  <2>2. /\ s.first \in Int /\ s.last \in Int /\ t.first \in Int /\ t.last \in Int
    BY <2>0, SpanEnds
  <2>3. s.first = t.first /\ s.last = t.last /\ (s \in A <=> t \in A)
    BY <2>1, <2>2 DEF Precedes, Length
  <2> QED BY <2>3 DEF At
<1>9. K \subseteq S
  BY <1>5
<1> QED BY <1>6, <1>8, <1>9 DEF K

-------------------------------------------------------------------------------
(* Entities *)

\* The one way to a date with an amount's value.
Overwritten(e) ==
  \E c, d \in {p \in proposed : p.label = "CURRENCY"} : \E t \in ents :
    /\ At(c) = At(e) /\ c # d /\ Overlaps(c, d) /\ Length(d) >= Length(c)
    /\ ~Overlaps(t, e) /\ Overlaps(t, d) /\ Length(t) >= Length(d)

\* Of the document's spans, and what is dropped of those proposed.
SpansInv ==
  /\ ents \subseteq proposed
  /\ \A p \in proposed : At(p) \in Spans /\ p = Labelled(p, p.label)
  /\ DOMAIN parsed = Spans
  /\ DroppedForLonger

\* Whose value a range has at each point of spaCy's pipeline: no ruler's label is there
\* before the ruler has run.
ParsedInv ==
  /\ component = "historical_date_ruler" =>
       \A p \in proposed : p.label \notin {"HIST_DATE", "CURRENCY"}
  /\ component = "currency_ruler" =>
       /\ \A p \in proposed : p.label # "CURRENCY"
       /\ \A e \in ents : e.label = "HIST_DATE" => parsed[At(e)] = "iso"
  /\ component \in {"extract", "done"} =>
       \A e \in ents :
         /\ e.label = "CURRENCY" => parsed[At(e)] = "normalized"
         /\ e.label = "HIST_DATE" => parsed[At(e)] = "iso" \/ Overwritten(e)
  /\ component \in {"historical_date_ruler", "currency_ruler", "extract", "done"}
  /\ component # "done" => entities = {}
  /\ ParseIsOwn

EntitiesInv == SpansInv /\ ParsedInv

LEMMA LabelledSpan ==
  ASSUME NEW s, NEW label, At(s) \in Spans
  PROVE  /\ At(Labelled(s, label)) = At(s)
         /\ At(Labelled(s, label)) \in Spans
         /\ Labelled(s, label).label = label
         /\ Labelled(s, label) = Labelled(Labelled(s, label), Labelled(s, label).label)
         /\ Overlaps(s, s)
<1>1. Overlaps(s, s)
  <2>1. s.first \in Tokens(s)
    BY SpanEnds DEF Tokens
  <2> QED BY <2>1 DEF Overlaps
<1> QED BY <1>1 DEF At, Labelled

LEMMA SpanItself ==
  ASSUME NEW s \in Spans
  PROVE  At(s) = s
BY DEF At, Spans

\* Whether spans overlap and how long they are is a matter of their tokens.
LEMMA SameRange ==
  ASSUME NEW s, NEW t, At(s) = At(t)
  PROVE  /\ s.first = t.first /\ s.last = t.last
         /\ Length(s) = Length(t) /\ Tokens(s) = Tokens(t)
         /\ \A u : Overlaps(u, s) <=> Overlaps(u, t)
<1>1. At(s).first = s.first /\ At(s).last = s.last /\ At(t).first = t.first /\ At(t).last = t.last
  BY DEF At
<1>2. s.first = t.first /\ s.last = t.last
  BY <1>1
<1> QED BY <1>2 DEF Length, Tokens, Overlaps

LEMMA OverlapsBack ==
  ASSUME NEW s, NEW t, Overlaps(s, t)
  PROVE  Overlaps(t, s)
BY DEF Overlaps

LEMMA NotShorter ==
  ASSUME NEW k, NEW s, NEW A, At(k) \in Spans, At(s) \in Spans, Precedes(k, s, A)
  PROVE  Length(k) >= Length(s)
BY SpanEnds DEF Precedes

\* A ruler leaves the document's spans apart, and drops a span, of its own or of those
\* that were there, only for another at least as long.
LEMMA RulerSpans ==
  ASSUME SpansInv, NEW matches \in SUBSET Spans, NEW label, NEW data,
         Ruler(matches, label, data)
  PROVE  SpansInv'
<1> DEFINE candidates == {Labelled(s, label) : s \in matches}
           new        == FilterSpans(candidates, {})
<1>1. /\ parsed' = [s \in Spans |-> IF s \in matches THEN data ELSE parsed[s]]
      /\ proposed' = proposed \cup candidates
      /\ ents' = FilterSpans(new \cup ents, new)
  BY DEF Ruler
<1>2. \A c \in candidates : At(c) \in Spans /\ c = Labelled(c, c.label) /\ c.label = label
  BY LabelledSpan, SpanItself
<1> HIDE DEF candidates
<1>3. /\ new \subseteq candidates
      /\ \A s \in candidates \ new : \E k \in new : Precedes(k, s, {}) /\ Overlaps(k, s)
      /\ \A s, t \in new : Overlaps(s, t) => At(s) = At(t)
  BY <1>2, Filtered
<1> HIDE DEF new
<1>4. \A p \in proposed : At(p) \in Spans /\ p = Labelled(p, p.label)
  BY DEF SpansInv
<1>5. ents \subseteq proposed /\ \A p \in new \cup ents : At(p) \in Spans
  BY <1>2, <1>3, <1>4 DEF SpansInv
<1>6. /\ ents' \subseteq new \cup ents
      /\ \A s \in (new \cup ents) \ ents' :
           \E k \in ents' : Precedes(k, s, new) /\ Overlaps(k, s)
      /\ \A s, t \in ents' : Overlaps(s, t) => At(s) = At(t) /\ (s \in new <=> t \in new)
  BY <1>1, <1>5, Filtered
<1>7. ents' \subseteq proposed'
  BY <1>1, <1>3, <1>5, <1>6
<1>8. \A p \in proposed' : At(p) \in Spans /\ p = Labelled(p, p.label)
  BY <1>1, <1>2, <1>4
<1>9. ASSUME NEW e \in ents', NEW f \in ents', Overlaps(e, f)
      PROVE  e = f
  <2>1. CASE e \in new
    <3>1. f \in new /\ At(e) = At(f)
      BY <1>6, <1>9, <2>1
    <3>2. /\ e = Labelled(e, label) /\ f = Labelled(f, label)
      BY <1>2, <1>3, <2>1, <3>1
    <3>3. Labelled(e, label) = Labelled(f, label)
      BY <3>1, SameRange DEF Labelled
    <3> QED BY <3>2, <3>3
  <2>2. CASE e \notin new
    <3>1. e \in ents /\ f \in ents
      BY <1>6, <1>9, <2>2
    <3> QED BY <1>9, <3>1 DEF SpansInv, DroppedForLonger
  <2> QED BY <2>1, <2>2
<1>10. ASSUME NEW s \in proposed', s \notin ents'
       PROVE  \E t \in proposed' \ {s} : Overlaps(s, t) /\ Length(t) >= Length(s)
  <2>1. CASE s \in new \cup ents
    <3>1. PICK k \in ents' : Precedes(k, s, new) /\ Overlaps(k, s)
      BY <1>6, <1>10, <2>1
    <3>2. k \in proposed' \ {s} /\ At(k) \in Spans /\ At(s) \in Spans
      BY <1>7, <1>8, <1>10
    <3> QED BY <3>1, <3>2, NotShorter, OverlapsBack
  <2>2. CASE s \in candidates \ new
    <3>1. PICK k \in new : Precedes(k, s, {}) /\ Overlaps(k, s)
      BY <1>3, <2>2
    <3>2. k \in proposed' \ {s} /\ At(k) \in Spans /\ At(s) \in Spans
      BY <1>1, <1>3, <1>8, <1>10, <2>2
    <3> QED BY <3>1, <3>2, NotShorter, OverlapsBack
  <2>3. CASE s \in proposed \ ents
    <3>1. PICK t \in proposed \ {s} : Overlaps(s, t) /\ Length(t) >= Length(s)
      BY <2>3 DEF SpansInv, DroppedForLonger
    <3> QED BY <1>1, <3>1
  <2> QED BY <1>1, <1>10, <2>1, <2>2, <2>3
<1>11. DOMAIN parsed' = Spans
  BY <1>1
<1> QED BY <1>7, <1>8, <1>9, <1>10, <1>11 DEF SpansInv, DroppedForLonger

\* What is left after a ruler is its own, or was there before. Where the ruler has
\* matched the range of one that was there, it dropped that match for a longer one, and
\* the longer one for a third.
LEMMA RulerLeaves ==
  ASSUME SpansInv, NEW matches \in SUBSET Spans, NEW label, NEW data,
         Ruler(matches, label, data), NEW e \in ents'
  PROVE  \/ e.label = label /\ At(e) \in matches
         \/ e \in ents /\ At(e) \notin matches
         \/ /\ e \in ents
            /\ \E c, d \in {p \in proposed' : p.label = label} : \E t \in ents' :
                 /\ At(c) = At(e) /\ c # d /\ Overlaps(c, d) /\ Length(d) >= Length(c)
                 /\ ~Overlaps(t, e) /\ Overlaps(t, d) /\ Length(t) >= Length(d)
<1> DEFINE candidates == {Labelled(s, label) : s \in matches}
           new        == FilterSpans(candidates, {})
<1>1. /\ proposed' = proposed \cup candidates
      /\ ents' = FilterSpans(new \cup ents, new)
  BY DEF Ruler
<1>2. \A c \in candidates : At(c) \in Spans /\ At(c) \in matches /\ c.label = label
  BY LabelledSpan, SpanItself
<1>3. \A s \in matches : Labelled(s, label) \in candidates
  OBVIOUS
<1> HIDE DEF candidates
<1>4. /\ new \subseteq candidates
      /\ \A s \in candidates \ new : \E k \in new : Precedes(k, s, {}) /\ Overlaps(k, s)
  BY <1>2, Filtered
<1> HIDE DEF new
<1>5. ents \subseteq proposed /\ \A p \in new \cup ents : At(p) \in Spans
  BY <1>2, <1>4 DEF SpansInv
<1>6. /\ ents' \subseteq new \cup ents
      /\ \A s \in (new \cup ents) \ ents' :
           \E k \in ents' : Precedes(k, s, new) /\ Overlaps(k, s)
      /\ \A s, t \in ents' : Overlaps(s, t) => At(s) = At(t) /\ (s \in new <=> t \in new)
  BY <1>1, <1>5, Filtered
<1>7. \A s, t \in ents' : Overlaps(s, t) => s = t
  BY RulerSpans DEF SpansInv, DroppedForLonger
<1>8. CASE e \in new
  BY <1>2, <1>4, <1>8
<1>9. CASE e \notin new /\ At(e) \in matches
  <2>1. e \in ents /\ At(e) \in Spans
    BY <1>5, <1>6, <1>9
  <2> DEFINE c == Labelled(At(e), label)
  <2>2. c \in candidates /\ At(c) = At(e) /\ At(c) \in Spans /\ Overlaps(c, c)
    <3>1. At(At(e)) = At(e)
      BY DEF At
    <3> QED BY <1>3, <1>9, <2>1, <3>1, LabelledSpan
  <2> HIDE DEF c
  <2>3. Overlaps(c, e)
    BY <2>2, SameRange
  \* Of the same range, the ruler's own would have been first.
  <2>4. c \notin new
    <3> SUFFICES ASSUME c \in new PROVE FALSE
      OBVIOUS
    <3>1. c \notin ents'
      BY <1>6, <1>9, <2>3
    <3>2. PICK t \in ents' : Precedes(t, c, new) /\ Overlaps(t, c)
      BY <1>6, <3>1
    <3>3. t = e
      BY <1>7, <2>2, <3>2, SameRange
    <3> QED BY <1>9, <2>1, <2>2, <3>2, <3>3, SpanEnds, SameRange DEF Precedes
  <2>5. PICK d \in new : Precedes(d, c, {}) /\ Overlaps(d, c)
    BY <1>4, <2>2, <2>4
  <2>6. Overlaps(d, e) /\ At(d) \in Spans
    BY <1>5, <2>2, <2>5, SameRange
  <2>7. d \notin ents'
    BY <1>6, <1>9, <2>6
  <2>8. PICK t \in ents' : Precedes(t, d, new) /\ Overlaps(t, d)
    BY <1>6, <2>7
  <2>9. At(t) \in Spans
    BY <1>5, <1>6
  <2>10. t # e
    <3> SUFFICES ASSUME t = e PROVE FALSE
      OBVIOUS
    <3>1. Precedes(e, d, new) /\ Precedes(d, c, {}) /\ e \notin new
      BY <1>9, <2>5, <2>8
    <3>2. Length(c) = Length(e) /\ c.first = e.first
      BY <2>2, SameRange
    <3>3. /\ Length(e) \in Int /\ Length(d) \in Int /\ e.first \in Int /\ d.first \in Int
      BY <2>1, <2>6, SpanEnds
    <3>4. Length(e) > Length(d) \/ (Length(e) = Length(d) /\ e.first < d.first)
      BY <3>1 DEF Precedes
    <3>5. Length(d) > Length(e) \/ (Length(d) = Length(e) /\ d.first < e.first)
      BY <3>1, <3>2 DEF Precedes
    <3> QED BY <3>3, <3>4, <3>5
  <2>11. ~Overlaps(t, e)
    BY <1>7, <2>10
  <2>12. Overlaps(c, d) /\ Length(d) >= Length(c) /\ Length(t) >= Length(d)
    BY <2>2, <2>5, <2>6, <2>8, <2>9, NotShorter, OverlapsBack
  <2>13. c \in proposed' /\ c.label = label /\ d \in proposed' /\ d.label = label
    BY <1>1, <1>2, <1>4, <2>2
  <2> QED BY <2>1, <2>2, <2>4, <2>5, <2>8, <2>11, <2>12, <2>13
<1>10. CASE e \notin new /\ At(e) \notin matches
  BY <1>6, <1>10
<1> QED BY <1>8, <1>9, <1>10

LEMMA SpansBase == EntitiesInit => SpansInv
<1> SUFFICES ASSUME EntitiesInit PROVE SpansInv
  OBVIOUS
<1>1. PICK found \in UpTo(MaxFound) : \E label \in [found -> Labels] :
        /\ \A s, t \in found : Overlaps(s, t) => s = t
        /\ ents = {Labelled(s, label[s]) : s \in found}
  BY DEF EntitiesInit
<1>2. PICK label \in [found -> Labels] :
        /\ \A s, t \in found : Overlaps(s, t) => s = t
        /\ ents = {Labelled(s, label[s]) : s \in found}
  BY <1>1
<1>3. found \subseteq Spans
  BY DEF UpTo
<1>4. \A p \in ents : At(p) \in Spans /\ p = Labelled(p, p.label)
  BY <1>2, <1>3, LabelledSpan, SpanItself
<1>5. ASSUME NEW e \in ents, NEW f \in ents, Overlaps(e, f)
      PROVE  e = f
  <2>1. PICK s \in found : e = Labelled(s, label[s])
    BY <1>2
  <2>2. PICK t \in found : f = Labelled(t, label[t])
    BY <1>2
  <2>3. At(s) = At(e) /\ At(t) = At(f)
    BY <1>3, <2>1, <2>2, LabelledSpan, SpanItself
  <2>4. Overlaps(s, t)
    BY <1>5, <2>3, SameRange, OverlapsBack
  <2> QED BY <1>2, <2>1, <2>2, <2>4
<1>6. proposed = ents /\ DOMAIN parsed = Spans
  BY DEF EntitiesInit
<1> QED BY <1>4, <1>5, <1>6 DEF SpansInv, DroppedForLonger

LEMMA ParsedBase == EntitiesInit => ParsedInv
<1> SUFFICES ASSUME EntitiesInit PROVE ParsedInv
  OBVIOUS
<1>1. PICK found \in UpTo(MaxFound) : \E label \in [found -> Labels] :
        ents = {Labelled(s, label[s]) : s \in found}
  BY DEF EntitiesInit
<1>2. PICK label \in [found -> Labels] : ents = {Labelled(s, label[s]) : s \in found}
  BY <1>1
<1>3. \A p \in ents : p.label \in Labels
  BY <1>2 DEF Labelled
<1>4. component = "historical_date_ruler" /\ proposed = ents /\ entities = {}
  BY DEF EntitiesInit
<1> QED BY <1>3, <1>4, EntitiesAssumption DEF ParsedInv, ParseIsOwn

\* The type of an entity says whose span it was.
LEMMA TypeOfOwn ==
  ASSUME NEW e
  PROVE  /\ EntityType(e) = "amount" => e.label = "CURRENCY"
         /\ EntityType(e) = "date" => e.label = "HIST_DATE"
BY DEF EntityType, TypeOfLabel

LEMMA EntitiesStep == EntitiesInv /\ [EntitiesNext]_entityVars => EntitiesInv'
<1> SUFFICES ASSUME EntitiesInv, [EntitiesNext]_entityVars PROVE EntitiesInv'
  OBVIOUS
<1> USE DEF EntitiesInv
<1>1. CASE UNCHANGED entityVars
  BY <1>1 DEF entityVars, SpansInv, ParsedInv, DroppedForLonger, ParseIsOwn, Overwritten
<1>2. CASE DateRuler
  <2>1. PICK matches \in UpTo(MaxDates) : Ruler(matches, "HIST_DATE", "iso")
    BY <1>2 DEF DateRuler
  <2>2. matches \in SUBSET Spans
    BY DEF UpTo
  <2>3. SpansInv'
    BY <2>1, <2>2, RulerSpans
  <2>4. /\ component' = "currency_ruler" /\ entities' = {}
        /\ \A p \in proposed : p.label \notin {"HIST_DATE", "CURRENCY"}
    BY <1>2 DEF DateRuler, ParsedInv
  <2>5. \A p \in proposed' : p.label # "CURRENCY"
    <3>1. proposed' = proposed \cup {Labelled(s, "HIST_DATE") : s \in matches}
      BY <2>1 DEF Ruler
    <3> QED BY <2>4, <3>1 DEF Labelled
  <2>6. ASSUME NEW e \in ents', e.label = "HIST_DATE" PROVE parsed'[At(e)] = "iso"
    <3>1. e \notin ents
      BY <2>4, <2>6 DEF SpansInv
    <3>2. At(e) \in matches
      BY <2>1, <2>2, <3>1, RulerLeaves
    <3> QED BY <2>1, <2>2, <3>2 DEF Ruler
  <2>7. ParsedInv'
    BY <2>4, <2>5, <2>6 DEF ParsedInv, ParseIsOwn
  <2> QED BY <2>3, <2>7
<1>3. CASE CurrencyRuler
  <2>1. PICK matches \in UpTo(MaxAmounts) : Ruler(matches, "CURRENCY", "normalized")
    BY <1>3 DEF CurrencyRuler
  <2>2. matches \in SUBSET Spans
    BY DEF UpTo
  <2>3. SpansInv'
    BY <2>1, <2>2, RulerSpans
  <2>4. /\ component' = "extract" /\ entities' = {}
        /\ \A p \in proposed : p.label # "CURRENCY"
        /\ \A e \in ents : e.label = "HIST_DATE" => parsed[At(e)] = "iso"
    BY <1>3 DEF CurrencyRuler, ParsedInv
  <2>5. parsed' = [s \in Spans |-> IF s \in matches THEN "normalized" ELSE parsed[s]]
    BY <2>1 DEF Ruler
  <2>6. ASSUME NEW e \in ents', e.label = "CURRENCY" PROVE parsed'[At(e)] = "normalized"
    <3>1. e \notin ents
      BY <2>4, <2>6 DEF SpansInv
    <3>2. At(e) \in matches
      BY <2>1, <2>2, <3>1, RulerLeaves
    <3> QED BY <2>2, <2>5, <3>2
  <2>7. ASSUME NEW e \in ents', e.label = "HIST_DATE"
        PROVE  parsed'[At(e)] = "iso" \/ Overwritten(e)'
    <3>1. At(e) \in Spans
      BY <2>3 DEF SpansInv
    <3>2. \/ e \in ents /\ At(e) \notin matches
          \/ Overwritten(e)'
      <4>1. e.label # "CURRENCY"
        BY <2>7
      <4> QED BY <2>1, <2>2, <4>1, RulerLeaves DEF Overwritten
    <3>3. e \in ents /\ At(e) \notin matches => parsed'[At(e)] = "iso"
      BY <2>4, <2>5, <2>7, <3>1
    <3> QED BY <3>2, <3>3
  <2>8. ParsedInv'
    BY <2>4, <2>6, <2>7 DEF ParsedInv, ParseIsOwn
  <2> QED BY <2>3, <2>8
<1>4. CASE Extract
  <2>1. /\ component = "extract" /\ component' = "done"
        /\ entities' = Emitted \cup Scanned
        /\ ents' = ents /\ parsed' = parsed /\ proposed' = proposed
    BY <1>4 DEF Extract
  <2>2. SpansInv'
    BY <2>1 DEF SpansInv, DroppedForLonger
  <2>3. \A x \in ents :
          /\ x.label = "CURRENCY" => parsed[At(x)] = "normalized"
          /\ x.label = "HIST_DATE" => parsed[At(x)] = "iso" \/ Overwritten(x)
    BY <2>1 DEF ParsedInv
  <2>4. ASSUME NEW e \in entities'
        PROVE  /\ e.type = "amount" => e.value = "normalized"
               /\ e.type = "date" /\ e.value # "iso" => Overwritten(e)
    <3>1. CASE e \in Scanned
      BY <3>1 DEF Scanned
    <3>2. CASE e \in Emitted
      <4>1. PICK x \in ents :
              e = [type |-> EntityType(x), value |-> ValueOf(x), first |-> x.first, last |-> x.last]
        BY <3>2 DEF Emitted
      <4>2. e.type = EntityType(x) /\ e.value = ValueOf(x) /\ At(e) = At(x)
        BY <4>1 DEF At
      <4>3. e.type \in {"date", "amount"} => e.value = parsed[At(x)]
        BY <4>2 DEF ValueOf
      <4>4. Overwritten(x) => Overwritten(e)
        BY <4>2, SameRange DEF Overwritten
      <4> QED BY <2>3, <4>2, <4>3, <4>4, TypeOfOwn
    <3> QED BY <2>1, <3>1, <3>2
  <2>5. ParseIsOwn'
    BY <2>1, <2>4 DEF ParseIsOwn, Overwritten
  <2>6. \A x \in ents' :
          /\ x.label = "CURRENCY" => parsed'[At(x)] = "normalized"
          /\ x.label = "HIST_DATE" => parsed'[At(x)] = "iso" \/ Overwritten(x)'
    BY <2>1, <2>3 DEF Overwritten
  <2>7. ParsedInv'
    BY <2>1, <2>5, <2>6 DEF ParsedInv
  <2> QED BY <2>2, <2>7
<1> QED BY <1>1, <1>2, <1>3, <1>4 DEF EntitiesNext

LEMMA EntitiesAlways == EntitiesSpec => []EntitiesInv
<1>1. EntitiesInit => EntitiesInv
  BY SpansBase, ParsedBase DEF EntitiesInv
<1> QED BY <1>1, EntitiesStep, PTL DEF EntitiesSpec

\* DroppedForLonger in every text: whatever the recognizer and the rulers find,
\* filter_spans (entities.py) keeps spans that are apart and drops one only for another
\* that it overlaps and that is at least as long.
THEOREM LongerWins == EntitiesSpec => []DroppedForLonger
<1>1. EntitiesInv => DroppedForLonger
  BY DEF EntitiesInv, SpansInv
<1> QED BY <1>1, EntitiesAlways, PTL

\* ParseIsOwn in every text: an amount carries the currency ruler's value and a date the
\* date ruler's, but where a third span freed the date's range from the amount that had
\* won it.
THEOREM OwnParse == EntitiesSpec => []ParseIsOwn
<1>1. EntitiesInv => ParseIsOwn
  BY DEF EntitiesInv, ParsedInv
<1> QED BY <1>1, EntitiesAlways, PTL

-------------------------------------------------------------------------------
(* Reading order *)

LEMMA LeastIn ==
  ASSUME NEW S \in SUBSET Nat, S # {}
  PROVE  Min(S) \in S /\ \A n \in S : Min(S) <= n
BY LeastNatural DEF Min

LEMMA GreatestIn ==
  ASSUME NEW bound \in Nat, NEW S \in SUBSET (0..bound), S # {}
  PROVE  Max(S) \in S /\ \A n \in S : n <= Max(S)
<1> DEFINE Short == {bound - n : n \in S}
<1>1. Short \in SUBSET Nat /\ Short # {}
  <2>1. \A n \in S : n \in 0..bound /\ bound - n \in Nat
    OBVIOUS
  <2> QED BY <2>1
<1>2. PICK least \in Short : \A n \in Short : least <= n
  <2> HIDE DEF Short
  <2> QED BY <1>1, LeastNatural
<1>3. PICK most \in S : least = bound - most
  BY <1>2
<1>4. \A n \in S : most >= n
  BY <1>2, <1>3
<1> QED BY <1>3, <1>4 DEF Max

LEMMA OfTwo ==
  ASSUME NEW a \in Int, NEW b \in Int
  PROVE  /\ Min({a, b}) \in {a, b} /\ Min({a, b}) <= a /\ Min({a, b}) <= b
         /\ Max({a, b}) \in {a, b} /\ Max({a, b}) >= a /\ Max({a, b}) >= b
<1>1. \E n \in {a, b} : \A m \in {a, b} : n <= m
  BY a <= b \/ b <= a
<1>2. \E n \in {a, b} : \A m \in {a, b} : n >= m
  BY a <= b \/ b <= a
<1>3. Min({a, b}) \in {a, b} /\ \A m \in {a, b} : Min({a, b}) <= m
  BY <1>1 DEF Min
<1>4. Max({a, b}) \in {a, b} /\ \A m \in {a, b} : Max({a, b}) >= m
  BY <1>2 DEF Max
<1> QED BY <1>3, <1>4

LEMMA FewerOf ==
  ASSUME NEW S, IsFiniteSet(S), NEW T \in SUBSET S, NEW U \in SUBSET T, U # T
  PROVE  Cardinality(U) \in Nat /\ Cardinality(T) \in Nat /\ Cardinality(U) < Cardinality(T)
<1>1. IsFiniteSet(T) /\ IsFiniteSet(U)
  BY FS_Subset
<1>2. Cardinality(U) \in Nat /\ Cardinality(T) \in Nat
  BY <1>1, FS_CardinalityType
<1>3. Cardinality(U) <= Cardinality(T) /\ Cardinality(T) # Cardinality(U)
  BY <1>1, FS_Subset
<1> QED BY <1>2, <1>3

LEMMA InkedBoxes ==
  ASSUME sheet \in Pages
  PROVE  /\ Inked \subseteq Nat /\ IsFiniteSet(Inked)
         /\ \A i \in Inked : sheet.boxes[i] \in Boxes
         /\ \A i \in Inked : /\ sheet.boxes[i].x \in Nat /\ sheet.boxes[i].y \in Nat
                             /\ sheet.boxes[i].h \in Nat \ {0}
                             /\ Bottom(sheet.boxes[i]) \in Nat
                             /\ sheet.boxes[i].y < Bottom(sheet.boxes[i])
<1>1. sheet.boxes \in Seq(Boxes)
  BY LayoutAssumption
<1>2. PICK n \in Nat : DOMAIN sheet.boxes = 1..n
  BY <1>1
<1>3. Inked \subseteq 1..n /\ \A i \in Inked : sheet.boxes[i] \in Boxes
  BY <1>1, <1>2 DEF Inked
<1>4. IsFiniteSet(1..n)
  BY FS_Interval
<1>5. IsFiniteSet(Inked)
  BY <1>3, <1>4, FS_Subset
<1>6. \A b \in Boxes : b.x \in Nat /\ b.y \in Nat /\ b.h \in Nat \ {0} /\ Bottom(b) \in Nat /\ b.y < Bottom(b)
  BY DEF Boxes, Bottom
<1> QED BY <1>3, <1>5, <1>6

LEMMA HigherOrder ==
  ASSUME sheet \in Pages
  PROVE  /\ \A i \in Inked : ~Higher(i, i)
         /\ \A i, j, k \in Inked : Higher(i, j) /\ Higher(j, k) => Higher(i, k)
         /\ \A i, j \in Inked : i # j => Higher(i, j) \/ Higher(j, i)
BY InkedBoxes DEF Higher

\* The place of a box among those to be placed.
Place(i) == Cardinality({k \in Inked : Higher(k, i)})

LEMMA PlaceRises ==
  ASSUME sheet \in Pages
  PROVE  /\ \A i \in Inked : Place(i) \in Nat
         /\ \A i, j \in Inked : Higher(i, j) => Place(i) < Place(j)
<1>1. ASSUME NEW i \in Inked PROVE Place(i) \in Nat
  <2>1. IsFiniteSet({k \in Inked : Higher(k, i)})
    BY InkedBoxes, FS_Subset
  <2> QED BY <2>1, FS_CardinalityType DEF Place
<1>2. ASSUME NEW i \in Inked, NEW j \in Inked, Higher(i, j) PROVE Place(i) < Place(j)
  <2> DEFINE T == {k \in Inked : Higher(k, j)}
             U == {k \in Inked : Higher(k, i)}
  <2>1. T \in SUBSET Inked /\ U \in SUBSET T /\ U # T
    BY <1>2, HigherOrder
  <2> HIDE DEF T, U
  <2>2. Cardinality(U) < Cardinality(T)
    BY <2>1, InkedBoxes, FewerOf
  <2> QED BY <2>2 DEF T, U, Place
<1> QED BY <1>1, <1>2

LEMMA FirstIn ==
  ASSUME sheet \in Pages, NEW S \in SUBSET Inked, S # {}
  PROVE  First(S) \in S
<1> DEFINE Ranks == {Place(i) : i \in S}
<1>1. Ranks \in SUBSET Nat /\ Ranks # {}
  BY PlaceRises
<1>2. PICK least \in Ranks : \A n \in Ranks : least <= n
  <2> HIDE DEF Ranks
  <2> QED BY <1>1, LeastNatural
<1>3. PICK i \in S : least = Place(i)
  BY <1>2
<1>4. ASSUME NEW j \in S, Higher(j, i) PROVE FALSE
  <2>1. Place(j) < Place(i) /\ Place(j) \in Nat /\ Place(i) \in Nat
    BY <1>4, PlaceRises
  <2>2. Place(i) <= Place(j)
    BY <1>2, <1>3
  <2> QED BY <2>1, <2>2
<1> QED BY <1>3, <1>4 DEF First

RowOf(row, i) == IF Fitting(row, i) = {} THEN i ELSE First(Fitting(row, i))

LEMMA RowOfIn ==
  ASSUME sheet \in Pages, NEW row, NEW i \in Inked
  PROVE  /\ RowOf(row, i) \in Inked
         /\ RowOf(row, i) # i => \E m \in Inked : Higher(m, i) /\ row[m] = RowOf(row, i)
<1>1. Fitting(row, i) \in SUBSET Inked
  BY DEF Fitting
<1>2. CASE Fitting(row, i) = {}
  BY <1>2 DEF RowOf
<1>3. CASE Fitting(row, i) # {}
  <2>1. RowOf(row, i) \in Fitting(row, i)
    BY <1>1, <1>3, FirstIn DEF RowOf
  <2> QED BY <1>1, <2>1 DEF Fitting, Members
<1> QED BY <1>2, <1>3

\* Only the boxes placed before decide.
LEMMA RowOfLocal ==
  ASSUME NEW row, NEW other, NEW i, \A k \in Inked : Higher(k, i) => row[k] = other[k]
  PROVE  RowOf(row, i) = RowOf(other, i)
<1>1. \A r : Members(row, r, i) = Members(other, r, i)
  BY DEF Members
<1>2. \A r : Extent(row, r, i) = Extent(other, r, i)
  BY <1>1 DEF Extent
<1>3. Fitting(row, i) = Fitting(other, i)
  BY <1>1, <1>2 DEF Fitting
<1> QED BY <1>3 DEF RowOf

\* The loop of _reading_order_sort gives every box a row.
LEMMA RowsExist ==
  ASSUME sheet \in Pages
  PROVE  \E row \in [Inked -> Inked] : \A i \in Inked : row[i] = RowOf(row, i)
<1> DEFINE Right(n, row) == \A i \in Inked : Place(i) < n => row[i] = RowOf(row, i)
           Wrong == {n \in Nat : \A row \in [Inked -> Inked] : ~Right(n, row)}
<1>1. Wrong = {}
  <2> SUFFICES ASSUME Wrong # {} PROVE FALSE
    OBVIOUS
  <2>1. PICK n \in Wrong : \A m \in Wrong : n <= m
    <3>1. Wrong \in SUBSET Nat
      OBVIOUS
    <3> HIDE DEF Wrong
    <3> QED BY <3>1, LeastNatural
  <2>2. n # 0
    <3> DEFINE self == [i \in Inked |-> i]
    <3>1. self \in [Inked -> Inked]
      OBVIOUS
    <3>2. Right(0, self)
      BY PlaceRises
    <3> QED BY <3>1, <3>2
  <2>3. n \in Nat /\ n - 1 \in Nat /\ n - 1 \notin Wrong
    BY <2>1, <2>2
  <2>4. PICK row \in [Inked -> Inked] : Right(n - 1, row)
    BY <2>3
  <2> DEFINE more == [i \in Inked |-> IF Place(i) = n - 1 THEN RowOf(row, i) ELSE row[i]]
  <2>5. more \in [Inked -> Inked]
    BY RowOfIn
  <2>6. ASSUME NEW i \in Inked, Place(i) < n
        PROVE  more[i] = RowOf(more, i)
    <3>1. \A k \in Inked : Higher(k, i) => Place(k) # n - 1
      BY <2>3, <2>6, PlaceRises
    <3>2. \A k \in Inked : Higher(k, i) => row[k] = more[k]
      BY <3>1
    <3>3. RowOf(row, i) = RowOf(more, i)
      <4> HIDE DEF more
      <4> QED BY <3>2, RowOfLocal
    <3>4. CASE Place(i) = n - 1
      BY <3>3, <3>4
    <3>5. CASE Place(i) # n - 1
      <4>1. Place(i) < n - 1
        BY <2>3, <2>6, <3>5, PlaceRises
      <4> QED BY <2>4, <3>3, <3>5, <4>1
    <3> QED BY <3>4, <3>5
  <2> HIDE DEF more
  <2>7. Right(n, more)
    BY <2>6
  <2> QED BY <2>5, <2>7
<1>2. PICK bound \in Nat : \A i \in Inked : Place(i) < bound
  <2>1. Cardinality(Inked) \in Nat /\ Cardinality(Inked) + 1 \in Nat
    BY InkedBoxes, FS_CardinalityType
  <2>2. \A i \in Inked : Place(i) <= Cardinality(Inked)
    BY InkedBoxes, FS_Subset DEF Place
  <2>3. \A i \in Inked : Place(i) < Cardinality(Inked) + 1
    BY <2>1, <2>2, PlaceRises
  <2> QED BY <2>1, <2>3
<1>3. PICK row \in [Inked -> Inked] : Right(bound, row)
  <2> HIDE DEF Right
  <2> QED BY <1>1
<1> QED BY <1>2, <1>3

\* A row begins with the box that names it.
LEMMA RowsBegin ==
  ASSUME sheet \in Pages
  PROVE  /\ Rowed \in [Inked -> Inked]
         /\ \A i \in Inked : Rowed[i] = RowOf(Rowed, i)
         /\ \A i \in Inked : Rowed[i] = i \/ Higher(Rowed[i], i)
<1>1. \E row \in [Inked -> Inked] :
        \A i \in Inked : row[i] = IF Fitting(row, i) = {} THEN i ELSE First(Fitting(row, i))
  BY RowsExist DEF RowOf
<1>2. /\ Rowed \in [Inked -> Inked]
      /\ \A i \in Inked : Rowed[i] = IF Fitting(Rowed, i) = {} THEN i ELSE First(Fitting(Rowed, i))
  BY <1>1 DEF Rowed
<1>3. \A i \in Inked : Rowed[i] = RowOf(Rowed, i)
  BY <1>2 DEF RowOf
<1> DEFINE Wrong == {i \in Inked : Rowed[i] # i /\ ~Higher(Rowed[i], i)}
           Ranks == {Place(i) : i \in Wrong}
<1>4. Wrong = {}
  <2> SUFFICES ASSUME Wrong # {} PROVE FALSE
    OBVIOUS
  <2>1. Ranks \in SUBSET Nat /\ Ranks # {}
    BY PlaceRises
  <2>2. PICK least \in Ranks : \A n \in Ranks : least <= n
    <3> HIDE DEF Ranks
    <3> QED BY <2>1, LeastNatural
  <2>3. PICK i \in Wrong : least = Place(i)
    BY <2>2
  <2>4. PICK m \in Inked : Higher(m, i) /\ Rowed[m] = Rowed[i]
    BY <1>3, <2>3, RowOfIn
  <2>5. Place(m) < Place(i) /\ Place(m) \in Nat /\ Place(i) \in Nat
    BY <2>3, <2>4, PlaceRises
  <2>6. m \notin Wrong
    BY <2>2, <2>3, <2>5
  <2>7. Rowed[i] \in Inked
    BY <1>2, <2>3
  <2>8. Higher(Rowed[i], i)
    BY <2>3, <2>4, <2>6, <2>7, HigherOrder
  <2> QED BY <2>3, <2>8
<1> QED BY <1>2, <1>3, <1>4

\* The loop of _reading_order_sort leaves one way to make rows of the boxes and no other.
THEOREM RowsGreedy ==
  ASSUME sheet \in Pages
  PROVE  /\ Rowed \in [Inked -> Inked]
         /\ \A row \in [Inked -> Inked] :
              row = Rowed <=> \A i \in Inked : row[i] = RowOf(row, i)
<1>1. Rowed \in [Inked -> Inked] /\ \A i \in Inked : Rowed[i] = RowOf(Rowed, i)
  BY RowsBegin
<1>2. ASSUME NEW row \in [Inked -> Inked], \A i \in Inked : row[i] = RowOf(row, i)
      PROVE  row = Rowed
  <2> DEFINE Apart == {i \in Inked : row[i] # Rowed[i]}
             Ranks == {Place(i) : i \in Apart}
  <2> SUFFICES ASSUME Apart # {} PROVE FALSE
    BY <1>1
  <2>1. Ranks \in SUBSET Nat /\ Ranks # {}
    BY PlaceRises
  <2>2. PICK least \in Ranks : \A n \in Ranks : least <= n
    <3> HIDE DEF Ranks
    <3> QED BY <2>1, LeastNatural
  <2>3. PICK i \in Apart : least = Place(i)
    BY <2>2
  <2>4. ASSUME NEW k \in Inked, Higher(k, i)
        PROVE  row[k] = Rowed[k]
    <3>1. Place(k) < Place(i) /\ Place(k) \in Nat /\ Place(i) \in Nat
      BY <2>4, PlaceRises
    <3>2. k \in Apart => Place(i) <= Place(k)
      BY <2>2, <2>3
    <3> QED BY <3>1, <3>2
  <2>5. RowOf(row, i) = RowOf(Rowed, i)
    BY <2>4, RowOfLocal
  <2> QED BY <1>1, <1>2, <2>5
<1> QED BY <1>1, <1>2

\* No row above reaches down to a box that no other box ties to it.
LEMMA UntiedFitsNowhere ==
  ASSUME sheet \in Pages, NEW row, NEW j \in Inked,
         \A k \in Inked \ {j} : ~(sheet.boxes[k].y <= sheet.boxes[j].y
                                  /\ Bottom(sheet.boxes[k]) > sheet.boxes[j].y)
  PROVE  RowOf(row, j) = j
<1> DEFINE b == sheet.boxes[j]
<1>1. b.y \in Nat /\ b.h \in Nat \ {0}
  BY InkedBoxes
<1>2. ASSUME NEW r \in Fitting(row, j) PROVE FALSE
  <2> DEFINE members == {sheet.boxes[k] : k \in Members(row, r, j)}
             tops    == {a.y : a \in members}
             bottoms == {Bottom(a) : a \in members}
             top     == Min(tops)
             bottom  == Max(bottoms)
  <2>1. Members(row, r, j) # {} /\ SameRow(Extent(row, r, j), b)
    BY <1>2 DEF Fitting
  <2>2. PICK m \in members : TRUE
    BY <2>1
  <2>3. ASSUME NEW a \in members
        PROVE  a.y \in Nat /\ Bottom(a) \in 0..b.y /\ a.y < Bottom(a)
    <3>1. PICK k \in Inked : a = sheet.boxes[k] /\ Higher(k, j)
      BY DEF Members
    <3>2. k # j
      BY <3>1, HigherOrder
    <3>3. a.y \in Nat /\ Bottom(a) \in Nat /\ a.y < Bottom(a)
      BY <3>1, InkedBoxes
    <3>4. a.y <= b.y
      BY <1>1, <3>1, <3>3 DEF Higher
    <3> QED BY <1>1, <3>1, <3>2, <3>3, <3>4
  <2> HIDE DEF members
  <2>4. tops \in SUBSET Nat /\ m.y \in tops
    BY <2>2, <2>3
  <2>5. bottoms \in SUBSET (0..b.y) /\ Bottom(m) \in bottoms
    BY <2>2, <2>3
  <2> HIDE DEF tops, bottoms
  <2>6. top \in Nat /\ top <= m.y
    <3>1. Min(tops) \in tops /\ \A n \in tops : Min(tops) <= n
      BY <2>4, LeastIn, Zenon
    <3> QED BY <2>4, <3>1
  <2>7. bottom \in Nat /\ Bottom(m) <= bottom /\ bottom <= b.y
    <3>1. Max(bottoms) \in bottoms /\ \A n \in bottoms : n <= Max(bottoms)
      BY <1>1, <2>5, GreatestIn, Zenon
    <3>2. bottom \in 0..b.y /\ Bottom(m) <= bottom
      BY <2>5, <3>1
    <3> QED BY <1>1, <3>2
  <2>8. Extent(row, r, j) = [top |-> top, bottom |-> bottom]
    BY DEF Extent, members, tops, bottoms
  <2> HIDE DEF top, bottom, b
  <2>9. top < bottom
    BY <2>2, <2>3, <2>6, <2>7
  <2>10. 2 * (Min({Bottom(b), bottom}) - Max({b.y, top})) > Min({b.h, bottom - top})
    BY <2>1, <2>8 DEF SameRow
  <2>11. Bottom(b) \in Int /\ bottom - top \in Int /\ bottom - top > 0
    BY <1>1, <2>6, <2>7, <2>9 DEF Bottom
  <2>12. /\ Min({Bottom(b), bottom}) \in Int /\ Min({Bottom(b), bottom}) <= bottom
         /\ Max({b.y, top}) \in Int /\ Max({b.y, top}) >= b.y
         /\ Min({b.h, bottom - top}) \in Int /\ Min({b.h, bottom - top}) > 0
    <3>0. /\ b.h \in Int /\ bottom - top \in Int /\ Bottom(b) \in Int /\ bottom \in Int
          /\ b.y \in Int /\ top \in Int
      BY <1>1, <2>6, <2>7, <2>11
    <3>1. \A n \in {b.h, bottom - top} : n \in Int /\ n > 0
      BY <1>1, <2>11
    <3>2. Min({b.h, bottom - top}) \in {b.h, bottom - top}
      BY <3>0, OfTwo, Zenon
    <3>3. /\ Min({Bottom(b), bottom}) \in {Bottom(b), bottom}
          /\ Min({Bottom(b), bottom}) <= bottom
      BY <3>0, OfTwo, Zenon
    <3>4. Max({b.y, top}) \in {b.y, top} /\ Max({b.y, top}) >= b.y
      BY <3>0, OfTwo, Zenon
    <3> QED BY <1>1, <2>6, <2>7, <2>11, <3>1, <3>2, <3>3, <3>4
  <2> QED BY <1>1, <2>7, <2>10, <2>12
<1>3. Fitting(row, j) = {}
  BY <1>2
<1> QED BY <1>3 DEF RowOf

\* To be read before is a strict order.
LEMMA ReadOrder ==
  ASSUME sheet \in Pages, NEW row \in [Inked -> Inked]
  PROVE  /\ \A i \in Inked : ~ReadBefore(row, i, i)
         /\ \A i, j, k \in Inked :
              ReadBefore(row, i, j) /\ ReadBefore(row, j, k) => ReadBefore(row, i, k)
<1>1. ASSUME NEW i \in Inked PROVE ~ReadBefore(row, i, i)
  BY HigherOrder, InkedBoxes DEF ReadBefore
<1>2. ASSUME NEW i \in Inked, NEW j \in Inked, NEW k \in Inked,
             ReadBefore(row, i, j), ReadBefore(row, j, k)
      PROVE  ReadBefore(row, i, k)
  <2>1. row[i] \in Inked /\ row[j] \in Inked /\ row[k] \in Inked
    OBVIOUS
  <2>2. /\ sheet.boxes[i].x \in Nat /\ sheet.boxes[j].x \in Nat /\ sheet.boxes[k].x \in Nat
    BY InkedBoxes
  <2>3. CASE Higher(row[i], row[j]) \/ Higher(row[j], row[k])
    <3>1. Higher(row[i], row[k])
      BY <1>2, <2>1, <2>3, HigherOrder DEF ReadBefore
    <3> QED BY <3>1 DEF ReadBefore
  <2>4. CASE row[i] = row[j] /\ row[j] = row[k]
    BY <1>2, <2>1, <2>2, <2>4, HigherOrder DEF ReadBefore
  <2> QED BY <1>2, <2>3, <2>4 DEF ReadBefore
<1> QED BY <1>1, <1>2

\* ReadingOrderTopDown after detection.
LEMMA DetectedTopDown ==
  ASSUME sheet \in Pages, NEW i \in Inked, NEW j \in Inked,
         Bottom(sheet.boxes[i]) <= sheet.boxes[j].y,
         \A k \in Inked \ {j} : ~(sheet.boxes[k].y <= sheet.boxes[j].y
                                  /\ Bottom(sheet.boxes[k]) > sheet.boxes[j].y)
  PROVE  Cardinality({k \in Inked : ReadBefore(Rowed, k, i)})
           < Cardinality({k \in Inked : ReadBefore(Rowed, k, j)})
<1>1. Higher(i, j)
  BY InkedBoxes DEF Higher
<1>2. Rowed[j] = j
  BY RowsBegin, UntiedFitsNowhere
<1>3. Higher(Rowed[i], Rowed[j])
  <2>1. Rowed[i] \in Inked
    BY RowsBegin
  <2> QED BY <1>1, <1>2, <2>1, RowsBegin, HigherOrder
<1>4. ReadBefore(Rowed, i, j)
  BY <1>3 DEF ReadBefore
<1> DEFINE T == {k \in Inked : ReadBefore(Rowed, k, j)}
           U == {k \in Inked : ReadBefore(Rowed, k, i)}
<1>5. T \in SUBSET Inked /\ U \in SUBSET T /\ U # T
  <2>1. Rowed \in [Inked -> Inked]
    BY RowsBegin
  <2> QED BY <1>4, <2>1, ReadOrder
<1> HIDE DEF T, U
<1>6. Cardinality(U) < Cardinality(T)
  BY <1>5, InkedBoxes, FewerOf
<1> QED BY <1>6 DEF T, U

LayoutInv == sheet \in Pages /\ ReadingOrderTopDown

\* ReadingOrderTopDown on every page: whatever boxes and marks are found on it, what is
\* wholly above a box that nothing ties to a row above is read before it.
THEOREM TopDown == LayoutSpec => []ReadingOrderTopDown
<1>1. LayoutInit => LayoutInv
  BY DEF LayoutInit, LayoutInv, ReadingOrderTopDown
<1>2. LayoutInv /\ [LayoutNext]_layoutVars => LayoutInv'
  <2> SUFFICES ASSUME LayoutInv, [LayoutNext]_layoutVars PROVE LayoutInv'
    OBVIOUS
  <2>1. CASE UNCHANGED layoutVars
    BY <2>1 DEF layoutVars, LayoutInv, ReadingOrderTopDown
  <2>2. CASE DetectRegions
    <3>1. sheet' = sheet /\ sheet \in Pages
      BY <2>2 DEF DetectRegions, LayoutInv
    <3>2. regions' = [i \in Inked |->
            [box           |-> sheet.boxes[i],
             type          |-> RegionType(sheet.boxes[i], MarksIn(sheet.boxes[i])),
             reading_order |-> Cardinality({j \in Inked : ReadBefore(Rowed, j, i)})]]
      BY <2>2 DEF DetectRegions
    <3>3. DOMAIN regions' = Inked
      BY <3>2
    <3>4. \A i \in Inked :
            /\ regions'[i].box = sheet.boxes[i]
            /\ regions'[i].reading_order = Cardinality({j \in Inked : ReadBefore(Rowed, j, i)})
      BY <3>2
    <3>5. ASSUME NEW i \in Inked, NEW j \in Inked,
                 Bottom(sheet.boxes[i]) <= sheet.boxes[j].y,
                 \A k \in Inked \ {j} : ~(sheet.boxes[k].y <= sheet.boxes[j].y
                                          /\ Bottom(sheet.boxes[k]) > sheet.boxes[j].y)
          PROVE  regions'[i].reading_order < regions'[j].reading_order
      BY <3>1, <3>4, <3>5, DetectedTopDown
    <3>6. ReadingOrderTopDown'
      BY <3>3, <3>4, <3>5 DEF ReadingOrderTopDown
    <3> QED BY <3>1, <3>6 DEF LayoutInv
  <2> QED BY <2>1, <2>2 DEF LayoutNext
<1>3. LayoutInv => ReadingOrderTopDown
  BY DEF LayoutInv
<1> QED BY <1>1, <1>2, <1>3, PTL DEF LayoutSpec

-------------------------------------------------------------------------------
\* An entity's row, as it was found or with a value a reviewer set.
Row == [type : {"person", "date", "location", "amount"}, raw : STRING, value : Nat \cup Corrections]

PageInv ==
  /\ page \in [PageRegions -> [reading : Readings, found : Findings]]
  /\ DOMAIN rows = PageRegions /\ DOMAIN seen = PageRegions
  /\ stage \in {"ocr", "extraction", "anomalies", "flagged", "error"}
  /\ next \in PageRegions
  /\ interruptions \in Nat

\* The rows of a region are its entities, but for the values reviewers set.
RowsInv ==
  \A i \in PageRegions : rows[i] # <<>> =>
    /\ rows[i] \in [DOMAIN page[i].found -> Row]
    /\ \A j \in DOMAIN page[i].found :
         /\ rows[i][j].type = page[i].found[j].type
         /\ rows[i][j].raw = page[i].found[j].raw
         /\ rows[i][j].value = page[i].found[j].value \/ <<i, j>> \in corrected

\* What a run works with once it has been through region i: each entity of it once.
Matched(i) ==
  /\ DOMAIN seen[i] = DOMAIN page[i].found
  /\ \A k \in DOMAIN seen[i] :
       LET j == seen[i][k].id
       IN  /\ j \in DOMAIN page[i].found
           /\ seen[i][k].type = page[i].found[j].type
           /\ seen[i][k].raw = page[i].found[j].raw
           /\ \/ seen[i][k].value = page[i].found[j].value
              \/ interruptions > 0 /\ <<i, j>> \in corrected
  /\ \A k, l \in DOMAIN seen[i] : seen[i][k].id = seen[i][l].id => k = l
  /\ \A j \in DOMAIN page[i].found : \E k \in DOMAIN seen[i] : seen[i][k].id = j

SeenInv ==
  \A i \in PageRegions :
    stage = "anomalies" \/ (stage = "extraction" /\ i < next) => Matched(i)

\* The first run finds nothing in the database.
FirstRunInv ==
  interruptions = 0 =>
    /\ stage = "ocr" => recorded = fresh /\ \A i \in PageRegions : i < next => i \in fresh
    /\ stage \in {"extraction", "anomalies"} => PageRegions \subseteq fresh
    /\ stage \in {"ocr", "extraction"} =>
         \A i \in PageRegions : stage = "ocr" \/ i >= next => rows[i] = <<>>

Lost(f) ==
  /\ interruptions > 0
  /\ f.type = "low_ocr_confidence" /\ page[f.region].reading.confidence >= LowConfidence

Disturbed(f) ==
  interruptions > 0 /\ f.type = "entity_conflict" /\ f.about \cap CorrectedText(f.region) # {}

Judged ==
  /\ \A f \in Uninterrupted \ Flagged : Lost(f) \/ Disturbed(f)
  /\ \A f \in Flagged \ Uninterrupted : Disturbed(f)

FlagsInv == (stage = "flagged" \/ flags # {} => Judged) /\ FlagsNameTheirEntities

AnomaliesInv == PageInv /\ RowsInv /\ SeenInv /\ FirstRunInv /\ FlagsInv

LEMMA AnomalyRegions ==
  /\ Len(Kinds) \in Nat \ {0}
  /\ PageRegions = 1..Len(Kinds)
  /\ 1 \in PageRegions
<1>1. Kinds \in Seq({"paragraph", "table", "signature", "margin_annotation", "stamp"}) /\ Kinds # <<>>
  BY AnomaliesAssumption
<1>2. Len(Kinds) \in Nat /\ DOMAIN Kinds = 1..Len(Kinds) /\ Len(Kinds) # 0
  BY <1>1
<1> QED BY <1>2 DEF PageRegions

LEMMA Advanced ==
  ASSUME next \in PageRegions, NEW following, Advance(following)
  PROVE  /\ next' \in PageRegions
         /\ \/ next = Len(Kinds) /\ stage' = following /\ next' = 1
            \/ next < Len(Kinds) /\ stage' = stage /\ next' = next + 1
BY AnomalyRegions DEF Advance

LEMMA OnThePage ==
  ASSUME PageInv, NEW i \in PageRegions
  PROVE  /\ page[i].reading \in Reading
         /\ page[i].found \in Seq(Found)
         /\ Len(page[i].found) \in Nat /\ DOMAIN page[i].found = 1..Len(page[i].found)
         /\ \A j \in DOMAIN page[i].found : page[i].found[j] \in Found
         /\ \A j, k \in DOMAIN page[i].found :
              page[i].found[j].raw = page[i].found[k].raw /\ page[i].found[j].type \in {"date", "amount"}
                => page[i].found[j] = page[i].found[k]
<1>1. page[i] \in [reading : Readings, found : Findings]
  BY DEF PageInv
<1>2. page[i].reading \in Readings /\ page[i].found \in Findings
  BY <1>1
<1>3. page[i].found \in Seq(Found)
  BY <1>2, AnomaliesAssumption
<1> QED BY <1>2, <1>3, AnomaliesAssumption

LEMMA AnomaliesBase == AnomaliesInit => AnomaliesInv
<1> SUFFICES ASSUME AnomaliesInit PROVE AnomaliesInv
  OBVIOUS
<1>1. PageInv
  BY AnomalyRegions DEF AnomaliesInit, PageInv
<1>2. \A i \in PageRegions : rows[i] = <<>>
  BY DEF AnomaliesInit
<1>3. stage = "ocr" /\ recorded = {} /\ fresh = {} /\ next = 1 /\ flags = {}
  BY DEF AnomaliesInit
<1>4. RowsInv /\ SeenInv /\ FlagsInv
  BY <1>2, <1>3 DEF RowsInv, SeenInv, FlagsInv, FlagsNameTheirEntities
<1>5. FirstRunInv
  BY <1>2, <1>3, AnomalyRegions DEF FirstRunInv
<1> QED BY <1>1, <1>4, <1>5 DEF AnomaliesInv

\* A step that neither judges the page nor changes what it is judged by.
LEMMA JudgementStays ==
  ASSUME FlagsInv, page' = page, flags' = flags, corrected \subseteq corrected',
         interruptions \in Nat, interruptions' \in Nat, interruptions' >= interruptions,
         stage' = "flagged" => stage = "flagged"
  PROVE  FlagsInv'
<1>1. \A i : CorrectedText(i) \subseteq CorrectedText(i)'
  BY DEF CorrectedText
<1>2. \A f : Lost(f) => Lost(f)'
  BY DEF Lost
<1>3. \A f : Disturbed(f) => Disturbed(f)'
  BY <1>1 DEF Disturbed
<1>4. Uninterrupted' = Uninterrupted /\ Flagged' = Flagged
  BY DEF Uninterrupted, Flagged
<1>5. Judged => Judged'
  BY <1>2, <1>3, <1>4 DEF Judged
<1>6. FlagsNameTheirEntities'
  <2> SUFFICES ASSUME NEW row \in flags
               PROVE  /\ row.flag.type = "entity_conflict" /\ row.flag.value # 0 =>
                           /\ row.entity # 0
                           /\ row.flag.about = {page[row.flag.region].found[row.entity].raw}
                           /\ \A other \in flags \ {row} :
                                other.flag.region = row.flag.region => other.entity # row.entity
                           /\ \/ page[row.flag.region].found[row.entity].value = row.flag.value
                              \/ row.flag.about \subseteq CorrectedText(row.flag.region)'
                      /\ row.flag.type # "entity_conflict" => row.entity = 0
    BY DEF FlagsNameTheirEntities
  <2> QED BY <1>1 DEF FlagsInv, FlagsNameTheirEntities
<1> QED BY <1>5, <1>6 DEF FlagsInv

LEMMA RowsStay ==
  ASSUME RowsInv, page' = page, rows' = rows, corrected' = corrected
  PROVE  RowsInv'
BY DEF RowsInv

LEMMA MatchStays ==
  ASSUME NEW i, Matched(i), page' = page, seen'[i] = seen[i], corrected \subseteq corrected',
         interruptions' = interruptions
  PROVE  Matched(i)'
BY DEF Matched

LEMMA MatchedAt ==
  ASSUME NEW i, Matched(i), NEW k, k \in DOMAIN seen[i]
  PROVE  /\ seen[i][k].id \in DOMAIN page[i].found
         /\ seen[i][k].raw = page[i].found[seen[i][k].id].raw
         /\ seen[i][k].type = page[i].found[seen[i][k].id].type
         /\ \/ seen[i][k].value = page[i].found[seen[i][k].id].value
            \/ <<i, seen[i][k].id>> \in corrected
BY DEF Matched

LEMMA IdsApart ==
  ASSUME NEW i, Matched(i)
  PROVE  \A k, l \in DOMAIN seen[i] : seen[i][k].id = seen[i][l].id => k = l
BY DEF Matched

LEMMA OcrKeeps ==
  ASSUME AnomaliesInv, OcrStage PROVE AnomaliesInv'
<1> USE DEF AnomaliesInv
<1>1. /\ stage = "ocr" /\ recorded' = recorded \cup {next}
      /\ fresh' = IF next \in recorded THEN fresh ELSE fresh \cup {next}
      /\ UNCHANGED <<page, rows, seen, flags, interruptions, corrected>>
  BY DEF OcrStage
<1>2. /\ next \in PageRegions /\ next' \in PageRegions
      /\ \/ next = Len(Kinds) /\ stage' = "extraction" /\ next' = 1
         \/ next < Len(Kinds) /\ stage' = "ocr" /\ next' = next + 1
  BY <1>1, Advanced DEF OcrStage, PageInv
<1>3. PageInv'
  BY <1>1, <1>2 DEF PageInv
<1>4. RowsInv'
  BY <1>1, RowsStay
<1>5. SeenInv'
  BY <1>1, <1>2, AnomalyRegions DEF SeenInv
<1>6. FirstRunInv'
  <2> SUFFICES ASSUME interruptions = 0
               PROVE  /\ stage' = "ocr" => recorded' = fresh' /\ \A i \in PageRegions : i < next' => i \in fresh'
                      /\ stage' \in {"extraction", "anomalies"} => PageRegions \subseteq fresh'
                      /\ \A i \in PageRegions : rows'[i] = <<>>
    BY <1>1 DEF FirstRunInv
  <2>1. recorded = fresh /\ \A i \in PageRegions : i < next => i \in fresh
    BY <1>1 DEF FirstRunInv
  <2>2. recorded' = fresh' /\ \A i \in PageRegions : i <= next => i \in fresh'
    BY <1>1, <1>2, <2>1, AnomalyRegions
  <2>3. \A i \in PageRegions : rows'[i] = <<>>
    BY <1>1 DEF FirstRunInv
  <2> QED BY <1>2, <2>2, <2>3, AnomalyRegions
<1>7. FlagsInv'
  BY <1>1, <1>2, JudgementStays DEF PageInv
<1> QED BY <1>3, <1>4, <1>5, <1>6, <1>7

\* The run takes up the entities of region next, as rows' has them.
LEMMA SeenMatches ==
  ASSUME PageInv, RowsInv, FirstRunInv, stage = "extraction", NEW i, i = next,
         rows' = IF rows[next] = <<>> THEN [rows EXCEPT ![next] = page[next].found] ELSE rows,
         NEW taken \in Seen(next), seen' = [seen EXCEPT ![next] = taken],
         UNCHANGED <<page, interruptions, corrected>>
  PROVE  Matched(i)'
<1> DEFINE places == DOMAIN rows'[i]
           asSeen(j) == [id |-> j, type |-> rows'[i][j].type, raw |-> rows'[i][j].raw,
                         value |-> rows'[i][j].value]
           F == page[i].found
<1>0. i \in PageRegions /\ DOMAIN rows = PageRegions /\ DOMAIN seen = PageRegions
  BY DEF PageInv
<1>1. PICK order \in (IF rows[i] = <<>> THEN {[k \in places |-> k]} ELSE Bijection(places, places)) :
        taken = [k \in places |-> asSeen(order[k])]
  BY DEF Seen
<1>2. order \in Bijection(places, places)
  <2>1. [k \in places |-> k] \in Bijection(places, places)
    BY DEF Bijection, Injection, Surjection, IsInjective
  <2> QED BY <1>1, <2>1, Zenon
<1>3. /\ \A k \in places : order[k] \in places
      /\ \A k, l \in places : order[k] = order[l] => k = l
      /\ \A j \in places : \E k \in places : order[k] = j
  BY <1>2 DEF Bijection, Injection, Surjection, IsInjective
<1>4. /\ places = DOMAIN F
      /\ \A j \in DOMAIN F :
           /\ rows'[i][j].type = F[j].type
           /\ rows'[i][j].raw = F[j].raw
           /\ rows'[i][j].value = F[j].value \/ (interruptions > 0 /\ <<i, j>> \in corrected)
  <2>1. CASE rows[i] = <<>>
    BY <1>0, <2>1
  <2>2. CASE rows[i] # <<>>
    <3>1. rows' = rows
      BY <2>2
    <3>2. interruptions > 0
      BY <1>0, <2>2, AnomalyRegions DEF FirstRunInv, PageInv
    <3> QED BY <1>0, <2>2, <3>1, <3>2 DEF RowsInv
  <2> QED BY <2>1, <2>2
<1>5. seen'[i] = taken
  BY <1>0
<1> HIDE DEF places
<1>6. DOMAIN taken = DOMAIN F /\ \A k \in DOMAIN F : taken[k] = asSeen(order[k])
  <2> HIDE DEF asSeen
  <2> QED BY <1>1, <1>4
<1>7. ASSUME NEW k \in DOMAIN F
      PROVE  /\ taken[k].id = order[k]
             /\ taken[k].type = F[order[k]].type /\ taken[k].raw = F[order[k]].raw
             /\ \/ taken[k].value = F[order[k]].value
                \/ interruptions > 0 /\ <<i, order[k]>> \in corrected
  <2>1. PICK j \in DOMAIN F : j = order[k]
    BY <1>3, <1>4
  <2>2. taken[k] = asSeen(j)
    BY <1>6, <2>1
  <2> QED BY <1>4, <2>1, <2>2
<1>11. page'[i].found = F
  OBVIOUS
<1> HIDE DEF asSeen, F
<1>12. /\ \A k \in DOMAIN F : order[k] \in DOMAIN F
       /\ \A k, l \in DOMAIN F : order[k] = order[l] => k = l
       /\ \A j \in DOMAIN F : \E k \in DOMAIN F : order[k] = j
  BY <1>3, <1>4
<1>8. ASSUME NEW k \in DOMAIN F
      PROVE  /\ taken[k].id \in DOMAIN F
             /\ taken[k].type = F[taken[k].id].type /\ taken[k].raw = F[taken[k].id].raw
             /\ \/ taken[k].value = F[taken[k].id].value
                \/ interruptions > 0 /\ <<i, taken[k].id>> \in corrected
  BY <1>7, <1>12
<1>9. /\ \A k, l \in DOMAIN F : taken[k].id = taken[l].id => k = l
      /\ \A j \in DOMAIN F : \E k \in DOMAIN F : taken[k].id = j
  <2>1. \A k \in DOMAIN F : taken[k].id = order[k]
    BY <1>7
  <2>2. \A k, l \in DOMAIN F : taken[k].id = taken[l].id => k = l
    BY <1>12, <2>1
  <2>3. ASSUME NEW j \in DOMAIN F PROVE \E k \in DOMAIN F : taken[k].id = j
    <3>1. PICK k \in DOMAIN F : order[k] = j
      BY <1>12
    <3> QED BY <2>1, <3>1
  <2> QED BY <2>2, <2>3
<1>10. DOMAIN taken = DOMAIN F
  BY <1>6
<1> QED BY <1>5, <1>8, <1>9, <1>10, <1>11 DEF Matched

LEMMA ExtractionKeeps ==
  ASSUME AnomaliesInv, ExtractionStage PROVE AnomaliesInv'
<1> USE DEF AnomaliesInv
<1>1. /\ stage = "extraction"
      /\ rows' = IF rows[next] = <<>> THEN [rows EXCEPT ![next] = page[next].found] ELSE rows
      /\ UNCHANGED <<page, recorded, fresh, flags, interruptions, corrected>>
  BY DEF ExtractionStage
<1>2. PICK taken \in Seen(next) : seen' = [seen EXCEPT ![next] = taken]
  BY DEF ExtractionStage
<1>3. /\ next \in PageRegions /\ next' \in PageRegions
      /\ \/ next = Len(Kinds) /\ stage' = "anomalies" /\ next' = 1
         \/ next < Len(Kinds) /\ stage' = "extraction" /\ next' = next + 1
  BY <1>1, Advanced DEF ExtractionStage, PageInv
<1>4. PageInv'
  BY <1>1, <1>2, <1>3 DEF PageInv
<1>5. RowsInv'
  <2> SUFFICES ASSUME NEW i \in PageRegions, rows'[i] # <<>>
               PROVE  /\ rows'[i] \in [DOMAIN page[i].found -> Row]
                      /\ \A j \in DOMAIN page[i].found :
                           /\ rows'[i][j].type = page[i].found[j].type
                           /\ rows'[i][j].raw = page[i].found[j].raw
                           /\ rows'[i][j].value = page[i].found[j].value \/ <<i, j>> \in corrected
    BY <1>1 DEF RowsInv
  <2>1. CASE rows'[i] = rows[i]
    BY <2>1 DEF RowsInv
  <2>2. CASE rows'[i] # rows[i]
    <3>1. rows'[i] = page[i].found
      BY <1>1, <2>2 DEF PageInv
    <3>2. \A j \in DOMAIN page[i].found : page[i].found[j] \in Row
      BY OnThePage DEF Found, Row
    <3>3. page[i].found \in [DOMAIN page[i].found -> Row]
      BY <3>2, OnThePage
    <3> QED BY <3>1, <3>3
  <2> QED BY <2>1, <2>2
<1>6. SeenInv'
  <2> SUFFICES ASSUME NEW i \in PageRegions, stage' = "anomalies" \/ (stage' = "extraction" /\ i < next')
               PROVE  Matched(i)'
    BY DEF SeenInv
  <2>1. CASE i = next
    BY <1>1, <1>2, <2>1, SeenMatches
  <2>2. CASE i # next
    <3>1. i < next
      BY <1>3, <2>2, AnomalyRegions
    <3>2. Matched(i)
      BY <1>1, <3>1 DEF SeenInv
    <3>3. seen'[i] = seen[i]
      BY <1>2, <2>2 DEF PageInv
    <3> QED BY <1>1, <3>2, <3>3, MatchStays
  <2> QED BY <2>1, <2>2
<1>7. FirstRunInv'
  <2> SUFFICES ASSUME interruptions = 0
               PROVE  /\ PageRegions \subseteq fresh
                      /\ stage' = "extraction" => \A i \in PageRegions : i >= next' => rows'[i] = <<>>
    BY <1>1, <1>3 DEF FirstRunInv
  <2>1. PageRegions \subseteq fresh /\ \A i \in PageRegions : i >= next => rows[i] = <<>>
    BY <1>1 DEF FirstRunInv
  <2>2. stage' = "extraction" => \A i \in PageRegions : i >= next' => i >= next /\ i # next
    BY <1>3, AnomalyRegions
  <2>3. \A i \in PageRegions : i # next => rows'[i] = rows[i]
    BY <1>1 DEF PageInv
  <2> QED BY <2>1, <2>2, <2>3
<1>8. FlagsInv'
  BY <1>1, <1>3, JudgementStays DEF PageInv
<1> QED BY <1>4, <1>5, <1>6, <1>7, <1>8

LEMMA FailureKeeps ==
  ASSUME AnomaliesInv, ExtractionFails PROVE AnomaliesInv'
<1> USE DEF AnomaliesInv
<1>1. /\ stage' = "error"
      /\ UNCHANGED <<page, next, recorded, fresh, rows, seen, flags, interruptions, corrected>>
  BY DEF ExtractionFails
<1>2. PageInv' /\ RowsInv'
  BY <1>1, RowsStay DEF PageInv
<1>3. SeenInv' /\ FirstRunInv'
  BY <1>1 DEF SeenInv, FirstRunInv
<1>4. FlagsInv'
  BY <1>1, JudgementStays DEF PageInv
<1> QED BY <1>2, <1>3, <1>4

LEMMA InterruptionKeeps ==
  ASSUME AnomaliesInv, Interrupted PROVE AnomaliesInv'
<1> USE DEF AnomaliesInv
<1>1. /\ interruptions' = interruptions + 1
      /\ stage' = "ocr" /\ next' = 1 /\ fresh' = {}
      /\ seen' = [i \in PageRegions |-> <<>>]
      /\ UNCHANGED <<page, recorded, rows, flags, corrected>>
  BY DEF Interrupted
<1>2. PageInv'
  BY <1>1, AnomalyRegions DEF PageInv
<1>3. RowsInv'
  BY <1>1, RowsStay
<1>4. SeenInv'
  BY <1>1 DEF SeenInv
<1>5. FirstRunInv'
  BY <1>1 DEF FirstRunInv, PageInv
<1>6. FlagsInv'
  BY <1>1, <1>2, JudgementStays DEF PageInv
<1> QED BY <1>2, <1>3, <1>4, <1>5, <1>6

LEMMA CorrectionKeeps ==
  ASSUME AnomaliesInv, NEW i \in PageRegions, NEW j \in DOMAIN rows[i], NEW value \in Corrections,
         CorrectEntity(i, j, value)
  PROVE  AnomaliesInv'
<1> USE DEF AnomaliesInv
<1>1. /\ rows' = [rows EXCEPT ![i][j].value = value]
      /\ corrected' = corrected \cup {<<i, j>>}
      /\ UNCHANGED <<page, stage, next, recorded, fresh, seen, flags, interruptions>>
  BY DEF CorrectEntity
<1>2. PageInv'
  BY <1>1 DEF PageInv
<1>3. rows[i] # <<>> /\ rows[i] \in [DOMAIN page[i].found -> Row]
  <2>1. rows[i] # <<>>
    OBVIOUS
  <2> QED BY <2>1 DEF RowsInv
<1>4. rows'[i] = [rows[i] EXCEPT ![j] = [rows[i][j] EXCEPT !.value = value]]
  BY <1>1 DEF PageInv
<1>5. PICK row \in Row : row = rows[i][j]
  BY <1>3
<1>6. /\ [row EXCEPT !.value = value] \in Row
      /\ [row EXCEPT !.value = value].type = row.type /\ [row EXCEPT !.value = value].raw = row.raw
  BY DEF Row
<1>7. RowsInv'
  <2> SUFFICES ASSUME NEW k \in PageRegions, rows'[k] # <<>>
               PROVE  /\ rows'[k] \in [DOMAIN page[k].found -> Row]
                      /\ \A l \in DOMAIN page[k].found :
                           /\ rows'[k][l].type = page[k].found[l].type
                           /\ rows'[k][l].raw = page[k].found[l].raw
                           /\ rows'[k][l].value = page[k].found[l].value \/ <<k, l>> \in corrected'
    BY <1>1 DEF RowsInv
  <2>1. CASE k # i
    <3>1. rows'[k] = rows[k]
      BY <1>1, <2>1 DEF PageInv
    <3> QED BY <1>1, <3>1 DEF RowsInv
  <2>2. CASE k = i
    <3>1. rows'[i] \in [DOMAIN page[i].found -> Row]
      BY <1>3, <1>4, <1>5, <1>6
    <3>2. ASSUME NEW l \in DOMAIN page[i].found
          PROVE  /\ rows'[i][l].type = page[i].found[l].type
                 /\ rows'[i][l].raw = page[i].found[l].raw
                 /\ rows'[i][l].value = page[i].found[l].value \/ <<i, l>> \in corrected'
      <4>1. /\ rows[i][l].type = page[i].found[l].type
            /\ rows[i][l].raw = page[i].found[l].raw
            /\ rows[i][l].value = page[i].found[l].value \/ <<i, l>> \in corrected
        BY <1>3 DEF RowsInv
      <4>2. CASE l = j
        BY <1>1, <1>3, <1>4, <1>5, <1>6, <4>1, <4>2
      <4>3. CASE l # j
        BY <1>1, <1>3, <1>4, <4>1, <4>3
      <4> QED BY <4>2, <4>3
    <3> QED BY <2>2, <3>1, <3>2
  <2> QED BY <2>1, <2>2
<1>8. SeenInv'
  BY <1>1, MatchStays DEF SeenInv
<1>9. FirstRunInv'
  <2>1. ASSUME NEW k \in PageRegions, rows[k] = <<>>
        PROVE  rows'[k] = <<>>
    <3>1. k # i
      BY <1>3, <2>1
    <3> QED BY <1>1, <2>1, <3>1 DEF PageInv
  <2> QED BY <1>1, <2>1 DEF FirstRunInv
<1>10. FlagsInv'
  BY <1>1, JudgementStays DEF PageInv
<1> QED BY <1>2, <1>7, <1>8, <1>9, <1>10

\* What the run reads the page as, and what one run reads it as.
ReadAs == [i \in PageRegions |-> IF i \in fresh THEN page[i].reading ELSE Reloaded(page[i].reading)]
All    == DetectAll(ReadAs, seen)
AllOfOne == DetectAll([i \in PageRegions |-> page[i].reading], [i \in PageRegions |-> page[i].found])

LEMMA FlagFields ==
  ASSUME NEW type, NEW severity, NEW region, NEW about, NEW value, NEW nth
  PROVE  LET f == Flag(type, severity, region, about, value, nth)
         IN  /\ f.type = type /\ f.severity = severity /\ f.region = region /\ f.about = about
             /\ f.value = value /\ f.nth = nth
             /\ Says(f) = [type |-> type, severity |-> severity, region |-> region,
                           about |-> about, value |-> value]
BY DEF Flag, Says

LEMMA SaysFields ==
  ASSUME NEW f
  PROVE  Says(f).type = f.type /\ Says(f).region = f.region /\ Says(f).about = f.about
BY DEF Says

LEMMA Detected ==
  ASSUME NEW readings, NEW found, NEW f
  PROVE  f \in DetectAll(readings, found) <=>
           \/ \E i \in PageRegions : \/ f \in ReadingFlags(i, readings[i])
                                     \/ f \in ValueFlags(i, found[i])
                                     \/ f \in FailureFlags(i, found[i])
           \/ f \in NameFlags(found)
<1> DEFINE Of(i) == ReadingFlags(i, readings[i]) \cup ValueFlags(i, found[i]) \cup FailureFlags(i, found[i])
           Regional == UNION {Of(i) : i \in PageRegions}
<1>1. DetectAll(readings, found) = Regional \cup NameFlags(found)
  BY DEF DetectAll
<1>2. \A i : f \in Of(i) <=> \/ f \in ReadingFlags(i, readings[i])
                             \/ f \in ValueFlags(i, found[i])
                             \/ f \in FailureFlags(i, found[i])
  OBVIOUS
<1>3. f \in Regional <=> \E i \in PageRegions : f \in Of(i)
  <2> HIDE DEF Of
  <2> QED OBVIOUS
<1> HIDE DEF Regional
<1>4. f \in DetectAll(readings, found) <=> f \in Regional \/ f \in NameFlags(found)
  BY <1>1
<1> QED BY <1>2, <1>3, <1>4, Zenon

LEMMA ReadingFlag ==
  ASSUME NEW i, NEW reading, NEW f \in ReadingFlags(i, reading)
  PROVE  /\ f.type \in {"illegible", "low_ocr_confidence"}
         /\ f.region = i /\ f.about = {}
BY FlagFields DEF ReadingFlags, LowFlag

LEMMA FailureFlag ==
  ASSUME NEW i, NEW found, NEW f \in FailureFlags(i, found)
  PROVE  f.type = "extraction_failure" /\ f.region = i /\ f.about = {} /\ f.nth = 0
BY FlagFields DEF FailureFlags

LEMMA ValueFlagOnce ==
  ASSUME NEW i, NEW found, NEW f, f \in ValueFlags(i, found), NEW g, g \in ValueFlags(i, found), f.nth = g.nth
  PROVE  f = g
<1> DEFINE Of(n) == Flag("entity_conflict", "medium", i, {found[n].raw}, found[n].value, n)
<1>1. PICK n : f = Of(n)
  BY DEF ValueFlags
<1>2. PICK m : g = Of(m)
  BY DEF ValueFlags
<1>3. f.nth = n /\ g.nth = m
  BY <1>1, <1>2, FlagFields
<1> QED BY <1>1, <1>2, <1>3

LEMMA ValueFlag ==
  ASSUME NEW i, NEW found, NEW f, f \in ValueFlags(i, found)
  PROVE  /\ f.nth \in DOMAIN found
         /\ f.type = "entity_conflict" /\ f.region = i
         /\ f.about = {found[f.nth].raw} /\ f.value = found[f.nth].value
         /\ found[f.nth].type \in {"date", "amount"}
<1>1. PICK n \in DOMAIN found :
        /\ f = Flag("entity_conflict", "medium", i, {found[n].raw}, found[n].value, n)
        /\ found[n].type \in {"date", "amount"}
  BY DEF ValueFlags, Implausible
<1>2. f.nth = n /\ f.type = "entity_conflict" /\ f.region = i /\ f.about = {found[n].raw} /\ f.value = found[n].value
  BY <1>1, FlagFields
<1> QED BY <1>1, <1>2

LEMMA NameFlag ==
  ASSUME NEW found, NEW f \in NameFlags(found)
  PROVE  f.type = "entity_conflict" /\ f.value = 0 /\ f.about \in Similar /\ f.nth = 0
<1>1. PICK pair \in Similar :
        f = Flag("entity_conflict", "medium", Min({i \in PageRegions : Persons(found[i]) \cap pair # {}}), pair, 0, 0)
  BY DEF NameFlags
<1> QED BY <1>1, FlagFields

\* The text of a region is only judged differently in the words a run has not read itself.
LEMMA ReadingsJudged ==
  ASSUME PageInv, FirstRunInv, stage = "anomalies", NEW i \in PageRegions
  PROVE  /\ ReadingFlags(i, ReadAs[i]) \subseteq ReadingFlags(i, page[i].reading)
         /\ \A f \in ReadingFlags(i, page[i].reading) \ ReadingFlags(i, ReadAs[i]) : Lost(f)
<1> DEFINE r == page[i].reading
<1>1. CASE i \in fresh
  BY <1>1 DEF ReadAs
<1>2. CASE i \notin fresh
  <2>1. interruptions > 0
    BY <1>2 DEF FirstRunInv, PageInv
  <2>2. ReadAs[i] = Reloaded(r)
    BY <1>2 DEF ReadAs
  <2>3. /\ Reloaded(r).confidence = r.confidence /\ Reloaded(r).noise = r.noise
        /\ Reloaded(r).words = <<>>
    BY OnThePage DEF Reloaded, Reading
  <2> HIDE DEF r
  <2>4. CASE Illegible(r) \/ r.confidence < LowConfidence
    <3>1. Illegible(Reloaded(r)) <=> Illegible(r)
      BY <2>3 DEF Illegible
    <3>2. ReadingFlags(i, Reloaded(r)) = ReadingFlags(i, r)
      <4>1. CASE Illegible(r)
        BY <2>3, <3>1, <4>1 DEF ReadingFlags
      <4>2. CASE ~Illegible(r) /\ r.confidence < LowConfidence
        BY <2>3, <3>1, <4>2 DEF ReadingFlags
      <4> QED BY <2>4, <4>1, <4>2
    <3> QED BY <2>2, <3>2 DEF r
  <2>5. CASE ~Illegible(r) /\ ~(r.confidence < LowConfidence)
    <3>1. ReadingFlags(i, ReadAs[i]) = {}
      BY <2>2, <2>3, <2>5 DEF ReadingFlags, Illegible
    <3>2. ASSUME NEW f \in ReadingFlags(i, r)
          PROVE  f.type = "low_ocr_confidence" /\ f.region = i
      BY <2>5, FlagFields DEF ReadingFlags, LowFlag
    <3>3. r.confidence >= LowConfidence
      <4>1. r \in Reading /\ LowConfidence \in Nat
        BY OnThePage, AnomaliesAssumption DEF r
      <4>2. r.confidence \in 0..100
        BY <4>1 DEF Reading
      <4> QED BY <2>5, <4>1, <4>2
    <3> QED BY <2>1, <3>1, <3>2, <3>3 DEF Lost, r
  <2> QED BY <2>4, <2>5 DEF r
<1> QED BY <1>1, <1>2

LEMMA TypesMatched ==
  ASSUME NEW i, Matched(i)
  PROVE  /\ Persons(seen[i]) = Persons(page[i].found)
         /\ FailureFlags(i, seen[i]) = FailureFlags(i, page[i].found)
<1>1. \A k \in DOMAIN seen[i] : \E j \in DOMAIN page[i].found :
        seen[i][k].type = page[i].found[j].type /\ seen[i][k].raw = page[i].found[j].raw
  BY DEF Matched
<1>2. \A j \in DOMAIN page[i].found : \E k \in DOMAIN seen[i] :
        seen[i][k].type = page[i].found[j].type /\ seen[i][k].raw = page[i].found[j].raw
  <2> TAKE j \in DOMAIN page[i].found
  <2>1. PICK k \in DOMAIN seen[i] : seen[i][k].id = j
    BY DEF Matched
  <2> QED BY <2>1 DEF Matched
<1>3. Persons(seen[i]) = Persons(page[i].found)
  BY <1>1, <1>2 DEF Persons
<1>4. \A t : (\A k \in DOMAIN seen[i] : seen[i][k].type # t)
              <=> (\A j \in DOMAIN page[i].found : page[i].found[j].type # t)
  BY <1>1, <1>2
<1>5. FailureFlags(i, seen[i]) = FailureFlags(i, page[i].found)
  BY <1>4 DEF FailureFlags
<1> QED BY <1>3, <1>5

LEMMA ValuesJudged ==
  ASSUME NEW i, Matched(i)
  PROVE  /\ \A f \in ValueFlags(i, seen[i]) :
              Disturbed(f) \/ \E g \in ValueFlags(i, page[i].found) : Says(g) = Says(f)
         /\ \A g \in ValueFlags(i, page[i].found) :
              Disturbed(g) \/ \E f \in ValueFlags(i, seen[i]) : Says(f) = Says(g)
<1> DEFINE F == page[i].found
           S == seen[i]
           Of(found, n) == Flag("entity_conflict", "medium", i, {found[n].raw}, found[n].value, n)
<1>1. ASSUME NEW k \in DOMAIN S, NEW j \in DOMAIN F, S[k].id = j
      PROVE  /\ S[k].type = F[j].type /\ S[k].raw = F[j].raw
             /\ S[k].value = F[j].value \/ (interruptions > 0 /\ F[j].raw \in CorrectedText(i))
  <2>1. /\ S[k].type = F[j].type /\ S[k].raw = F[j].raw
        /\ S[k].value = F[j].value \/ (interruptions > 0 /\ <<i, j>> \in corrected)
    BY <1>1 DEF Matched
  <2>2. <<i, j>> \in corrected => F[j].raw \in CorrectedText(i)
    BY DEF CorrectedText
  <2> QED BY <2>1, <2>2
<1>2. ASSUME NEW k \in DOMAIN S, NEW j \in DOMAIN F, S[k].id = j, S[k].value = F[j].value
      PROVE  /\ Implausible(S[k]) <=> Implausible(F[j])
             /\ Says(Of(S, k)) = Says(Of(F, j))
  <2>1. S[k].type = F[j].type /\ S[k].raw = F[j].raw
    BY <1>1, <1>2
  <2>2. Implausible(S[k]) <=> Implausible(F[j])
    BY <1>2, <2>1 DEF Implausible
  <2>3. Says(Of(S, k)) = Says(Of(F, j))
    BY <1>2, <2>1, FlagFields
  <2> QED BY <2>2, <2>3
<1>3. ASSUME NEW f \in ValueFlags(i, S)
      PROVE  Disturbed(f) \/ \E g \in ValueFlags(i, F) : Says(g) = Says(f)
  <2>1. PICK k \in DOMAIN S : Implausible(S[k]) /\ f = Of(S, k)
    BY DEF ValueFlags
  <2>2. PICK j \in DOMAIN F : S[k].id = j
    BY DEF Matched
  <2>3. CASE S[k].value = F[j].value
    <3>1. Implausible(F[j]) /\ Says(Of(F, j)) = Says(f)
      BY <1>2, <2>1, <2>2, <2>3
    <3>2. Of(F, j) \in ValueFlags(i, F)
      BY <3>1 DEF ValueFlags
    <3> QED BY <3>1, <3>2
  <2>4. CASE S[k].value # F[j].value
    <3>1. interruptions > 0 /\ S[k].raw \in CorrectedText(i)
      BY <1>1, <2>2, <2>4
    <3>2. f.type = "entity_conflict" /\ f.region = i /\ f.about = {S[k].raw}
      BY <2>1, FlagFields
    <3> QED BY <3>1, <3>2 DEF Disturbed
  <2> QED BY <2>3, <2>4
<1>4. ASSUME NEW g \in ValueFlags(i, F)
      PROVE  Disturbed(g) \/ \E f \in ValueFlags(i, S) : Says(f) = Says(g)
  <2>1. PICK j \in DOMAIN F : Implausible(F[j]) /\ g = Of(F, j)
    BY DEF ValueFlags
  <2>2. PICK k \in DOMAIN S : S[k].id = j
    BY DEF Matched
  <2>3. CASE S[k].value = F[j].value
    <3>1. Implausible(S[k]) /\ Says(Of(S, k)) = Says(g)
      BY <1>2, <2>1, <2>2, <2>3
    <3>2. Of(S, k) \in ValueFlags(i, S)
      BY <3>1 DEF ValueFlags
    <3> QED BY <3>1, <3>2
  <2>4. CASE S[k].value # F[j].value
    <3>1. interruptions > 0 /\ F[j].raw \in CorrectedText(i)
      BY <1>1, <2>2, <2>4
    <3>2. g.type = "entity_conflict" /\ g.region = i /\ g.about = {F[j].raw}
      BY <2>1, FlagFields
    <3> QED BY <3>1, <3>2 DEF Disturbed
  <2> QED BY <2>3, <2>4
<1> QED BY <1>3, <1>4

LEMMA NamesMatched ==
  ASSUME \A i \in PageRegions : Matched(i)
  PROVE  NameFlags(seen) = NameFlags([i \in PageRegions |-> page[i].found])
<1> DEFINE found == [i \in PageRegions |-> page[i].found]
<1>1. \A i \in PageRegions : Persons(seen[i]) = Persons(found[i])
  BY TypesMatched
<1> HIDE DEF found
<1>2. \A pair : {i \in PageRegions : Persons(seen[i]) \cap pair # {}}
                  = {i \in PageRegions : Persons(found[i]) \cap pair # {}}
  BY <1>1
<1>3. {pair \in Similar : \A name \in pair : \E i \in PageRegions : name \in Persons(seen[i])}
        = {pair \in Similar : \A name \in pair : \E i \in PageRegions : name \in Persons(found[i])}
  BY <1>1
<1> QED BY <1>2, <1>3 DEF NameFlags, found

\* What the run flags is what one run would have flagged, but for lost words and corrected
\* values.
LEMMA PageJudged ==
  ASSUME PageInv, FirstRunInv, stage = "anomalies", \A i \in PageRegions : Matched(i)
  PROVE  /\ \A g \in AllOfOne : Lost(g) \/ Disturbed(g) \/ \E f \in All : Says(f) = Says(g)
         /\ \A f \in All : Disturbed(f) \/ \E g \in AllOfOne : Says(g) = Says(f)
<1> DEFINE readings == [i \in PageRegions |-> page[i].reading]
           found    == [i \in PageRegions |-> page[i].found]
<1>1. \A i \in PageRegions : readings[i] = page[i].reading /\ found[i] = page[i].found
  OBVIOUS
<1>2. NameFlags(seen) = NameFlags(found)
  BY NamesMatched
<1>3. AllOfOne = DetectAll(readings, found)
  BY DEF AllOfOne
<1> HIDE DEF readings, found
<1>4. ASSUME NEW g \in AllOfOne
      PROVE  Lost(g) \/ Disturbed(g) \/ \E f \in All : Says(f) = Says(g)
  <2>1. CASE g \in NameFlags(found)
    BY <1>2, <2>1, Detected DEF All
  <2>2. ASSUME NEW i \in PageRegions, g \in ReadingFlags(i, readings[i])
        PROVE  Lost(g) \/ \E f \in All : Says(f) = Says(g)
    <3>1. g \in ReadingFlags(i, ReadAs[i]) => g \in All
      BY Detected DEF All
    <3> QED BY <1>1, <2>2, <3>1, ReadingsJudged
  <2>3. ASSUME NEW i \in PageRegions, g \in ValueFlags(i, found[i])
        PROVE  Disturbed(g) \/ \E f \in All : Says(f) = Says(g)
    <3>1. \A f \in ValueFlags(i, seen[i]) : f \in All
      BY Detected DEF All
    <3> QED BY <1>1, <2>3, <3>1, ValuesJudged
  <2>4. ASSUME NEW i \in PageRegions, g \in FailureFlags(i, found[i])
        PROVE  g \in All
    <3>1. g \in FailureFlags(i, seen[i])
      BY <1>1, <2>4, TypesMatched
    <3> QED BY <3>1, Detected DEF All
  <2> QED BY <1>3, <2>1, <2>2, <2>3, <2>4, Detected
<1>5. ASSUME NEW f \in All
      PROVE  Disturbed(f) \/ \E g \in AllOfOne : Says(g) = Says(f)
  <2>1. CASE f \in NameFlags(seen)
    BY <1>2, <1>3, <2>1, Detected
  <2>2. ASSUME NEW i \in PageRegions, f \in ReadingFlags(i, ReadAs[i])
        PROVE  f \in AllOfOne
    <3>1. f \in ReadingFlags(i, readings[i])
      BY <1>1, <2>2, ReadingsJudged
    <3> QED BY <1>3, <3>1, Detected
  <2>3. ASSUME NEW i \in PageRegions, f \in ValueFlags(i, seen[i])
        PROVE  Disturbed(f) \/ \E g \in AllOfOne : Says(g) = Says(f)
    <3>1. \A g \in ValueFlags(i, found[i]) : g \in AllOfOne
      BY <1>3, Detected
    <3> QED BY <1>1, <2>3, <3>1, ValuesJudged
  <2>4. ASSUME NEW i \in PageRegions, f \in FailureFlags(i, seen[i])
        PROVE  f \in AllOfOne
    <3>1. f \in FailureFlags(i, found[i])
      BY <1>1, <2>4, TypesMatched
    <3> QED BY <1>3, <3>1, Detected
  <2> QED BY <2>1, <2>2, <2>3, <2>4, Detected DEF All
<1> QED BY <1>4, <1>5

\* Of a set of numbers each rank below its size is taken by one of them.
LEMMA LessOne ==
  ASSUME NEW T, IsFiniteSet(T), NEW t \in T
  PROVE  /\ IsFiniteSet(T \ {t})
         /\ Cardinality(T) \in Nat /\ Cardinality(T \ {t}) = Cardinality(T) - 1
BY FS_RemoveElement, FS_CardinalityType

LEMMA NthIn ==
  ASSUME NEW bound \in Nat, NEW S \in SUBSET (0..bound), NEW n \in Nat, n < Cardinality(S)
  PROVE  Nth(S, n) \in S /\ Cardinality({j \in S : j < Nth(S, n)}) = n
<1> DEFINE Before(k) == {j \in S : j < k}
           Late == {k \in S : Cardinality(Before(k)) >= n}
<1>1. \A T \in SUBSET S : IsFiniteSet(T) /\ Cardinality(T) \in Nat /\ T \in SUBSET (0..bound)
  <2>1. IsFiniteSet(0..bound)
    BY FS_Interval
  <2> QED BY <2>1, FS_Subset, FS_CardinalityType
<1>2. ASSUME NEW k \in S, NEW T \in SUBSET S, NEW last \in T, \A j \in T : j <= last,
             \A j \in S : j < last => j \in T, T = S \/ T = Before(k)
      PROVE  Cardinality(Before(last)) = Cardinality(T) - 1
  <2>1. S \in SUBSET Nat /\ T \in SUBSET S
    BY <1>2
  <2>2. \A j \in S : j \in Nat
    BY <2>1
  <2>3. ASSUME NEW j \in S PROVE j < last <=> j \in T /\ j # last
    BY <1>2, <2>1, <2>2
  <2>4. Before(last) = T \ {last}
    BY <2>1, <2>3
  <2> QED BY <1>1, <2>1, <2>4, LessOne
<1>3. Late # {}
  <2>1. S # {} /\ Cardinality(S) \in Nat
    BY <1>1, FS_EmptySet
  <2>2. Max(S) \in S /\ \A j \in S : j <= Max(S)
    BY <2>1, GreatestIn
  <2>3. Cardinality(Before(Max(S))) = Cardinality(S) - 1
    BY <1>2, <2>2
  <2> QED BY <2>1, <2>2, <2>3
<1>4. PICK least \in Late : \A k \in Late : least <= k
  <2>1. Late \in SUBSET S /\ S \in SUBSET Nat
    <3> HIDE DEF Before
    <3> QED OBVIOUS
  <2> HIDE DEF Late
  <2> QED BY <1>3, <2>1, LeastNatural
<1>5. Cardinality(Before(least)) = n
  <2> SUFFICES ASSUME Cardinality(Before(least)) # n PROVE FALSE
    OBVIOUS
  <2>1. Cardinality(Before(least)) \in Nat /\ Cardinality(Before(least)) > n
    BY <1>1
  <2>2. Before(least) # {}
    BY <2>1, FS_EmptySet
  <2>3. PICK last \in Before(least) : \A j \in Before(least) : j <= last
    BY <1>1, <2>2, GreatestIn
  <2>4. Cardinality(Before(last)) = Cardinality(Before(least)) - 1
    BY <1>2, <2>3
  <2> QED BY <1>4, <2>1, <2>3, <2>4
<1> HIDE DEF Late
<1>6. \E k \in S : Cardinality({j \in S : j < k}) = n
  BY <1>5 DEF Late
<1> QED BY <1>6 DEF Nth

\* The words and entities flagged before a flag's own, of the same region and text.
Given(flag) ==
  {f.nth : f \in {f \in All : f.region = flag.region /\ f.about = flag.about /\ f.nth < flag.nth}}

OfValue(f) == f.region \in PageRegions /\ f \in ValueFlags(f.region, seen[f.region])

LEMMA NamedAs ==
  ASSUME NEW f
  PROVE  Named(All, f) = IF Cardinality(Given(f)) < Cardinality(Candidates(f))
                         THEN seen[f.region][Nth(Candidates(f), Cardinality(Given(f)))].id ELSE 0
BY Zenon DEF Named, Given

LEMMA FlagShapes ==
  ASSUME PageInv, \A i \in PageRegions : Matched(i), NEW f \in All
  PROVE  /\ f.nth \in Nat
         /\ \/ OfValue(f)
            \/ /\ f.type = "entity_conflict" => f.value = 0
               /\ \A raw : f.about # {raw}
<1>1. CASE f \in NameFlags(seen)
  <2>1. f.about \in Similar /\ f.value = 0 /\ f.nth = 0
    BY <1>1, NameFlag
  <2>2. \A raw : f.about # {raw}
    BY <2>1, AnomaliesAssumption
  <2> QED BY <2>1, <2>2
<1>2. ASSUME NEW i \in PageRegions, f \in ReadingFlags(i, ReadAs[i])
      PROVE  f.nth \in Nat /\ f.type # "entity_conflict" /\ f.about = {}
  <2>1. ReadAs[i] \in Reading
    <3>1. \A r \in Reading : Reloaded(r) \in Reading
      <4> TAKE r \in Reading
      <4>1. <<>> \in Seq(0..100)
        OBVIOUS
      <4> QED BY <4>1 DEF Reading, Reloaded
    <3> QED BY <3>1, OnThePage DEF ReadAs
  <2>2. ReadAs[i].words \in Seq(0..100)
    BY <2>1 DEF Reading
  <2>3. DOMAIN ReadAs[i].words \subseteq Nat
    BY <2>2
  <2>4. f.nth \in Nat
    BY <1>2, <2>3, FlagFields DEF ReadingFlags, LowFlag
  <2> QED BY <1>2, <2>4, ReadingFlag
<1>3. ASSUME NEW i \in PageRegions, f \in ValueFlags(i, seen[i])
      PROVE  f.nth \in Nat /\ OfValue(f)
  <2>1. f.nth \in DOMAIN seen[i] /\ f.region = i
    BY <1>3, ValueFlag
  <2>2. DOMAIN seen[i] \subseteq Nat
    BY OnThePage DEF Matched
  <2> QED BY <1>3, <2>1, <2>2 DEF OfValue
<1>4. ASSUME NEW i \in PageRegions, f \in FailureFlags(i, seen[i])
      PROVE  f.nth \in Nat /\ f.type # "entity_conflict" /\ f.about = {}
  BY <1>4, FailureFlag
<1> QED BY <1>1, <1>2, <1>3, <1>4, Detected DEF All

LEMMA Unnamed ==
  ASSUME PageInv, \A i \in PageRegions : Matched(i), NEW f \in All, ~OfValue(f)
  PROVE  Named(All, f) = 0
<1>1. f.nth \in Nat /\ \A raw : f.about # {raw}
  BY FlagShapes
<1>2. Candidates(f) = {}
  BY <1>1 DEF Candidates
<1>3. Given(f) \in SUBSET (0..f.nth)
  BY <1>1, FlagShapes DEF Given
<1>4. Cardinality(Given(f)) \in Nat /\ Cardinality(Candidates(f)) = 0
  <2>1. IsFiniteSet(0..f.nth)
    BY <1>1, FS_Interval
  <2>2. IsFiniteSet(Given(f))
    BY <1>3, <2>1, FS_Subset
  <2> QED BY <1>2, <2>2, FS_CardinalityType, FS_EmptySet
<1> QED BY <1>4, NamedAs

\* The flags of values are given each an entity of its text.
LEMMA Ranked ==
  ASSUME PageInv, \A i \in PageRegions : Matched(i), NEW f \in All, OfValue(f)
  PROVE  /\ f.nth \in Candidates(f) /\ Candidates(f) \in SUBSET Nat /\ IsFiniteSet(Candidates(f))
         /\ Given(f) \in SUBSET {k \in Candidates(f) : k < f.nth}
         /\ Cardinality(Given(f)) \in Nat
         /\ Nth(Candidates(f), Cardinality(Given(f))) \in Candidates(f)
         /\ Cardinality({k \in Candidates(f) : k < Nth(Candidates(f), Cardinality(Given(f)))})
              = Cardinality(Given(f))
         /\ Named(All, f) = seen[f.region][Nth(Candidates(f), Cardinality(Given(f)))].id
<1>0. PICK i \in PageRegions : i = f.region /\ f \in ValueFlags(i, seen[i])
  BY DEF OfValue
<1> DEFINE bound == Len(page[i].found)
<1>1. f.nth \in DOMAIN seen[i] /\ f.about = {seen[i][f.nth].raw}
  <2>1. f \in ValueFlags(i, seen[i])
    BY <1>0
  <2> QED BY <2>1, ValueFlag
<1>2. bound \in Nat /\ DOMAIN seen[i] = 1..bound
  BY <1>1, OnThePage DEF Matched
<1>3. f.nth \in Candidates(f) /\ Candidates(f) \in SUBSET (0..bound)
  BY <1>0, <1>1, <1>2 DEF Candidates
<1>4. Given(f) \in SUBSET {k \in Candidates(f) : k < f.nth}
  <2> SUFFICES ASSUME NEW g \in All, g.region = f.region, g.about = f.about, g.nth < f.nth
               PROVE  g.nth \in Candidates(f)
    BY DEF Given
  <2>1. OfValue(g)
    BY <1>1, FlagShapes
  <2>2. g \in ValueFlags(i, seen[i])
    BY <1>0, <2>1 DEF OfValue
  <2>3. g.nth \in DOMAIN seen[i] /\ g.about = {seen[i][g.nth].raw}
    BY <2>2, ValueFlag
  <2> QED BY <1>0, <2>3 DEF Candidates
<1>5. IsFiniteSet(Candidates(f))
  <2>1. IsFiniteSet(0..bound)
    <3> HIDE DEF bound
    <3> QED BY <1>2, FS_Interval
  <2> QED BY <1>3, <2>1, FS_Subset
<1>6. Given(f) \in SUBSET Candidates(f) /\ Given(f) # Candidates(f)
  BY <1>2, <1>3, <1>4
<1>7. Cardinality(Given(f)) \in Nat /\ Cardinality(Given(f)) < Cardinality(Candidates(f))
  BY <1>5, <1>6, FewerOf
<1> HIDE DEF bound
<1>8. /\ Nth(Candidates(f), Cardinality(Given(f))) \in Candidates(f)
      /\ Cardinality({k \in Candidates(f) : k < Nth(Candidates(f), Cardinality(Given(f)))})
           = Cardinality(Given(f))
  BY <1>2, <1>3, <1>7, NthIn
<1>9. Candidates(f) \in SUBSET Nat
  BY <1>2, <1>3
<1> QED BY <1>3, <1>4, <1>5, <1>7, <1>8, <1>9, NamedAs

LEMMA NamedApart ==
  ASSUME PageInv, \A i \in PageRegions : Matched(i), NEW f \in All, OfValue(f),
         NEW g \in All, OfValue(g), f.region = g.region, f.about = g.about, f.nth < g.nth
  PROVE  Named(All, f) # Named(All, g)
<1>1. Candidates(f) = Candidates(g)
  BY DEF Candidates
<1>2. Given(f) \in SUBSET Given(g) /\ f.nth \in Given(g) /\ f.nth \notin Given(f)
  <2>1. f.nth \in Nat /\ g.nth \in Nat /\ \A h \in All : h.nth \in Nat
    BY FlagShapes
  <2>2. f.nth \in Given(g) /\ f.nth \notin Given(f)
    BY <2>1 DEF Given
  <2>3. Given(f) \in SUBSET Given(g)
    BY <2>1 DEF Given
  <2> QED BY <2>2, <2>3
<1>3. Given(g) \in SUBSET Candidates(g) /\ IsFiniteSet(Candidates(g))
  BY Ranked
<1>4. Cardinality(Given(f)) < Cardinality(Given(g)) /\ Cardinality(Given(f)) \in Nat /\ Cardinality(Given(g)) \in Nat
  BY <1>2, <1>3, FewerOf
<1> DEFINE kf == Nth(Candidates(f), Cardinality(Given(f)))
           kg == Nth(Candidates(g), Cardinality(Given(g)))
<1>5. /\ kf \in Candidates(f) /\ Cardinality({k \in Candidates(f) : k < kf}) = Cardinality(Given(f))
      /\ Named(All, f) = seen[f.region][kf].id
  BY Ranked
<1>6. /\ kg \in Candidates(g) /\ Cardinality({k \in Candidates(g) : k < kg}) = Cardinality(Given(g))
      /\ Named(All, g) = seen[g.region][kg].id
  BY Ranked
<1> HIDE DEF kf, kg
<1>7. kf # kg
  BY <1>1, <1>4, <1>5, <1>6
<1>8. \A k, l \in DOMAIN seen[f.region] : seen[f.region][k].id = seen[f.region][l].id => k = l
  <2>1. PICK i \in PageRegions : i = f.region /\ Matched(i)
    BY DEF OfValue
  <2> QED BY <2>1, IdsApart
<1>9. Candidates(f) \in SUBSET DOMAIN seen[f.region]
  BY DEF Candidates
<1> QED BY <1>1, <1>5, <1>6, <1>7, <1>8, <1>9

\* What FlagsNameTheirEntities says of the flag f given the entity j.
NamesIts(f, j) ==
  /\ f.type = "entity_conflict" /\ f.value # 0 =>
       /\ j # 0 /\ f.about = {page[f.region].found[j].raw}
       /\ page[f.region].found[j].value = f.value \/ f.about \subseteq CorrectedText(f.region)
  /\ f.type # "entity_conflict" => j = 0

LEMMA NamedRight ==
  ASSUME PageInv, \A i \in PageRegions : Matched(i), NEW f \in All
  PROVE  NamesIts(f, Named(All, f)) /\ (OfValue(f) => Named(All, f) # 0 /\ f.about = {page[f.region].found[Named(All, f)].raw})
<1>1. CASE ~OfValue(f)
  BY <1>1, FlagShapes, Unnamed DEF NamesIts
<1>2. CASE OfValue(f)
  <2>1. PICK i \in PageRegions : i = f.region /\ f \in ValueFlags(i, seen[i])
    BY <1>2 DEF OfValue
  <2> DEFINE k == Nth(Candidates(f), Cardinality(Given(f)))
             F == page[i].found
             j == seen[i][k].id
             n == seen[i][f.nth].id
  <2>2. k \in Candidates(f) /\ Named(All, f) = seen[f.region][k].id
    BY <1>2, Ranked
  <2> HIDE DEF k
  <2>3. k \in DOMAIN seen[i] /\ {seen[i][k].raw} = f.about /\ Named(All, f) = j
    BY <2>1, <2>2 DEF Candidates
  <2>4. f \in ValueFlags(i, seen[i]) /\ f.type = "entity_conflict"
    <3>1. f \in ValueFlags(i, seen[i])
      BY <2>1
    <3> QED BY <3>1, ValueFlag
  <2>5. /\ f.nth \in DOMAIN seen[i] /\ f.about = {seen[i][f.nth].raw} /\ f.value = seen[i][f.nth].value
        /\ seen[i][f.nth].type \in {"date", "amount"}
    BY <2>4, ValueFlag
  <2>6. Matched(i)
    BY <2>1
  <2>7. j \in DOMAIN F /\ seen[i][k].raw = F[j].raw
    <3>1. k \in DOMAIN seen[i]
      BY <2>3
    <3> QED BY <3>1, <2>6, MatchedAt
  <2>8. /\ n \in DOMAIN F /\ seen[i][f.nth].raw = F[n].raw /\ F[n].type \in {"date", "amount"}
        /\ seen[i][f.nth].value = F[n].value \/ <<i, n>> \in corrected
    <3>1. PICK m \in DOMAIN seen[i] : m = f.nth
      BY <2>5
    <3>2. /\ seen[i][m].id \in DOMAIN F /\ seen[i][m].raw = F[seen[i][m].id].raw
          /\ seen[i][m].type = F[seen[i][m].id].type
          /\ seen[i][m].value = F[seen[i][m].id].value \/ <<i, seen[i][m].id>> \in corrected
      BY <2>6, MatchedAt
    <3> QED BY <2>5, <3>1, <3>2
  <2> HIDE DEF F, j, n
  <2>9. F[j] = F[n] /\ j # 0
    <3>1. F[j].raw = F[n].raw
      BY <2>3, <2>5, <2>7, <2>8
    <3>2. /\ DOMAIN F \in SUBSET (Nat \ {0})
          /\ \A a, b \in DOMAIN F : F[a].raw = F[b].raw /\ F[a].type \in {"date", "amount"} => F[a] = F[b]
      BY OnThePage DEF F
    <3> QED BY <3>1, <3>2, <2>7, <2>8
  <2>10. F[j].value = f.value \/ F[j].raw \in CorrectedText(i)
    <3>1. <<i, n>> \in corrected => F[n].raw \in CorrectedText(i)
      BY DEF CorrectedText, F
    <3> QED BY <3>1, <2>5, <2>8, <2>9
  <2>11. f.about = {F[j].raw}
    BY <2>3, <2>7
  <2> QED BY <2>1, <2>3, <2>4, <2>9, <2>10, <2>11 DEF NamesIts, F
<1> QED BY <1>1, <1>2

\* No two flags of values of one region are given the same entity.
LEMMA NamedOnce ==
  ASSUME PageInv, \A i \in PageRegions : Matched(i),
         NEW f \in All, OfValue(f), NEW g \in All, f # g, f.region = g.region
  PROVE  Named(All, f) # Named(All, g)
<1>1. CASE ~OfValue(g)
  BY <1>1, Unnamed, NamedRight
<1>2. CASE OfValue(g) /\ f.about # g.about
  BY <1>2, NamedRight
<1>3. CASE OfValue(g) /\ f.about = g.about
  <2>1. f.nth # g.nth
    <3>1. PICK i \in PageRegions : i = f.region /\ f \in ValueFlags(i, seen[i]) /\ g \in ValueFlags(i, seen[i])
      BY <1>3 DEF OfValue
    <3>2. f \in ValueFlags(i, seen[i]) /\ g \in ValueFlags(i, seen[i])
      BY <3>1
    <3> QED BY <3>2, ValueFlagOnce
  <2>2. f.nth \in Nat /\ g.nth \in Nat
    BY FlagShapes
  <2>3. f.nth < g.nth \/ g.nth < f.nth
    BY <2>1, <2>2
  <2> QED BY <1>3, <2>3, NamedApart
<1> QED BY <1>1, <1>2, <1>3

LEMMA AnomalyKeeps ==
  ASSUME AnomaliesInv, AnomalyStage PROVE AnomaliesInv'
<1> USE DEF AnomaliesInv
<1>1. /\ stage = "anomalies" /\ stage' = "flagged"
      /\ flags' = IF flags # {} THEN flags ELSE {[flag |-> f, entity |-> Named(All, f)] : f \in All}
      /\ UNCHANGED <<page, next, recorded, fresh, rows, seen, interruptions, corrected>>
  BY Zenon DEF AnomalyStage, All, ReadAs
<1>2. PageInv'
  BY <1>1 DEF PageInv
<1>3. RowsInv'
  BY <1>1, RowsStay
<1>4. SeenInv' /\ FirstRunInv'
  BY <1>1 DEF SeenInv, FirstRunInv
<1>5. \A i \in PageRegions : Matched(i)
  BY <1>1 DEF SeenInv
<1>6. \A i : CorrectedText(i)' = CorrectedText(i)
  BY <1>1 DEF CorrectedText
<1>7. \A f : Lost(f)' = Lost(f) /\ Disturbed(f)' = Disturbed(f)
  BY <1>1 DEF Lost, Disturbed, CorrectedText
<1>8. Uninterrupted' = Uninterrupted
  BY <1>1 DEF Uninterrupted
<1>9. CASE flags # {}
  <2>1. Judged /\ FlagsNameTheirEntities
    BY <1>9 DEF FlagsInv
  <2>2. flags' = flags
    BY <1>1, <1>9
  <2>3. Judged'
    BY <1>7, <1>8, <2>1, <2>2 DEF Judged, Flagged
  <2>4. FlagsNameTheirEntities'
    <3>1. flags' = flags /\ page' = page /\ corrected' = corrected
      BY <1>1, <2>2
    <3> QED BY <2>1, <3>1 DEF FlagsNameTheirEntities, CorrectedText
  <2> QED BY <1>2, <1>3, <1>4, <2>3, <2>4 DEF FlagsInv
<1>10. CASE flags = {}
  <2>1. flags' = {[flag |-> f, entity |-> Named(All, f)] : f \in All}
    BY <1>1, <1>10
  <2>2. Flagged' = {Says(f) : f \in All}
    <3>1. \A f : [flag |-> f, entity |-> Named(All, f)].flag = f
      OBVIOUS
    <3>2. Flagged' = {Says(row.flag) : row \in flags'}
      BY DEF Flagged, Says
    <3> QED BY <2>1, <3>1, <3>2, Zenon
  <2>3. Uninterrupted = {Says(g) : g \in AllOfOne}
    BY DEF Uninterrupted, AllOfOne
  <2>4. \A f : (Lost(Says(f)) <=> Lost(f)) /\ (Disturbed(Says(f)) <=> Disturbed(f))
    BY SaysFields DEF Lost, Disturbed
  <2>5. /\ \A s \in Uninterrupted \ {Says(f) : f \in All} : Lost(s) \/ Disturbed(s)
        /\ \A s \in {Says(f) : f \in All} \ Uninterrupted : Disturbed(s)
    BY <1>1, <1>5, <2>3, <2>4, PageJudged
  <2>6. Judged'
    BY <1>7, <1>8, <2>2, <2>5 DEF Judged
  <2>7. FlagsNameTheirEntities'
    <3> SUFFICES ASSUME NEW f \in All
                 PROVE  /\ NamesIts(f, Named(All, f))
                        /\ f.type = "entity_conflict" /\ f.value # 0 =>
                             \A g \in All \ {f} : g.region = f.region => Named(All, g) # Named(All, f)
      BY <1>1, <1>6, <2>1 DEF FlagsNameTheirEntities, NamesIts
    <3> QED BY <1>5, FlagShapes, NamedRight, NamedOnce
  <2> QED BY <1>2, <1>3, <1>4, <2>6, <2>7 DEF FlagsInv
<1> QED BY <1>2, <1>3, <1>4, <1>9, <1>10

LEMMA AnomaliesStep ==
  ASSUME AnomaliesInv, [AnomaliesNext]_anomalyVars PROVE AnomaliesInv'
<1>1. CASE UNCHANGED anomalyVars
  <2>1. UNCHANGED <<page, stage, next, recorded, fresh, rows, seen, flags, interruptions, corrected>>
    BY <1>1 DEF anomalyVars
  <2>2. PageInv' /\ RowsInv' /\ FirstRunInv'
    BY <2>1, RowsStay DEF AnomaliesInv, PageInv, FirstRunInv
  <2>3. SeenInv'
    BY <2>1, MatchStays DEF AnomaliesInv, SeenInv
  <2>4. FlagsInv'
    BY <2>1, JudgementStays DEF AnomaliesInv, PageInv
  <2> QED BY <2>2, <2>3, <2>4 DEF AnomaliesInv
<1>2. CASE AnomaliesNext
  BY <1>2, OcrKeeps, ExtractionKeeps, FailureKeeps, AnomalyKeeps, InterruptionKeeps, CorrectionKeeps
     DEF AnomaliesNext
<1> QED BY <1>1, <1>2

LEMMA AnomaliesInvariant == AnomaliesSpec => []AnomaliesInv
BY AnomaliesBase, AnomaliesStep, PTL DEF AnomaliesSpec

\* A resumed run flags what one run would have flagged, but for the words it has not read
\* itself and the values reviewers corrected: _run_ocr_stage's comment says "that only costs
\* the word-level variant of detect_low_ocr_confidence".
THEOREM ResumedFlags == AnomaliesSpec => []ResumeLosesOnlyWordFlags
<1>1. AnomaliesInv => ResumeLosesOnlyWordFlags
  BY DEF AnomaliesInv, FlagsInv, Judged, Lost, Disturbed, ResumeLosesOnlyWordFlags
<1> QED BY <1>1, AnomaliesInvariant, PTL

\* _run_anomaly_stage's queues give each flag of an implausible value an entity of its text
\* in its region, no entity twice, and flags of readings none.
THEOREM FlagsNamed == AnomaliesSpec => []FlagsNameTheirEntities
<1>1. AnomaliesInv => FlagsNameTheirEntities
  BY DEF AnomaliesInv, FlagsInv
<1> QED BY <1>1, AnomaliesInvariant, PTL
==================================================================================
