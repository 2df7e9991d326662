--------------------------------- MODULE Values ---------------------------------
(* What the parsers of extraction/entities.py make of one match, and the entity's      *)
(* confidence (_combine_confidence). A run of digits is the number the digit table      *)
(* makes of it. Confidences are in hundredths, amounts in cents.                         *)
EXTENDS Integers, FiniteSets

CONSTANTS
  Days, Months, Years,                \* numbers a date is read with
  Pounds, Shillings, Pence, Dollars,  \* numbers an amount is read with
  OcrConfidences                      \* confidences of the text, in percent

ASSUME ValuesAssumption ==
  /\ Days \cup Months \cup Years \cup Pounds \cup Shillings \cup Pence \cup Dollars \subseteq Nat
  /\ OcrConfidences \subseteq 0..100

VARIABLES match, entity

valueVars == <<match, entity>>

\* Digits with letters the table turns into digits (misread), or with letters that only
\* IGNORECASE lets into the class and the table lacks (unread): "s", "z", "b", "L", "G".
DigitRuns(values, unread) == [value : values, misread : BOOLEAN, unread : unread]

\* Month 0: no name is like the word. Exact: it is a name, else one misspelt.
WordDates    == [kind : {"word"}, day : DigitRuns(Days, BOOLEAN), month : Months \cup {0},
                 exact : BOOLEAN, year : DigitRuns(Years, BOOLEAN)]
NumericDates == [kind : {"numeric"}, day : DigitRuns(Days, {FALSE}),
                 month : DigitRuns(Months, {FALSE}), year : DigitRuns(Years, {FALSE})]
Ledger       == [kind : {"gbp"}, pounds : DigitRuns(Pounds, {FALSE}), shillings : Shillings, pence : Pence]
BareLedger   == [kind : {"sd"}, shillings : Shillings, pence : Pence]
DollarSigns  == [kind : {"dollar"}, dollars : Dollars, cents : {0, 99}]
SpelledOut   == [kind : {"dollars"}, dollars : Dollars, cents : {0, 99, 100}]

Matches == WordDates \cup NumericDates \cup Ledger \cup BareLedger \cup DollarSigns \cup SpelledOut

\* datetime.date(year, month, day) does not raise, within the years accepted.
LeapYear(year) == year % 4 = 0 /\ (year % 100 # 0 \/ year % 400 = 0)
DaysIn(year, month) ==
  CASE month = 2 -> IF LeapYear(year) THEN 29 ELSE 28
    [] month \in {4, 6, 9, 11} -> 30
    [] OTHER -> 31
IsDate(year, month, day) ==
  year \in 1000..2100 /\ month \in 1..12 /\ day \in 1..DaysIn(year, month)

\* The parsers return a value.
Accepted(m) ==
  \/ /\ m.kind = "word"
     /\ ~m.day.unread /\ ~m.year.unread
     /\ IsDate(m.year.value, m.month, m.day.value)
  \/ m.kind = "numeric" /\ IsDate(m.year.value, m.month.value, m.day.value)
  \/ m.kind \in {"gbp", "sd"} /\ m.shillings <= 19 /\ m.pence <= 11
  \/ m.kind = "dollar"
  \/ m.kind = "dollars" /\ m.cents <= 99

\* Mutant: a misread part pays off.
MutantConfidence(m) ==
  CASE m.kind = "word" ->
         92 - 15 * Cardinality({part \in {"month", "day", "year"} :
           IF part = "month" THEN m.exact ELSE m[part].misread})
    [] m.kind = "numeric" ->
         IF \E part \in {"month", "day", "year"} : m[part].misread THEN 70 ELSE 85
    [] m.kind = "gbp"     -> IF m.pounds.misread THEN 70 ELSE 90
    [] m.kind = "sd"      -> 60
    [] m.kind = "dollar"  -> 95
    [] m.kind = "dollars" -> 85

Confidence(m) ==
  CASE m.kind = "word" ->
         92 - 15 * Cardinality({part \in {"month", "day", "year"} :
           IF part = "month" THEN ~m.exact ELSE m[part].misread})
    [] m.kind = "numeric" ->
         IF \E part \in {"month", "day", "year"} : m[part].misread THEN 70 ELSE 85
    [] m.kind = "gbp"     -> IF m.pounds.misread THEN 70 ELSE 90
    [] m.kind = "sd"      -> 60
    [] m.kind = "dollar"  -> 95
    [] m.kind = "dollars" -> 85

\* All in pence.
Sum(m) == (IF m.kind = "gbp" THEN 240 * m.pounds.value ELSE 0) + 12 * m.shillings + m.pence

\* Mutant: a shilling is a tenth of a pound.
MutantCents(m) ==
  {(((IF m.kind = "gbp" THEN 240 * m.pounds.value ELSE 0) + 24 * m.shillings + m.pence) * 5) \div 12}

\* The float pounds + shillings / 20 + pence / 240 rounded to cents: a half cent may be
\* rounded either way, as the float lies.
Cents(m) == {(10 * Sum(m) + 12) \div 24, (10 * Sum(m) + 11) \div 24}

ValuesOf(m) ==
  CASE m.kind = "word"    -> {<<m.year.value, m.month, m.day.value>>}
    [] m.kind = "numeric" -> {<<m.year.value, m.month.value, m.day.value>>}
    [] m.kind \in {"gbp", "sd"} -> {<<"GBP", cents>> : cents \in Cents(m)}
    [] OTHER -> {<<"USD", 100 * m.dollars + m.cents>>}

NoEntity == [type |-> "None"]

ValuesInit == match \in Matches /\ entity = NoEntity

\* The two confidences blended, in ten thousandths: what round(..., 4) keeps.
Blended(method, ocr) == method * ocr

Read ==
  /\ entity = NoEntity
  /\ Accepted(match)
  /\ \E value \in ValuesOf(match) : \E ocr \in OcrConfidences :
       entity' = [type |-> IF match.kind \in {"word", "numeric"} THEN "date" ELSE "amount",
                  value |-> value, ocr |-> ocr,
                  confidence |-> Blended(Confidence(match), ocr)]
  /\ UNCHANGED match

ValuesNext == Read

ValuesSpec == ValuesInit /\ [][ValuesNext]_valueVars

-------------------------------------------------------------------------------
\* The match as clean text would have it.
Clean(m) ==
  CASE m.kind = "word"    -> [m EXCEPT !.day.misread = FALSE, !.year.misread = FALSE, !.exact = TRUE]
    [] m.kind = "numeric" -> [m EXCEPT !.day.misread = FALSE, !.year.misread = FALSE, !.month.misread = FALSE]
    [] m.kind = "gbp"     -> [m EXCEPT !.pounds.misread = FALSE]
    [] OTHER              -> m

\* _parse_*_match with _combine_confidence: no value is surer than its text, and text in
\* which letters stand for digits or a month is misspelt says the same as clean text
\* would, but is less sure of it.
MisreadNeverSurer ==
  entity # NoEntity =>
    /\ entity.confidence <= 100 * entity.ocr
    /\ Accepted(Clean(match)) /\ entity.value \in ValuesOf(Clean(match))
    /\ match # Clean(match) /\ entity.ocr > 0 =>
         entity.confidence < Blended(Confidence(Clean(match)), entity.ocr)

\* _parse_gbp_match, _parse_sd_only_match: in pounds and cents the sums of a ledger keep
\* the order they have in pounds, shillings and pence, and two are only confused when they
\* are less than three pence apart. (A single penny is "GBP 0.00".)
LedgerOrderKept ==
  entity # NoEntity /\ match.kind \in {"gbp", "sd"} =>
    \A m \in Ledger \cup BareLedger : Accepted(m) =>
      \A cents \in Cents(m) :
        /\ Sum(m) > Sum(match) => cents >= entity.value[2]
        /\ Sum(m) >= Sum(match) + 3 => cents > entity.value[2]
===============================================================================
