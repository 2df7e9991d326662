-------------------------------- MODULE MCContent --------------------------------
(* Small instances of what the pipeline makes of a page's content. The parts share no  *)
(* variable; each behaviour explores one of them, its focus, and leaves the others      *)
(* where they start, so that their state spaces add up instead of multiplying.          *)
EXTENDS Layout, Entities, Values, Anomalies, SequencesExt

VARIABLE focus

contentVars == <<layoutVars, entityVars, valueVars, anomalyVars>>

Box(x, y, w, h) == [x |-> x, y |-> y, w |-> w, h |-> h]
Mark(cx, cy)    == [cx |-> cx, cy |-> cy, h |-> 10, area |-> 50]

\* In the left and the right margin, level, overlapping, touching and apart.
Blocks == {Box(x, y, 12, h) : x \in {0, 88}, y \in {0, 10, 20, 80}, h \in {10, 15, 30}}

\* Up to three boxes with a mark in each but those as low as thirty.
Arranged == {[boxes |-> boxes,
              marks |-> {Mark(b.x + 6, b.y + 5) : b \in {b \in ToSet(boxes) : b.y # 20 \/ b.h # 30}}] :
             boxes \in SeqOf(Blocks, 3)}

\* One box with any of two columns of marks, of which three may chain into one row.
Gridded == {[boxes |-> <<Box(0, 0, w, 30)>>, marks |-> marks] :
             w \in {12, 60}, marks \in SUBSET {Mark(cx, cy) : cx \in {3, 10}, cy \in {2, 7, 13, 25}}}

FoundPages == Arranged \cup Gridded

PlaceSpans == {[first |-> 1, last |-> 1], [first |-> 2, last |-> 3]}

Amount(raw, value) == [type |-> "amount", raw |-> raw, value |-> value]
Dated(raw, value)  == [type |-> "date", raw |-> raw, value |-> value]
Person(raw)        == [type |-> "person", raw |-> raw, value |-> 0]

TableAndSignature == <<"table", "signature">>

Read5 == {[confidence |-> 90, words |-> <<95, 30>>, noise |-> FALSE, text |-> TRUE],
          [confidence |-> 50, words |-> <<50>>, noise |-> FALSE, text |-> TRUE],
          [confidence |-> 10, words |-> <<10>>, noise |-> FALSE, text |-> TRUE],
          [confidence |-> 90, words |-> <<90>>, noise |-> TRUE, text |-> TRUE],
          [confidence |-> 0, words |-> <<>>, noise |-> FALSE, text |-> FALSE]}

\* The same implausible amount twice, two spellings and an early year, one no column holds.
Found5 == {<<>>, <<Amount("$9m", 90), Amount("$9m", 90)>>, <<Amount("$2", 2), Person("Ann")>>,
           <<Person("Anne"), Dated("1066", 1066), Person("Ann")>>, <<Amount("$9bn", 900)>>}

Blank == [reading |-> CHOOSE r \in Read5 : ~r.text, found |-> <<>>]

OneName == {{"Ann", "Anne"}}

ContentInit ==
  /\ focus \in {"layout", "entities", "values", "anomalies"}
  /\ IF focus = "layout" THEN LayoutInit ELSE sheet = [boxes |-> <<>>, marks |-> {}] /\ regions = <<>>
  /\ IF focus = "entities" THEN EntitiesInit
     ELSE component = "done" /\ ents = {} /\ parsed = <<>> /\ proposed = {} /\ entities = {}
  /\ IF focus = "values" THEN ValuesInit ELSE match = [kind |-> "none"] /\ entity = NoEntity
  /\ AnomaliesInit /\ (focus # "anomalies" => page = <<Blank, Blank>>)

ContentNext ==
  /\ UNCHANGED focus
  /\ \/ focus = "layout" /\ LayoutNext /\ UNCHANGED <<entityVars, valueVars, anomalyVars>>
     \/ focus = "entities" /\ EntitiesNext /\ UNCHANGED <<layoutVars, valueVars, anomalyVars>>
     \/ focus = "values" /\ ValuesNext /\ UNCHANGED <<layoutVars, entityVars, anomalyVars>>
     \/ focus = "anomalies" /\ AnomaliesNext /\ UNCHANGED <<layoutVars, entityVars, valueVars>>

ContentSpec == ContentInit /\ [][ContentNext]_<<focus, contentVars>>
===============================================================================
