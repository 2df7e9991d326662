-------------------------------- MODULE Entities --------------------------------
(* extract_entities (extraction/entities.py) on a text of a few tokens: spaCy's      *)
(* recognizer finds spans, the date ruler and the currency ruler each add theirs and  *)
(* filter what overlaps, what is left becomes entities, and runs of proper nouns that *)
(* nobody claimed are looked up as places. The text is left open: any spans may have   *)
(* been found in it.                                                                   *)
EXTENDS Integers, FiniteSets

CONSTANTS
  TokenCount,  \* tokens of the text
  MaxFound,    \* bound: spans the recognizer finds
  MaxDates,    \* bound: matches of the date ruler
  MaxAmounts,  \* bound: matches of the currency ruler
  Labels,      \* what the recognizer may label
  Places,      \* spans with an exact or fuzzy match in the gazetteer
  ProperNouns  \* tokens tagged PROPN

Spans == {s \in [first : 1..TokenCount, last : 1..TokenCount] : s.first <= s.last}

TypeOfLabel == [PERSON |-> "person", GPE |-> "location", LOC |-> "location",
                FAC |-> "location", HIST_DATE |-> "date", CURRENCY |-> "amount"]
Fallback    == {"ORG", "PRODUCT", "WORK_OF_ART", "NORP"}

ASSUME EntitiesAssumption ==
  /\ TokenCount \in Nat /\ MaxFound \in Nat /\ MaxDates \in Nat /\ MaxAmounts \in Nat
  /\ Labels \subseteq STRING \ {"HIST_DATE", "CURRENCY"}
  /\ Places \subseteq Spans
  /\ ProperNouns \subseteq 1..TokenCount

VARIABLES
  component, \* of spaCy's pipeline, the one that comes next
  ents,      \* doc.ents: spans with their labels
  parsed,    \* parsed[s]: what the rulers have attached to the range s
  proposed,  \* the spans found so far, those filtered out too
  entities   \* the ExtractedEntities

entityVars == <<component, ents, parsed, proposed, entities>>

Tokens(s) == s.first..s.last
Length(s) == s.last - s.first
At(s)     == [first |-> s.first, last |-> s.last]
Overlaps(s, t) == Tokens(s) \cap Tokens(t) # {}

\* filter_spans takes the longest span first, of these the leftmost, of these the first
\* in its list. Spans with equal ends have different labels, or are one span to this
\* module, so that only a ruler's list matters: the ruler's own spans are ahead in it.
Precedes(s, t, ahead) ==
  \/ Length(s) > Length(t)
  \/ /\ Length(s) = Length(t)
     /\ \/ s.first < t.first
        \/ s.first = t.first /\ s \in ahead /\ t \notin ahead

\* It keeps a span whose first and last tokens no span kept before has.
FilterSpans(spans, ahead) ==
  CHOOSE kept \in SUBSET spans :
    \A s \in spans :
      s \in kept <=>
        \A k \in kept : Precedes(k, s, ahead) => {s.first, s.last} \cap Tokens(k) = {}

Labelled(s, label) == [first |-> s.first, last |-> s.last, label |-> label]

UpTo(n) == {found \in SUBSET Spans : Cardinality(found) <= n}

EntitiesInit ==
  /\ component = "historical_date_ruler"
  /\ \E found \in UpTo(MaxFound) : \E label \in [found -> Labels] :
       /\ \A s, t \in found : Overlaps(s, t) => s = t
       /\ ents = {Labelled(s, label[s]) : s \in found}
  /\ parsed = [s \in Spans |-> "None"]
  /\ proposed = ents
  /\ entities = {}

\* Mutant: what was there before goes first.
MutantRuler(matches, label, data) ==
  LET candidates == {Labelled(s, label) : s \in matches}
  IN  /\ parsed' = [s \in Spans |-> IF s \in matches THEN data ELSE parsed[s]]
      /\ proposed' = proposed \cup candidates
      /\ ents' = FilterSpans(FilterSpans(candidates, {}) \cup ents, ents)

\* Mutant: what a ruler finds wins, however short.
MutantRulerWins(matches, label, data) ==
  LET candidates == {Labelled(s, label) : s \in matches}
      new        == FilterSpans(candidates, {})
  IN  /\ parsed' = [s \in Spans |-> IF s \in matches THEN data ELSE parsed[s]]
      /\ proposed' = proposed \cup candidates
      /\ ents' = new \cup {e \in ents : \A s \in new : ~Overlaps(e, s)}

\* A ruler with these matches that its parsers accept, each already expanded to whole
\* tokens.
Ruler(matches, label, data) ==
  LET candidates == {Labelled(s, label) : s \in matches}
      new        == FilterSpans(candidates, {})
  IN  /\ parsed' = [s \in Spans |-> IF s \in matches THEN data ELSE parsed[s]]
      /\ proposed' = proposed \cup candidates
      /\ ents' = FilterSpans(new \cup ents, new)

DateRuler ==
  /\ component = "historical_date_ruler"
  /\ component' = "currency_ruler"
  /\ \E matches \in UpTo(MaxDates) : Ruler(matches, "HIST_DATE", "iso")
  /\ UNCHANGED entities

CurrencyRuler ==
  /\ component = "currency_ruler"
  /\ component' = "extract"
  /\ \E matches \in UpTo(MaxAmounts) : Ruler(matches, "CURRENCY", "normalized")
  /\ UNCHANGED entities

\* The entity a span becomes: its type and where its value is from. Labels this module
\* does not extract count as places if the gazetteer has them, so far as they are of the
\* kind historical places are mistaken for.
EntityType(e) ==
  IF e.label \in DOMAIN TypeOfLabel THEN TypeOfLabel[e.label]
  ELSE IF e.label \in Fallback /\ At(e) \in Places THEN "location"
  ELSE "None"

ValueOf(e) ==
  CASE EntityType(e) \in {"date", "amount"} -> parsed[At(e)]
    [] EntityType(e) = "location" -> IF At(e) \in Places THEN "gazetteer" ELSE "title"
    [] OTHER -> "text"

Emitted ==
  {[type |-> EntityType(e), value |-> ValueOf(e), first |-> e.first, last |-> e.last] :
     e \in {e \in ents : EntityType(e) # "None" /\ ValueOf(e) # "None"}}

\* The longest runs of proper nouns: looked up unless any span touches them, one that
\* became no entity too.
Runs ==
  {s \in Spans :
     /\ Tokens(s) \subseteq ProperNouns
     /\ s.first - 1 \notin ProperNouns /\ s.last + 1 \notin ProperNouns}

Scanned ==
  {[type |-> "location", value |-> "gazetteer", first |-> s.first, last |-> s.last] :
     s \in {s \in Runs \cap Places : \A e \in ents : ~Overlaps(s, e)}}

Extract ==
  /\ component = "extract"
  /\ component' = "done"
  /\ entities' = Emitted \cup Scanned
  /\ UNCHANGED <<ents, parsed, proposed>>

EntitiesNext == DateRuler \/ CurrencyRuler \/ Extract

EntitiesSpec == EntitiesInit /\ [][EntitiesNext]_entityVars

-------------------------------------------------------------------------------
\* extract_entities: a span that the recognizer or a ruler proposed is only dropped for
\* another that it overlaps and that is at least as long, and no two of those that are
\* left overlap, although filter_spans looks at the ends of a span only and runs four
\* times.
DroppedForLonger ==
  /\ \A e, f \in ents : Overlaps(e, f) => e = f
  /\ \A s \in proposed \ ents :
       \E t \in proposed \ {s} : Overlaps(s, t) /\ Length(t) >= Length(s)

\* extract_entities: an amount carries what the currency ruler parsed and a date what the
\* date ruler parsed, although both attach it to a range of tokens and not to their own
\* span. The exception: the currency ruler dropped its own match of the date's range for
\* another at least as long, which in turn gave way to a span apart from the date.
ParseIsOwn ==
  \A e \in entities :
    /\ e.type = "amount" => e.value = "normalized"
    /\ e.type = "date" /\ e.value # "iso" =>
         \E c, d \in {p \in proposed : p.label = "CURRENCY"} : \E t \in ents :
           /\ At(c) = At(e) /\ c # d /\ Overlaps(c, d) /\ Length(d) >= Length(c)
           /\ ~Overlaps(t, e) /\ Overlaps(t, d) /\ Length(t) >= Length(d)
===============================================================================
