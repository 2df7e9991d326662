------------------------------- MODULE ReviewQueue ------------------------------
(* The review queue: GET and PATCH /review_flags (review_api/review_flags.py), and   *)
(* the page that shows it (web: ReviewQueuePage, OffsetPager, useReviewFlags), whose *)
(* lists react-query keeps per offset. The pipeline adds flags and other reviewers   *)
(* decide them meanwhile.                                                            *)
EXTENDS Integers, Sequences, FiniteSets

CONSTANTS
  FlagCount,  \* flags, numbered by severity and created_at
  Decisions,  \* what a flag can be set to
  PageSize,   \* PAGE_SIZE
  MaxNew,     \* bound: flags the pipeline adds
  MaxQueueEvents   \* bound: decisions, here and elsewhere, and requests that fail

ASSUME QueueAssumption ==
  /\ Decisions \subseteq {"resolved", "dismissed"}
  /\ PageSize \in Nat \ {0}
  /\ FlagCount \in Nat /\ MaxNew \in 0..FlagCount /\ MaxQueueEvents \in Nat

Flags   == 1..FlagCount
Offsets == {o \in 0..FlagCount : o % PageSize = 0}

VARIABLES
  status,   \* status[f]: ReviewFlag.status; "none" before the pipeline adds it
  offset,   \* which page is shown
  cursor,   \* index of its active row
  cache,    \* cache[o]: what react-query holds for offset o
  fetch,    \* fetch[o]: the GET for offset o in flight
  patches,    \* the PATCHes of this browser, in order
  mine,     \* flags whose decision was answered here
  events,   \* decisions and failures so far
  missed    \* missed[o]: those answered while a GET for o went on

queueVars == <<status, offset, cursor, cache, fetch, patches, mine, events, missed>>

NoData  == [has |-> FALSE, stale |-> TRUE, failed |-> FALSE, rows |-> <<>>, total |-> 0]
NoFetch == [step |-> "none"]
Ended   == [step |-> "ended"]
Sent    == [step |-> "sent"]

QueueInit ==
  /\ \E n \in 0..MaxNew : status = [f \in Flags |-> IF f <= n THEN "none" ELSE "open"]
  /\ offset = 0 /\ cursor = 1
  /\ cache = [o \in Offsets |-> NoData]
  /\ fetch = [o \in Offsets |-> IF o = 0 THEN Sent ELSE NoFetch]
  /\ patches = <<>>
  /\ mine = {}
  /\ events = 0
  /\ missed = [o \in Offsets |-> {}]

Event == events < MaxQueueEvents /\ events' = events + 1

-------------------------------------------------------------------------------
(* The server *)

\* The query of list_review_flags: open flags, high severity first, then oldest first.
OpenFlags == {f \in Flags : status[f] = "open"}
Nth(k)    == CHOOSE f \in OpenFlags : Cardinality({g \in OpenFlags : g <= f}) = k

\* LIMIT and OFFSET.
Page(o) == LET left == Cardinality(OpenFlags) - o IN
  [i \in 1..(IF left < PageSize THEN left ELSE PageSize) |-> Nth(o + i)]

AddFlag(f) ==
  /\ status[f] = "none"
  /\ status' = [status EXCEPT ![f] = "open"]
  /\ UNCHANGED <<offset, cursor, cache, fetch, patches, mine, events, missed>>

DecideElsewhere(f, s) ==
  /\ Event
  /\ status[f] \notin {"none", s}
  /\ status' = [status EXCEPT ![f] = s]
  /\ UNCHANGED <<offset, cursor, cache, fetch, patches, mine, missed>>

\* The two SELECTs see what was committed before each of them.
CountFlags(o) ==
  /\ fetch[o].step = "sent"
  /\ fetch' = [fetch EXCEPT ![o] = [step |-> "counted", total |-> Cardinality(OpenFlags)]]
  /\ UNCHANGED <<status, offset, cursor, cache, patches, mine, events, missed>>

SelectFlags(o) ==
  /\ fetch[o].step = "counted"
  /\ fetch' = [fetch EXCEPT ![o] = [step |-> "selected", total |-> @.total,
                                    rows |-> Page(o)]]
  /\ UNCHANGED <<status, offset, cursor, cache, patches, mine, events, missed>>

ReadFlag(k) ==
  /\ patches[k].step = "sent"
  /\ patches' = [patches EXCEPT ![k].step = "read", ![k].loaded = status[patches[k].flag]]
  /\ UNCHANGED <<status, offset, cursor, cache, fetch, mine, events, missed>>

\* The UPDATE names the status only if it differs from the one read.
CommitDecision(k) ==
  LET c == patches[k] IN
  /\ c.step = "read"
  /\ status' = IF c.loaded = c.status THEN status ELSE [status EXCEPT ![c.flag] = c.status]
  /\ patches' = [patches EXCEPT ![k].step = "committed"]
  /\ UNCHANGED <<offset, cursor, cache, fetch, mine, events, missed>>

-------------------------------------------------------------------------------
(* The page *)

Shown == cache[offset].rows

\* The effect on flags.length.
Clamp(at, rows) == IF rows # <<>> /\ at > Len(rows) THEN Len(rows) ELSE at

Receive(o) ==
  /\ fetch[o].step = "selected"
  /\ cache' = [cache EXCEPT ![o] = [has |-> TRUE, stale |-> FALSE, failed |-> FALSE,
                                    rows |-> fetch[o].rows, total |-> fetch[o].total]]
  /\ fetch' = [fetch EXCEPT ![o] = NoFetch]
  /\ cursor' = IF o = offset THEN Clamp(cursor, fetch[o].rows) ELSE cursor
  /\ UNCHANGED <<status, offset, patches, mine, events, missed>>

\* The GET and its retry fail; the page shows an error, what it had stays in the cache.
FetchFails(o) ==
  /\ fetch[o].step # "none"
  /\ Event
  /\ cache' = [cache EXCEPT ![o].stale = TRUE, ![o].failed = TRUE]
  /\ fetch' = [fetch EXCEPT ![o] = NoFetch]
  /\ UNCHANGED <<status, offset, cursor, patches, mine, missed>>

\* react-query for a page that comes into view or focus: it leaves a list that is fresh,
\* or on its way, alone; one whose staleTime is over (aged) it fetches.
Visit(o, aged) ==
  /\ cache' = [cache EXCEPT ![o].stale = @ \/ aged]
  /\ IF (cache[o].stale \/ aged) /\ fetch[o].step = "none"
     THEN /\ fetch' = [fetch EXCEPT ![o] = Sent]
          /\ missed' = [missed EXCEPT ![o] = {}]
     ELSE UNCHANGED <<fetch, missed>>

Focus(aged) ==
  /\ Visit(offset, aged)
  /\ UNCHANGED <<status, offset, cursor, patches, mine, events>>

TurnPage(o, aged) ==
  /\ cache[offset].has /\ ~cache[offset].failed
  /\ \/ offset > 0 /\ o = offset - PageSize
     \/ offset + PageSize < cache[offset].total /\ o = offset + PageSize
  /\ offset' = o
  /\ cursor' = Clamp(cursor, cache[o].rows)
  /\ Visit(o, aged)
  /\ UNCHANGED <<status, patches, mine, events>>

Move(to) ==
  /\ to \in DOMAIN Shown \ {cursor}
  /\ cursor' = to
  /\ UNCHANGED <<status, offset, cache, fetch, patches, mine, events, missed>>

Decide(f, s) ==
  /\ Event
  /\ patches' = Append(patches, [flag |-> f, status |-> s, step |-> "sent", loaded |-> "none"])
  /\ UNCHANGED <<status, offset, cursor, cache, fetch, mine, missed>>

\* isPending tells of the latest call only.
Pending == patches # <<>> /\ patches[Len(patches)] # Ended

Press(s) ==
  /\ cursor \in DOMAIN Shown
  /\ ~Pending
  /\ Decide(Shown[cursor], s)

\* The buttons are not guarded, except Resolve of the active row, which shows a loader.
Click(i, s) ==
  /\ i \in DOMAIN Shown /\ ~cache[offset].failed
  /\ s = "resolved" => ~(Pending /\ i = cursor)
  /\ Decide(Shown[i], s)

\* Mutant: a GET in flight is taken for an answer to the invalidation.
MutantRestarted(o) == o = offset /\ fetch[o].step = "none"

\* Invalidation cancels the GET of the page that is shown and sends another, unless it is
\* its first; for other pages a GET goes on.
Restarted(o) == o = offset /\ (fetch[o].step = "none" \/ cache[o].has)

GoesOn(o) == fetch[o].step # "none" /\ ~(o = offset /\ cache[o].has)

AnswerDecision(k) ==
  /\ patches[k].step = "committed"
  /\ patches' = [patches EXCEPT ![k] = Ended]
  /\ mine' = mine \cup {patches[k].flag}
  /\ cache' = [o \in Offsets |-> [cache[o] EXCEPT !.stale = TRUE]]
  /\ fetch' = [o \in Offsets |-> IF Restarted(o) THEN Sent ELSE fetch[o]]
  /\ missed' = [o \in Offsets |->
       IF GoesOn(o) THEN missed[o] \cup {patches[k].flag}
       ELSE IF o = offset THEN {} ELSE missed[o]]
  /\ UNCHANGED <<status, offset, cursor, events>>

\* The PATCH fails or its answer is lost: the list stays as it is.
DecisionFails(k) ==
  /\ patches[k] # Ended
  /\ Event
  /\ patches' = [patches EXCEPT ![k] = Ended]
  /\ UNCHANGED <<status, offset, cursor, cache, fetch, mine, missed>>

ServerStep ==
  \/ \E f \in Flags : AddFlag(f) \/ \E s \in Decisions : DecideElsewhere(f, s)
  \/ \E o \in Offsets : CountFlags(o) \/ SelectFlags(o)
  \/ \E k \in DOMAIN patches : ReadFlag(k) \/ CommitDecision(k)

PageStep ==
  \/ \E o \in Offsets : Receive(o) \/ FetchFails(o)
  \/ \E aged \in BOOLEAN : Focus(aged) \/ \E o \in Offsets : TurnPage(o, aged)
  \/ \E i \in 1..PageSize : Move(i) \/ \E s \in Decisions : Click(i, s)
  \/ \E s \in Decisions : Press(s)
  \/ \E k \in DOMAIN patches : AnswerDecision(k) \/ DecisionFails(k)

QueueNext == ServerStep \/ PageStep

QueueSpec == QueueInit /\ [][QueueNext]_queueVars

-------------------------------------------------------------------------------
(* Properties *)

\* What was decided here is not offered as open again: a list that is taken for fresh
\* holds no flag whose decision has been answered, except one that was answered while
\* the very GET of this list went on (useReviewFlags.ts:19-21, ReviewQueuePage.tsx:
\* 11-39, review_flags.py:50-59, 84-95).
OwnDecisionsLeaveQueue ==
  \A o \in Offsets : \A i \in DOMAIN cache[o].rows :
    ~cache[o].stale /\ fetch[o].step = "none" /\ cache[o].rows[i] \in mine =>
      cache[o].rows[i] \in missed[o]
===============================================================================
