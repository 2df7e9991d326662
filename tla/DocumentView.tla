------------------------------- MODULE DocumentView ------------------------------
(* The document page of the web client (DocumentViewPage.tsx): the selection shared  *)
(* by its panes (state/selection.ts), the page of the document that follows it, the  *)
(* decision of flags, and the page's image (useDocumentImage.ts). A handler, the     *)
(* renderings and the effects that it causes are one step; answers come in between.  *)
EXTENDS Integers, Sequences, FiniteSets, FiniteSetsExt

CONSTANTS
  Docs,       \* documents
  PageCount,  \* pages of each, with one region each, named by its page
  DocFlags,   \* sequence of flags, by severity and created_at: [doc, page, region]
  MaxLoads    \* bound: image loads

Pages == 1..PageCount

ASSUME ViewAssumption ==
  /\ PageCount \in Nat \ {0} /\ MaxLoads \in Nat
  /\ DocFlags \in Seq([doc : Docs, page : Pages, region : BOOLEAN])

VARIABLES
  decided,   \* flags that are not open any more, on the server
  view,      \* the document whose page is mounted; "none" on other routes
  detail,    \* its query: data there, GET in flight, GET failed, flags open in the data
  page,      \* number of the page shown
  selected,  \* flag and region in the selection store; 0 for null
  decision,  \* the PATCH of this mount in flight: its flag, and the next one
  loads,     \* loads[i]: document and page of the i-th image load, and whether it has ended
  effect,    \* the load whose effect has not been cleaned up; 0 if there is none
  urls,      \* object URLs that exist, named by their loads
  imageUrl   \* the one shown, or 0

viewVars == <<decided, view, detail, page, selected, decision, loads, effect, urls, imageUrl>>
imageVars == <<loads, effect, urls, imageUrl>>

Nothing    == [flag |-> 0, region |-> 0]
NoDecision == [flag |-> 0, next |-> 0, committed |-> FALSE]
NoDetail   == [ready |-> FALSE, loading |-> FALSE, failed |-> FALSE, open |-> {}]

ViewInit ==
  /\ decided = {}
  /\ view = "none"
  /\ detail = NoDetail
  /\ page = 1
  /\ selected = Nothing
  /\ decision = NoDecision
  /\ loads = <<>>
  /\ effect = 0
  /\ urls = {}
  /\ imageUrl = 0

-------------------------------------------------------------------------------
(* The image *)

\* What the cleanup of an effect leaves.
Kept == urls \ {effect}

\* Effects for these pages in turn: the load of the last is the one that counts.
LoadImages(pages) ==
  /\ Len(loads) + Len(pages) <= MaxLoads
  /\ loads' = loads \o [i \in DOMAIN pages |-> [doc |-> view, page |-> pages[i], ended |-> FALSE]]
  /\ effect' = Len(loads')
  /\ urls' = Kept
  /\ imageUrl' = 0

UnmountCanvas ==
  /\ effect' = 0
  /\ urls' = Kept
  /\ imageUrl' = 0
  /\ UNCHANGED loads

\* The canvas shows page p, if it is there (not beside an error).
ShowPage(p) ==
  /\ page' = p
  /\ IF effect = 0 \/ p = page THEN UNCHANGED imageVars ELSE LoadImages(<<p>>)

\* Mutant: nobody asks whether the image is still wanted.
MutantWanted(i) == effect # 0

\* ~cancelled
Wanted(i) == i = effect

ImageArrives(i) ==
  /\ ~loads[i].ended
  /\ loads' = [loads EXCEPT ![i].ended = TRUE]
  /\ IF Wanted(i) THEN urls' = urls \cup {i} /\ imageUrl' = i
     ELSE UNCHANGED <<urls, imageUrl>>
  /\ UNCHANGED <<decided, view, detail, page, selected, decision, effect>>

ImageFails(i) ==
  /\ ~loads[i].ended
  /\ loads' = [loads EXCEPT ![i].ended = TRUE]
  /\ UNCHANGED <<decided, view, detail, page, selected, decision, effect, urls, imageUrl>>

-------------------------------------------------------------------------------
(* The selection *)

FlagSelection(f) ==
  IF f = 0 THEN Nothing
  ELSE [flag |-> f, region |-> IF DocFlags[f].region THEN DocFlags[f].page ELSE 0]

\* The subscription to the store: to the page of the region, else to that of the flag,
\* when one of them changed.
Follow(s) ==
  IF s.region # 0 /\ s # selected THEN s.region
  ELSE IF s.flag # 0 /\ s # selected THEN DocFlags[s.flag].page
  ELSE page

Select(s) == selected' = s /\ ShowPage(Follow(s))

First(flags) == IF flags = {} THEN 0 ELSE Min(flags)
Later(f)     == First({g \in detail.open : g > f})
Earlier(f)   == Max({0} \cup {g \in detail.open : g < f})

\* The flag the bar shows.
CurrentFlag == IF selected.flag \in detail.open THEN selected.flag ELSE First(detail.open)

\* Region r is clicked on the canvas or in the panel; 0 is the canvas beside them.
SelectRegion(r) ==
  /\ detail.ready /\ ~detail.failed
  /\ Select([flag |-> 0, region |-> r])
  /\ UNCHANGED <<decided, view, detail, decision>>

MoveFlag(to) ==
  /\ CurrentFlag # 0
  /\ Select(FlagSelection(IF to = 0 THEN CurrentFlag ELSE to))
  /\ UNCHANGED <<decided, view, detail, decision>>

\* Escape
Clear ==
  /\ selected' = Nothing
  /\ selected # Nothing
  /\ UNCHANGED <<decided, view, detail, page, decision, loads, effect, urls, imageUrl>>

\* Mutant: the selection stays.
MutantLeave == UNCHANGED selected

\* "Drop a selection that lives on the page being left."
Leave == selected' = Nothing

GoToPage(p) ==
  /\ detail.ready
  /\ p # page
  /\ Leave
  /\ ShowPage(p)
  /\ UNCHANGED <<decided, view, detail, decision>>

-------------------------------------------------------------------------------
(* The document *)

\* Another document is another mount (App.tsx). A PATCH in flight goes on without its
\* callback, like one from elsewhere.
Navigate(d) ==
  /\ d # view
  /\ view' = d
  /\ detail' = [NoDetail EXCEPT !.loading = (d # "none")]
  /\ page' = 1
  /\ selected' = Nothing
  /\ decision' = NoDecision
  /\ UnmountCanvas
  /\ UNCHANGED decided

FlagsHere == {f \in DOMAIN DocFlags : DocFlags[f].doc = view}
Received  == [ready |-> TRUE, loading |-> FALSE, failed |-> FALSE, open |-> FlagsHere \ decided]

\* The first answer mounts the canvas on the first page, and then selects the flag of the
\* link, or else the first open one.
ReceiveFirst ==
  /\ detail.loading /\ ~detail.ready
  /\ detail' = Received
  /\ \E f \in FlagsHere \cup {First(Received.open)} :
       LET s == FlagSelection(f) IN
       /\ selected' = s
       /\ page' = Follow(s)
       /\ LoadImages(IF Follow(s) = 1 THEN <<1>> ELSE <<1, Follow(s)>>)
  /\ UNCHANGED <<decided, view, decision>>

ReceiveAgain ==
  /\ detail.loading /\ detail.ready
  /\ detail' = Received
  /\ IF detail.failed THEN LoadImages(<<page>>) ELSE UNCHANGED imageVars
  /\ UNCHANGED <<decided, view, page, selected, decision>>

\* The GET fails: an error takes the place of the panes.
ReceiveFails ==
  /\ detail.loading
  /\ detail' = [detail EXCEPT !.loading = FALSE, !.failed = TRUE]
  /\ UnmountCanvas
  /\ UNCHANGED <<decided, view, page, selected, decision>>

\* The window gets the focus, or the query is invalidated.
Refetch ==
  /\ view # "none" /\ ~detail.loading
  /\ detail' = [detail EXCEPT !.loading = TRUE]
  /\ UNCHANGED <<decided, view, page, selected, decision, loads, effect, urls, imageUrl>>

DecideFlag ==
  /\ CurrentFlag # 0
  /\ decision = NoDecision
  /\ decision' = [NoDecision EXCEPT !.flag = CurrentFlag,
       !.next = IF Later(CurrentFlag) # 0 THEN Later(CurrentFlag) ELSE Earlier(CurrentFlag)]
  /\ UNCHANGED <<decided, view, detail, page, selected, loads, effect, urls, imageUrl>>

StoreDecision ==
  /\ decision # NoDecision /\ ~decision.committed
  /\ decided' = decided \cup {decision.flag}
  /\ decision' = [decision EXCEPT !.committed = TRUE]
  /\ UNCHANGED <<view, detail, page, selected, loads, effect, urls, imageUrl>>

\* The document is invalidated, and the flag after the one decided selected.
FollowDecision ==
  /\ decision.committed
  /\ decision' = NoDecision
  /\ detail' = [detail EXCEPT !.loading = TRUE]
  /\ Select(FlagSelection(decision.next))
  /\ UNCHANGED <<decided, view>>

DecisionRefused ==
  /\ decision # NoDecision
  /\ decision' = NoDecision
  /\ UNCHANGED <<decided, view, detail, page, selected, loads, effect, urls, imageUrl>>

DecidedElsewhere(f) ==
  /\ decided' = decided \cup {f}
  /\ UNCHANGED <<view, detail, page, selected, decision, loads, effect, urls, imageUrl>>

ViewNext ==
  \/ \E d \in Docs \cup {"none"} : Navigate(d)
  \/ ReceiveFirst \/ ReceiveAgain \/ ReceiveFails \/ Refetch
  \/ \E i \in DOMAIN loads : ImageArrives(i) \/ ImageFails(i)
  \/ \E r \in Pages \cup {0} : SelectRegion(r)
  \/ MoveFlag(Later(CurrentFlag)) \/ MoveFlag(Earlier(CurrentFlag))
  \/ Clear
  \/ \E p \in Pages : GoToPage(p)
  \/ DecideFlag \/ StoreDecision \/ FollowDecision \/ DecisionRefused
  \/ \E f \in DOMAIN DocFlags \ decided : DecidedElsewhere(f)

ViewSpec == ViewInit /\ [][ViewNext]_viewVars

-------------------------------------------------------------------------------
(* Properties *)

\* No object URL is leaked or left to a page it does not belong to, however late the
\* images come (useDocumentImage.ts:4-9): the one that exists is the one shown, and it is
\* of the page and the document on the screen.
ImageUrlsAccounted ==
  /\ urls = {imageUrl} \ {0}
  /\ imageUrl # 0 => loads[imageUrl].doc = view /\ loads[imageUrl].page = page

\* "the canvas only draws the current page's regions" (DocumentViewPage.tsx:135-158):
\* what is selected, also by a late answer to a decision, is on the page shown.
SelectionOnPage ==
  /\ selected.region # 0 => selected.region = page
  /\ selected.flag # 0 =>
       DocFlags[selected.flag].doc = view /\ DocFlags[selected.flag].page = page
===============================================================================
