-------------------------------- MODULE MCReview --------------------------------
(* Small instances of the review service and its clients. The parts share no          *)
(* variable; each behaviour explores one of them, its focus, and leaves the others     *)
(* where they start, so that their state spaces add up instead of multiplying.         *)
EXTENDS ReviewDesk, ReviewQueue, DocumentView, Sessions, RateLimit, TLC

VARIABLE focus

Typed(text, date, amount, currency) ==
  [text |-> text, date |-> date, amount |-> amount, currency |-> currency,
   fits |-> currency # "approximately"]

\* Two that differ in the amount, one in the currency, one no column takes, a date.
FiveDollars == {Typed("USD 5", "None", "5", "USD"), Typed("USD 50", "None", "50", "USD"),
                Typed("GBP 5", "None", "5", "GBP"),
                Typed("approximately 5", "None", "5", "approximately"),
                Typed("1897-03-03", "1897-03-03", "None", "None")}

\* The first flag is of a region on the second page; the other two of a page.
ThreeFlags == <<[doc |-> "letter", page |-> 2, region |-> TRUE],
                [doc |-> "letter", page |-> 1, region |-> FALSE],
                [doc |-> "deed", page |-> 2, region |-> FALSE]>>

From(client, remote, forwarded, mutating) ==
  [client |-> client, remote |-> remote, forwarded |-> forwarded, mutating |-> mutating]

\* A client that writes the header itself, directly and through the proxy, and another.
ThreeRequests == {From("ann", "ann", <<"bob">>, FALSE), From("ann", "proxy", <<"eve", "ann">>, TRUE),
                  From("bob", "bob", <<>>, TRUE)}

Alike == Permutations(People) \cup Permutations(Slots)

ReviewInit ==
  /\ focus \in {"desk", "queue", "view", "sessions", "limits"}
  /\ DeskInit /\ (focus # "desk" => type = "amount" /\ row.text = "USD 5")
  /\ QueueInit /\ (focus # "queue" => status[1] = "open")
  /\ ViewInit /\ SessionInit /\ LimitInit

ReviewNext ==
  /\ UNCHANGED focus
  /\ \/ focus = "desk" /\ DeskNext /\ UNCHANGED <<queueVars, viewVars, sessionVars, limitVars>>
     \/ focus = "queue" /\ QueueNext /\ UNCHANGED <<deskVars, viewVars, sessionVars, limitVars>>
     \/ focus = "view" /\ ViewNext /\ UNCHANGED <<deskVars, queueVars, sessionVars, limitVars>>
     \/ focus = "sessions" /\ SessionNext /\ UNCHANGED <<deskVars, queueVars, viewVars, limitVars>>
     \/ focus = "limits" /\ LimitNext /\ UNCHANGED <<deskVars, queueVars, viewVars, sessionVars>>

ReviewSpec == ReviewInit /\ [][ReviewNext]_<<focus, deskVars, queueVars, viewVars, sessionVars, limitVars>>
===============================================================================
