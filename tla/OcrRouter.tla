-------------------------------- MODULE OcrRouter --------------------------------
(* OCRRouter (ocr/engine.py) under _run_ocr_with_retry (pipeline/run.py): the       *)
(* regions of a worker process, one after the other. Every call of a backend runs   *)
(* in a thread of its own and is given up after a timeout; the thread is not, it    *)
(* goes on beside the calls that follow and shares the lazily loaded handwriting    *)
(* model with them.                                                                 *)
EXTENDS Integers, Sequences, FiniteSets

CONSTANTS
  Kind,        \* Kind[r]: what classify_region says of the r-th region
  MaxAttempts, \* OCR_MAX_ATTEMPTS
  Late,        \* calls whose thread may still go on after they are given up
  SoftLimit    \* whether Celery's soft time limit may strike once

ASSUME RouterAssumption ==
  /\ Kind \in Seq({"typed", "handwritten"}) /\ Kind # <<>>
  /\ MaxAttempts \in Nat \ {0}
  /\ SoftLimit \in BOOLEAN
  /\ Late \subseteq (1..Len(Kind)) \X (1..MaxAttempts) \X {"primary", "fallback"}

Crops    == DOMAIN Kind
Attempts == 1..MaxAttempts
Roles    == {"primary", "fallback"}

\* A call of a backend, named by what it is made for.
Calls == Crops \X Attempts \X Roles

VARIABLES
  step,        \* where the main thread is
  now,         \* the call it is about
  at,          \* at[c]: where the thread of call c is, "none" before it is submitted
  given,       \* calls given up: the main thread went on without their result
  outcome,     \* outcome[r]: the status _run_ocr_with_retry returned, "none" before
  processor,   \* TrOCRBackend._processor is set
  model,       \* TrOCRBackend._model is set
  loads,       \* how often the weights were read
  struck       \* the soft time limit has been raised

routerVars == <<step, now, at, given, outcome, processor, model, loads, struck>>

\* The backend of a call: the one for the kind of region first, then the other.
Backend(c) ==
  IF (Kind[c[1]] = "typed") = (c[3] = "primary") THEN "tesseract" ELSE "trocr"

RouterInit ==
  /\ step = "submit"
  /\ now = <<1, 1, "primary">>
  /\ at = [c \in Calls |-> "none"]
  /\ given = {}
  /\ outcome = [r \in Crops |-> "none"]
  /\ processor = FALSE
  /\ model = FALSE
  /\ loads = 0
  /\ struck = FALSE

-------------------------------------------------------------------------------
(* The main thread *)

\* A fresh executor per call, so no call waits behind another.
Submit ==
  /\ step = "submit"
  /\ at' = [at EXCEPT ![now] = IF Backend(now) = "trocr" THEN "check" ELSE "read"]
  /\ step' = "wait"
  /\ UNCHANGED <<now, given, outcome, processor, model, loads, struck>>

\* The region has its result: on to the next one.
Return(status) ==
  /\ outcome' = [outcome EXCEPT ![now[1]] = status]
  /\ IF now[1] + 1 \in Crops
       THEN step' = "submit" /\ now' = <<now[1] + 1, 1, "primary">>
       ELSE step' = "done" /\ now' = now

TakeResult ==
  /\ step = "wait"
  /\ at[now] = "returned"
  /\ Return(IF now[3] = "primary" THEN "ok" ELSE "ocr_partial")
  /\ UNCHANGED <<at, given, processor, model, loads, struck>>

\* Mutant: for attempt in range(1, OCR_MAX_ATTEMPTS).
MutantOneAttemptLess ==
  \/ /\ now[3] = "primary"
     /\ step' = "submit"
     /\ now' = <<now[1], now[2], "fallback">>
     /\ outcome' = outcome
  \/ /\ now[3] = "fallback" /\ now[2] < MaxAttempts - 1
     /\ step' = "sleep"
     /\ UNCHANGED <<now, outcome>>
  \/ /\ now[3] = "fallback" /\ now[2] >= MaxAttempts - 1
     /\ Return("failed")

\* Mutant: the retry is not bounded.
MutantRetryForEver ==
  \/ /\ now[3] = "primary"
     /\ step' = "submit"
     /\ now' = <<now[1], now[2], "fallback">>
     /\ outcome' = outcome
  \/ /\ now[3] = "fallback" /\ now[2] <= MaxAttempts
     /\ step' = "sleep"
     /\ UNCHANGED <<now, outcome>>

\* The call failed: the other backend is tried, then the attempt is.
CallFailed ==
  \/ /\ now[3] = "primary"
     /\ step' = "submit"
     /\ now' = <<now[1], now[2], "fallback">>
     /\ outcome' = outcome
  \/ /\ now[3] = "fallback" /\ now[2] < MaxAttempts
     /\ step' = "sleep"
     /\ UNCHANGED <<now, outcome>>
  \/ /\ now[3] = "fallback" /\ now[2] = MaxAttempts
     /\ Return("failed")

BackendRaised ==
  /\ step = "wait"
  /\ at[now] = "raised"
  /\ CallFailed
  /\ UNCHANGED <<at, given, processor, model, loads, struck>>

\* Mutant: with ThreadPoolExecutor(...), whose exit waits for the thread.
MutantWaitForThread ==
  /\ step = "wait"
  /\ at[now] \in {"returned", "raised"}
  /\ given' = given \cup {now}
  /\ CallFailed
  /\ UNCHANGED <<at, processor, model, loads, struck>>

\* The thread is left to run: shutdown(wait=False).
TimedOut ==
  /\ step = "wait"
  /\ at[now] \notin {"returned", "raised"}
  /\ given' = given \cup {now}
  /\ CallFailed
  /\ UNCHANGED <<at, processor, model, loads, struck>>

\* The backoff between two attempts.
Backoff ==
  /\ step = "sleep"
  /\ step' = "submit"
  /\ now' = <<now[1], now[2] + 1, "primary">>
  /\ UNCHANGED <<at, given, outcome, processor, model, loads, struck>>

\* SoftTimeLimitExceeded is an Exception: inside a call it is one more failure of the
\* backend ...
SoftLimitSwallowed ==
  /\ SoftLimit /\ ~struck
  /\ step \in {"submit", "wait"}
  /\ struck' = TRUE
  /\ given' = given \cup {now}
  /\ CallFailed
  /\ UNCHANGED <<at, processor, model, loads>>

\* ... and between calls it ends the run.
SoftLimitRaised ==
  /\ SoftLimit /\ ~struck
  /\ step \in {"submit", "sleep"}
  /\ struck' = TRUE
  /\ step' = "interrupted"
  /\ UNCHANGED <<now, at, given, outcome, processor, model, loads>>

-------------------------------------------------------------------------------
(* The thread of a call, with or without somebody waiting for it *)

\* Mutant: the processor tells whether _load has run.
MutantCheckProcessor(c) ==
  /\ at[c] = "check"
  /\ at' = [at EXCEPT ![c] = IF processor THEN "read" ELSE "loadProcessor"]
  /\ UNCHANGED <<step, now, given, outcome, processor, model, loads, struck>>

\* Mutant: the weights are read for every call.
MutantLoadAlways(c) ==
  /\ at[c] = "check"
  /\ at' = [at EXCEPT ![c] = "loadProcessor"]
  /\ UNCHANGED <<step, now, given, outcome, processor, model, loads, struck>>

\* TrOCRBackend.run looks whether the model is there ...
CheckModel(c) ==
  /\ at[c] = "check"
  /\ at' = [at EXCEPT ![c] = IF model THEN "read" ELSE "loadProcessor"]
  /\ UNCHANGED <<step, now, given, outcome, processor, model, loads, struck>>

\* ... and loads what is missing, in two assignments.
LoadProcessor(c) ==
  /\ at[c] = "loadProcessor"
  /\ processor' = TRUE
  /\ at' = [at EXCEPT ![c] = "loadModel"]
  /\ UNCHANGED <<step, now, given, outcome, model, loads, struck>>

LoadModel(c) ==
  /\ at[c] = "loadModel"
  /\ model' = TRUE
  /\ loads' = loads + 1
  /\ at' = [at EXCEPT ![c] = "read"]
  /\ UNCHANGED <<step, now, given, outcome, processor, struck>>

\* Reading the crop; for TrOCR this begins with the assertions on model and processor.
ReadCrop(c) ==
  /\ at[c] = "read"
  /\ at' = [at EXCEPT ![c] = "returned"]
  /\ UNCHANGED <<step, now, given, outcome, processor, model, loads, struck>>

\* Packages missing, no weights, or the backend fails on this crop.
Raise(c) ==
  /\ at[c] \in {"loadProcessor", "loadModel", "read"}
  /\ at' = [at EXCEPT ![c] = "raised"]
  /\ UNCHANGED <<step, now, given, outcome, processor, model, loads, struck>>

-------------------------------------------------------------------------------
MainStep ==
  \/ Submit \/ TakeResult \/ BackendRaised \/ TimedOut \/ Backoff

\* A backend may hang at any place, for a while or for ever; Late bounds how many of
\* those that were given up go on.
ThreadStep(c) ==
  /\ c \in given => c \in Late
  /\ CheckModel(c) \/ LoadProcessor(c) \/ LoadModel(c) \/ ReadCrop(c) \/ Raise(c)

RouterNext ==
  \/ MainStep
  \/ SoftLimitSwallowed \/ SoftLimitRaised
  \/ \E c \in Calls : ThreadStep(c)

\* The main thread goes on; a backend may hang for ever.
RouterSpec == RouterInit /\ [][RouterNext]_routerVars /\ WF_routerVars(MainStep)

-------------------------------------------------------------------------------
(* Properties *)

RouterTypeOK ==
  /\ step \in {"submit", "wait", "sleep", "done", "interrupted"}
  /\ now \in Calls
  /\ at \in [Calls -> {"none", "check", "loadProcessor", "loadModel", "read",
                        "returned", "raised"}]
  /\ given \subseteq Calls
  /\ outcome \in [Crops -> {"none", "ok", "ocr_partial", "failed"}]
  /\ processor \in BOOLEAN
  /\ model \in BOOLEAN
  /\ loads \in Nat
  /\ struck \in BOOLEAN

\* The call failed for the main thread, whatever its thread does later.
Failed(c) == c \in given \/ at[c] = "raised"

\* A region gets the result of a call made for this region and not given up: of the
\* primary backend for "ok", of the other one after the primary has failed for
\* "ocr_partial"; "failed" is only said after both have failed in every attempt
\* (engine.py:314-342, run.py:134-145). A result that comes late is never used.
OutcomeIsEarned ==
  \A r \in Crops :
    /\ outcome[r] = "ok" =>
         \E n \in Attempts : <<r, n, "primary">> \notin given /\ at[<<r, n, "primary">>] = "returned"
    /\ outcome[r] = "ocr_partial" =>
         \E n \in Attempts :
           /\ Failed(<<r, n, "primary">>)
           /\ <<r, n, "fallback">> \notin given /\ at[<<r, n, "fallback">>] = "returned"
    /\ outcome[r] = "failed" => \A n \in Attempts : \A k \in Roles : Failed(<<r, n, k>>)

\* "_load() always sets both or raises" (engine.py:252-255): also with threads of
\* earlier calls loading at the same time, the assertions never fail.
NeverHalfLoaded ==
  \A c \in Calls : Backend(c) = "trocr" /\ at[c] = "read" => processor /\ model

\* The weights are read once (run.py:94-97), and again only as often as a call was
\* given up while it loaded them.
ReloadsAreTimeouts == loads <= 1 + Cardinality({c \in given : Backend(c) = "trocr"})

\* A backend that hangs for ever does not hang the router (engine.py:345-352): every
\* region gets its outcome, or the time limit ends the run.
RouterAnswers == <>(step = "interrupted" \/ \A r \in Crops : outcome[r] # "none")
=============================================================================
