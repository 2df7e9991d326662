-------------------------------- MODULE Intake --------------------------------
(* Who gives a document its job: POST /documents and ingestion.batch when they   *)
(* have created it, POST /documents/{id}/reprocess, and the beat task            *)
(* reconcile_orphans. Each reads the row, commits and publishes in separate      *)
(* steps, none of them under the pipeline's lock.                                *)
EXTENDS DocumentStore

CONSTANTS
  Clients,       \* callers of reprocess, one call each
  MaxQueued,     \* bound only: the code publishes whatever waits. Two show one beside another
  MaxMishaps     \* bound on failed publishes and crashes

ASSUME IntakeAssumption ==
  /\ "upload" \notin Clients /\ "beat" \notin Clients
  /\ MaxQueued \in Nat
  /\ MaxMishaps \in Nat

Callers == Clients \cup {"upload"}     \* processes that go through _enqueue
Actors == Callers \cup {"beat"}

VARIABLES
  step,      \* step[a]: what actor a does next
  seen,      \* seen[a]: <<status, error_message is set>> as a's session last read it
  mishaps    \* failed publishes and crashes so far

intakeVars == <<step, seen, mishaps>>

IntakeTypeOK ==
  /\ step \in [Actors -> {"idle", "reset", "reload", "enqueue", "failed", "requeue",
                          "clear", "done"}]
  /\ seen \in [Actors -> Status \X BOOLEAN]
  /\ mishaps \in Nat

\* The row has been committed and its job is not published yet.
IntakeInit ==
  /\ status = "uploaded"
  /\ errorMessage = FALSE
  /\ jobs = [n \in Attempts |-> 0]
  /\ step = [a \in Actors |-> IF a = "upload" THEN "enqueue" ELSE "idle"]
  /\ seen = [a \in Actors |-> <<"uploaded", FALSE>>]
  /\ mishaps = 0

Row == <<status, errorMessage>>

GoOn(a, from, to) ==
  /\ step[a] = from
  /\ step' = [step EXCEPT ![a] = to]

\* The end of a call or of the task: its session is closed.
Finish(a, from, to) ==
  /\ GoOn(a, from, to)
  /\ seen' = [seen EXCEPT ![a] = <<"uploaded", FALSE>>]

Mishap == mishaps < MaxMishaps /\ mishaps' = mishaps + 1

Published == Publish(0) /\ UNCHANGED mishaps

\* run_ocr_job.delay() raises; the broker may have taken the message all the same.
NotPublished == Mishap /\ (Publish(0) \/ UNCHANGED jobs)

\* A commit of status s and error_message m: the ORM emits an UPDATE of the columns that
\* differ from what the session has loaded. `same` says that a loaded message is m's text.
CommitRow(a, s, m, same) ==
  /\ status' = IF seen[a][1] = s THEN status ELSE s
  /\ errorMessage' = IF seen[a][2] = m /\ same THEN errorMessage ELSE m

-------------------------------------------------------------------------------
(* POST /documents, ingest_one and reprocess *)

BeginReprocess(c) ==
  /\ GoOn(c, "idle", "reset")
  /\ seen' = [seen EXCEPT ![c] = Row]
  /\ UNCHANGED <<storeVars, mishaps>>

\* Mutant: the document is announced as already under way.
MutantResetStatus(c) ==
  /\ GoOn(c, "reset", "reload")
  /\ CommitRow(c, "preprocessing", FALSE, TRUE)
  /\ UNCHANGED <<jobs, seen, mishaps>>

ResetStatus(c) ==
  /\ GoOn(c, "reset", "reload")
  /\ CommitRow(c, "uploaded", FALSE, TRUE)
  /\ UNCHANGED <<jobs, seen, mishaps>>

\* document.id is read after the commit, which loads the row again.
Reload(c) ==
  /\ GoOn(c, "reload", "enqueue")
  /\ seen' = [seen EXCEPT ![c] = Row]
  /\ UNCHANGED <<storeVars, mishaps>>

\* _enqueue: publish; if that raises, ingest_one reads the row in a new session and the
\* API goes on with the one it has.
Enqueue(a) ==
  \/ /\ Finish(a, "enqueue", "done")
     /\ Published
     /\ UNCHANGED <<status, errorMessage>>
  \/ /\ GoOn(a, "enqueue", "failed")
     /\ NotPublished
     /\ \E row \in (IF a = "upload" THEN {seen[a], Row} ELSE {seen[a]}) :
          seen' = [seen EXCEPT ![a] = row]
     /\ UNCHANGED <<status, errorMessage>>

MarkNotEnqueued(a) ==
  /\ Finish(a, "failed", "done")
  /\ \E same \in BOOLEAN : CommitRow(a, "enqueue_failed", TRUE, same)
  /\ UNCHANGED <<jobs, mishaps>>

\* The API process or the ingest script dies inside a call.
CallerCrash(a) ==
  /\ \E at \in {"reset", "reload", "enqueue", "failed"} : Finish(a, at, "done")
  /\ Mishap
  /\ UNCHANGED storeVars

-------------------------------------------------------------------------------
(* reconcile_orphans *)

\* Mutant: only documents that are marked as failed are looked for.
MutantOrphaned == status = "enqueue_failed"

Orphaned == status \in {"uploaded", "enqueue_failed"}

\* The document is in the batch the SELECT returns (upload_time is past the cutoff).
SelectOrphan ==
  /\ Orphaned
  /\ GoOn("beat", "idle", "requeue")
  /\ seen' = [seen EXCEPT !["beat"] = Row]
  /\ UNCHANGED <<storeVars, mishaps>>

\* Publish again. A commit for an earlier document of the batch has expired this one,
\* which then is read again, and not filtered again.
Requeue ==
  \E row \in {seen["beat"], Row} :
    /\ jobs[0] < MaxQueued
    /\ \/ /\ row[1] = "enqueue_failed"
          /\ GoOn("beat", "requeue", "clear")
          /\ seen' = [seen EXCEPT !["beat"] = row]
          /\ Published
       \/ /\ row[1] # "enqueue_failed"
          /\ Finish("beat", "requeue", "idle")
          /\ Published
       \/ /\ Finish("beat", "requeue", "idle")
          /\ NotPublished
    /\ UNCHANGED <<status, errorMessage>>

\* The status read before publishing decides, whatever the new job has done since.
ClearFailure ==
  /\ Finish("beat", "clear", "idle")
  /\ CommitRow("beat", "uploaded", FALSE, TRUE)
  /\ UNCHANGED <<jobs, mishaps>>

BeatCrash ==
  /\ \E at \in {"requeue", "clear"} : Finish("beat", at, "idle")
  /\ Mishap
  /\ UNCHANGED storeVars

-------------------------------------------------------------------------------
ReprocessStep(c) == BeginReprocess(c) \/ ResetStatus(c) \/ Reload(c)
CallStep(a) == Enqueue(a) \/ MarkNotEnqueued(a)
BeatStep == SelectOrphan \/ Requeue \/ ClearFailure

IntakeStep ==
  \/ \E c \in Clients : ReprocessStep(c)
  \/ \E a \in Callers : CallStep(a) \/ CallerCrash(a)
  \/ BeatStep \/ BeatCrash
=============================================================================
