---------------------------- MODULE DocumentArchive ----------------------------
(* One document from its upload on: the intake and the pipeline on the same row   *)
(* and the same queue.                                                           *)
EXTENDS PipelineProperties, Intake

\* What the intake does not touch.
runVars == <<dataVars, pc, job, holds, localVars, faults>>

archiveVars == <<vars, intakeVars>>

ArchiveTypeOK == TypeOK /\ IntakeTypeOK

ArchiveInit == RunInit /\ IntakeInit

ArchiveNext ==
  \/ Next /\ UNCHANGED intakeVars
  \/ IntakeStep /\ UNCHANGED runVars

ArchiveSpec == ArchiveInit /\ [][ArchiveNext]_archiveVars

\* The calls that have begun are carried through, the beat task runs again and again
\* (beat_schedule, every 120 s) and live workers take their steps. Nobody has to call
\* reprocess, and nothing has to fail.
ArchiveFairness ==
  /\ \A w \in Workers : WF_archiveVars(WorkerStep(w) /\ UNCHANGED intakeVars)
  /\ \A c \in Clients : WF_archiveVars((ResetStatus(c) \/ Reload(c)) /\ UNCHANGED runVars)
  /\ \A a \in Callers : WF_archiveVars(CallStep(a) /\ UNCHANGED runVars)
  /\ WF_archiveVars(BeatStep /\ UNCHANGED runVars)

FairArchive == ArchiveSpec /\ ArchiveFairness

-------------------------------------------------------------------------------
\* No call is between its first and its last step.
NoCallUnderWay == \A a \in Actors : step[a] \in {"idle", "done"}

\* A document nobody acts on is one reconcile_orphans selects, or has its verdict: no
\* order of uploads, reprocess calls, reconciliations, crashes and failed publishes
\* leaves it in a status of a run that is not there.
NeverForgotten ==
  NoJobWaiting /\ (\A w \in Workers : pc[w] = "idle") /\ NoCallUnderWay
    => JobDropped \/ status \in Terminal \/ Orphaned

\* Every document gets its verdict and keeps it, also when its job was never published,
\* or was published although the caller was told otherwise, and when the stale commit of
\* reconcile_orphans (worker.py:86-89) takes the verdict away from a finished document.
EventuallyAnswered == <>[](JobDropped \/ status \in Terminal)

\* worker.py:66, "Re-enqueue documents stuck in uploaded/enqueue_failed after a broker
\* drop": a document whose job waits in the queue is not stuck and gets no second one.
OnlyStuckRequeued ==
  [][step["beat"] = "requeue" /\ step'["beat"] # "requeue" /\ jobs'[0] > jobs[0]
       => NoJobWaiting]_archiveVars

\* NeverForgotten is not preserved by every step; this says who will act and is.
OutstandingInArchive == OutstandingWork \/ Orphaned
=============================================================================
