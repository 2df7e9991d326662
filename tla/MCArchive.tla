------------------------------- MODULE MCArchive -------------------------------
(* Small instances of DocumentArchive for TLC.                                  *)
EXTENDS DocumentArchive, TLC

CONSTANTS w1, c1

OneWorker == {w1}
OneClient == {c1}

\* One empty page: how a run fills its rows is the business of MCPipeline.
EmptyPage == <<0>>
NoRegion == {}

Upto(n, kinds) == [k \in FaultKinds |-> IF k \in kinds THEN n ELSE 0]
RunFaults == Upto(1, {"workerLost", "error", "redelivery"})
NoFaults == Upto(0, {})
=============================================================================
