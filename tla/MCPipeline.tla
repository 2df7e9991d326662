------------------------------ MODULE MCPipeline ------------------------------
(* Small instances of DocumentPipeline for TLC.                                 *)
EXTENDS PipelineProperties, TLC

CONSTANTS w1, w2

TwoWorkers == {w1, w2}
WorkerSymmetry == Permutations(TwoWorkers)

\* A page of two regions, the first with an entity and with words worth a flag, and
\* an empty page.
TwoRegionsAndEmptyPage == <<2, 0>>
\* Two pages with a region each: the only layouts that can end in ready have no empty page.
OneRegionEach == <<1, 1>>
OneRegion == <<1>>

FirstRegion == {<<1, 1>>}
NoRegion == {}

Upto(n, kinds) == [k \in FaultKinds |-> IF k \in kinds THEN n ELSE 0]

\* What ends a run half-way or puts another one beside it.
OverlapAndLoss == Upto(1, {"workerLost", "redelivery", "lockLost"})
RowFaults == Upto(1, {"workerLost", "redelivery", "lockLost", "error"})
LeakFaults == Upto(1, {"redelivery", "sqlError"})
OverlapFaults == Upto(1, {"redelivery", "lockLost"})
SoftLimitFaults == Upto(1, {"softLimit", "hardLimit"})
EachFaultOnce == Upto(1, FaultKinds)
=============================================================================
