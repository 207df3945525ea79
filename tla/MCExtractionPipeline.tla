------------------------ MODULE MCExtractionPipeline ------------------------
(***************************************************************************)
(* Two small instances of the extraction pipeline.  In the first, one ALL  *)
(* run of two chunks shares the pool; in the second, ALL and PILOT runs of *)
(* one chunk each displace and resume one another.                         *)
(***************************************************************************)
EXTENDS ExtractionPipeline, TLC

CONSTANTS c1, c2, p1, r1, r2

PoolChunks == {c1, c2, p1}
PoolChunksOf == [mode \in RunModes |-> IF mode = "all" THEN {c1, c2} ELSE {p1}]
PoolRunIds == {r1}

RunsChunks == {c1, p1}
RunsChunksOf == [mode \in RunModes |-> IF mode = "all" THEN {c1} ELSE {p1}]
RunsRunIds == {r1, r2}
RunsSymmetry == Permutations(RunsRunIds)
=============================================================================
