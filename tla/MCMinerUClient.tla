--------------------------- MODULE MCMinerUClient ---------------------------
(* Five attempts, as in the code; as many batches as they can create.     *)
EXTENDS MinerUClient

MCBatches == 1 .. MaxRetries
=============================================================================
