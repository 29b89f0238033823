------------------------ MODULE MCDatasetGeneration ------------------------
(* A small instance of DatasetBundle for TLC.                              *)
EXTENDS DatasetBundle

CONSTANTS bad1, bad2, pii

Data == INSTANCE GenerationCases

MCRewrites == Data!CellRewrites
Reversed == Data!Reversed
=============================================================================
