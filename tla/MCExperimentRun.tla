--------------------------- MODULE MCExperimentRun ---------------------------
(* TLC instance of ExperimentRun.  No symmetry: the run also checks         *)
(* liveness.                                                                *)
EXTENDS ExperimentRun
=============================================================================
