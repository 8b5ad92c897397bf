--------------------------- MODULE MCReproduction ----------------------------
(* TLC instance of Reproduction.  No symmetry: the run also checks liveness. *)
EXTENDS Reproduction
=============================================================================
