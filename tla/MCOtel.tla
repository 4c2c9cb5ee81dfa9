------------------------------- MODULE MCOtel --------------------------------
(***************************************************************************)
(* Instances of the exporter for TLC.                                      *)
(***************************************************************************)
EXTENDS Otel, TLC

Symmetry == Permutations(Fd)
=============================================================================
