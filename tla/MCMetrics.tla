------------------------------ MODULE MCMetrics ------------------------------
(***************************************************************************)
(* Instances of the exporter with its metrics for TLC.                     *)
(***************************************************************************)
EXTENDS Metrics
=============================================================================
