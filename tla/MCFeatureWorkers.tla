-------------------------- MODULE MCFeatureWorkers --------------------------
(* A managed worker and a session worker. *)
EXTENDS FeatureWorkers
=============================================================================
