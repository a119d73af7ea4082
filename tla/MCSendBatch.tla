----------------------------- MODULE MCSendBatch -----------------------------
(* Instances of SendBatch for TLC. *)
EXTENDS SendBatch

AllEnv == EnvEvents
=============================================================================
