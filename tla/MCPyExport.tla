----------------------------- MODULE MCPyExport -----------------------------
(* Instances of PyExport for TLC. *)
EXTENDS PyExport

AllEnv == EnvEvents
=============================================================================
