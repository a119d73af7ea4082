---------------------------- MODULE MCDataExport ----------------------------
(* Instances of DataExport for TLC. *)
EXTENDS DataExport

TwoFutures == {"f1", "f2"}
ThreeFutures == {"f1", "f2", "f3"}

\* The worker that runs onIterate, and a thread of the application's own.
OneCaller == {"worker"}
TwoCallers == {"worker", "helper"}
MainToo == {"worker", Main}

AllEnv == EnvEvents
=============================================================================
