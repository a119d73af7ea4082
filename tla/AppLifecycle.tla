---------------------------- MODULE AppLifecycle ----------------------------
(***************************************************************************)
(* What the library promises an edge application about its event           *)
(* functions (include/sm.h): onCreate comes first, onIterate runs only     *)
(* between a successful onStart and the matching onStop and never overlaps *)
(* another event function of that life, every onStart is followed by an    *)
(* onStop before anything else happens, and onDestroy is the last call.    *)
(*                                                                         *)
(* StateMachine is the detailed system that keeps this promise.            *)
(***************************************************************************)

VARIABLES
  phase,   \* where the application is in its life
  busy     \* onIterate is executing

lifecycleVars == <<phase, busy>>

Phases == {"new", "created", "started", "startFailed", "destroyed"}

LifecycleInit == phase = "new" /\ ~busy

\* onCreate returned 0; a failing onCreate leaves the application new.
OnCreate == phase = "new" /\ phase' = "created" /\ UNCHANGED busy

\* onStart returned 0, or an error; onStop is owed in both cases.
OnStart ==
  /\ phase = "created" /\ ~busy
  /\ phase' \in {"started", "startFailed"}
  /\ UNCHANGED busy

OnIterateBegins == phase = "started" /\ ~busy /\ busy' /\ UNCHANGED phase

OnIterateReturns == busy /\ ~busy' /\ UNCHANGED phase

OnStop ==
  /\ phase \in {"started", "startFailed"} /\ ~busy
  /\ phase' = "created"
  /\ UNCHANGED busy

\* An instance that never received a configuration is destroyed while new.
OnDestroy ==
  /\ phase \in {"new", "created"} /\ ~busy
  /\ phase' = "destroyed"
  /\ UNCHANGED busy

LifecycleNext ==
  OnCreate \/ OnStart \/ OnIterateBegins \/ OnIterateReturns \/ OnStop \/ OnDestroy

LifecycleSpec == LifecycleInit /\ [][LifecycleNext]_lifecycleVars
=============================================================================
