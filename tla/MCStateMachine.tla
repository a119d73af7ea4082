--------------------------- MODULE MCStateMachine ---------------------------
(* Instances of StateMachine for TLC. *)
EXTENDS StateMachine

Config(r, v, p, i) == [req |-> r, valid |-> v, ps |-> p, iters |-> i]

(* Run without end, run for two iterations, stop, change something else,   *)
(* and a document that is rejected.                                        *)
AllConfigs ==
  { Config("run", TRUE, "RUNNING", 0), Config("twice", TRUE, "RUNNING", 2),
    Config("stop", TRUE, "IDLE", 0), Config("same", TRUE, "ABSENT", 0),
    Config("bad", FALSE, "RUNNING", 0) }

\* Every document but the limited run.
EndlessConfigs == { c \in AllConfigs : c.iters = 0 }

\* Run for ever, and run once.
HangConfigs == { Config("run", TRUE, "RUNNING", 0), Config("once", TRUE, "RUNNING", 1) }

OneThread == {"t1"}

\* Everything that may happen while every thread can be joined and every
\* configuration be copied.
JoinableEnv == EnvEvents \ {"joinTimeout", "oom"}

\* Everything but an onIterate that fails or stops itself, and a configuration
\* that cannot be copied.
QuietEnv == EnvEvents \ {"onIterate", "stopSelf", "oom"}
=============================================================================
