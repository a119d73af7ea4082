------------------------------ MODULE PyExport ------------------------------
(***************************************************************************)
(* The synchronous exports of the Python binding (libs/py): send_file and  *)
(* send_telemetry hand an operation to the EVP agent, pump its events once *)
(* and wait for the callback. An export and the main thread, which pumps   *)
(* events in Running and in ThreadStop, keep out of each other's way by    *)
(* means of three flags, one mutex and one condition (shared_state). The   *)
(* state that LoopIterate reports, and what an application sends through   *)
(* data export (send_metadata, send_state), go to the client with no flag. *)
(*                                                                         *)
(* A critical section is one action; a wait ends it, and goes on with      *)
(* another one after the signal or after its time has run out.             *)
(*                                                                         *)
(* Workers export from onIterate, and the main thread from on_start and    *)
(* on_stop. What follows a join that timed out is StateMachine's.          *)
(***************************************************************************)
EXTENDS Naturals, FiniteSets

CONSTANTS
  Workers,   \* the threads that run onIterate: one, as the library starts it
  Main,      \* the main thread
  MaxCalls,  \* bound on the exports of each thread
  Env        \* the failures and rare events that may occur

EnvEvents == {"reject", "exit", "joinTimeout", "spurious"}
May(event) == event \in Env
Threads == Workers \cup {Main}

ASSUME ThreadsAssumption == Main \notin Workers
ASSUME SingleWorker == \A v, w \in Workers : v = w
ASSUME BoundAssumption == MaxCalls \in Nat
ASSUME EnvAssumption == Env \subseteq EnvEvents

VARIABLES
  process_event_in_progress,
  operation_in_progress,
  operation_cb_in_progress,
  waiting,   \* the threads that wait for the condition
  phase,     \* Running, its end, or one of the other states
  main,      \* where the main thread is in Running or in ThreadStop
  alive,     \* the worker threads that have not ended
  exit,      \* the agent asks the instance to stop
  pc,        \* where each thread is in runSynchronizedOperation
  result,    \* what its last export returned
  calls,     \* the number of its exports
  ops,       \* operations the agent has accepted and not completed
  abandoned, \* an export ended while the agent had its operation
  silent     \* operation_in_progress was cleared, unsignalled, before main

flags == <<process_event_in_progress, operation_in_progress, operation_cb_in_progress>>
mainVars == <<phase, main, alive, exit>>
callVars == <<pc, result, calls>>
pastVars == <<abandoned, silent>>
vars == <<flags, waiting, mainVars, callVars, ops, pastVars>>

Labels == { "idle", "ops", "opsTimedOut", "submit", "pump", "pumped", "after",
            "cb", "cbTimedOut", "direct" }
Phases == {"running", "stopping", "stopped", "left"}
Places == {"lock", "wait", "pump", "release", "try", "report"}

-----------------------------------------------------------------------------
(* The condition *)

\* MUTANT: nobody is woken.
SignalNobody(threads) == waiting' = threads

\* pthread_cond_signal wakes one of those that wait.
Signal(threads) ==
  IF threads = {} THEN waiting' = {} ELSE \E t \in threads : waiting' = threads \ {t}

SpuriousWakeup ==
  /\ May("spurious")
  /\ \E t \in waiting : waiting' = waiting \ {t}
  /\ UNCHANGED <<flags, mainVars, callVars, ops, pastVars>>

Init ==
  /\ process_event_in_progress = FALSE
  /\ operation_in_progress = FALSE
  /\ operation_cb_in_progress = FALSE
  /\ waiting = {}
  /\ phase = "stopped" /\ main = "try" /\ alive = {} /\ exit = FALSE
  /\ pc = [t \in Threads |-> "idle"]
  /\ result = [t \in Threads |-> "none"] /\ calls = [t \in Threads |-> 0]
  /\ ops = {}
  /\ abandoned = FALSE /\ silent = FALSE

-----------------------------------------------------------------------------
(* runSynchronizedOperation *)

Operation(t) == [thread |-> t, call |-> calls[t]]

Goes(t, label) == pc' = [pc EXCEPT ![t] = label]

Returns(t, answer) ==
  /\ pc' = [pc EXCEPT ![t] = "idle"]
  /\ result' = [result EXCEPT ![t] = answer]

Busy == process_event_in_progress \/ operation_cb_in_progress

\* MUTANT: an export does not wait for the main thread's pump.
AwaitOperationsNever(t) ==
  operation_cb_in_progress' = TRUE /\ Goes(t, "submit") /\ UNCHANGED waiting

\* The loop of waitForOperationsToComplete, and what follows it.
AwaitOperations(t) ==
  IF Busy
    THEN waiting' = waiting \cup {t} /\ Goes(t, "ops") /\ UNCHANGED operation_cb_in_progress
    ELSE operation_cb_in_progress' = TRUE /\ Goes(t, "submit") /\ UNCHANGED waiting

\* A worker is in onIterate; main in an event function outside of Running.
MayCall(t) == IF t = Main THEN phase = "stopped" ELSE t \in alive

Begin(t) ==
  /\ pc[t] = "idle" /\ MayCall(t) /\ calls[t] < MaxCalls
  /\ calls' = [calls EXCEPT ![t] = calls[t] + 1]
  /\ operation_in_progress' = TRUE
  /\ AwaitOperations(t)
  /\ UNCHANGED <<process_event_in_progress, mainVars, result, ops, pastVars>>

OperationsWakes(t) ==
  /\ pc[t] = "ops" /\ t \notin waiting
  /\ AwaitOperations(t)
  /\ UNCHANGED <<process_event_in_progress, operation_in_progress, mainVars, result, calls,
                 ops, pastVars>>


\* ETIMEDOUT: the thread no longer waits, but has yet to get the mutex.
Expires(t) ==
  /\ pc[t] \in {"ops", "cb"} /\ t \in waiting
  /\ waiting' = waiting \ {t}
  /\ Goes(t, IF pc[t] = "ops" THEN "opsTimedOut" ELSE "cbTimedOut")
  /\ UNCHANGED <<flags, mainVars, result, calls, ops, pastVars>>

\* MUTANT: the flag stays up.
OperationsTimedOutKeepsFlag(t) ==
  /\ pc[t] = "opsTimedOut"
  /\ Returns(t, "failed")
  /\ UNCHANGED <<flags, waiting, mainVars, calls, ops, pastVars>>

\* The flag is cleared without a signal.
OperationsTimedOut(t) ==
  /\ pc[t] = "opsTimedOut"
  /\ operation_in_progress' = FALSE
  /\ silent' = (silent \/ Main \in waiting)
  /\ Returns(t, "failed")
  /\ UNCHANGED <<process_event_in_progress, operation_cb_in_progress, waiting, mainVars,
                 calls, ops, abandoned>>

Accepted(t) ==
  /\ pc[t] = "submit"
  /\ ops' = ops \cup {Operation(t)}
  /\ Goes(t, "pump")
  /\ UNCHANGED <<flags, waiting, mainVars, result, calls, pastVars>>

\* Both flags go down, and the call fails.
Fails(t) ==
  /\ operation_in_progress' = FALSE
  /\ operation_cb_in_progress' = FALSE
  /\ Signal(waiting)
  /\ Returns(t, "failed")
  /\ UNCHANGED <<process_event_in_progress, mainVars, calls, ops>>

Rejected(t) ==
  /\ pc[t] = "submit" /\ May("reject")
  /\ Fails(t)
  /\ UNCHANGED pastVars

\* EVP_processEvent of the export returns.
Pumped(t) ==
  /\ pc[t] = "pump" /\ ~exit
  /\ Goes(t, "pumped")
  /\ UNCHANGED <<flags, waiting, mainVars, result, calls, ops, pastVars>>

\* Its SHOULDEXIT also requests DESTROYING, which main sees on its own, too.
PumpSeesExit(t) ==
  /\ pc[t] = "pump" /\ exit
  /\ Fails(t)
  /\ abandoned' = (abandoned \/ ops # {})
  /\ UNCHANGED silent

\* MUTANT: the main thread is kept out until the callback has come.
OperationDoneKeepsFlag(t) ==
  /\ pc[t] = "pumped"
  /\ Goes(t, "after")
  /\ UNCHANGED <<flags, waiting, mainVars, result, calls, ops, pastVars>>

OperationDone(t) ==
  /\ pc[t] = "pumped"
  /\ operation_in_progress' = FALSE
  /\ Signal(waiting)
  /\ Goes(t, "after")
  /\ UNCHANGED <<process_event_in_progress, operation_cb_in_progress, mainVars, result,
                 calls, ops, pastVars>>

\* MUTANT: the callback is not waited for.
AwaitCallbackNever(t) ==
  /\ pc[t] \in {"after", "cb"} /\ t \notin waiting
  /\ Returns(t, "ok") /\ UNCHANGED waiting
  /\ UNCHANGED <<flags, mainVars, calls, ops, pastVars>>

\* The loop of waitForCallbackCompletion.
AwaitCallback(t) ==
  /\ pc[t] \in {"after", "cb"} /\ t \notin waiting
  /\ IF operation_cb_in_progress
       THEN waiting' = waiting \cup {t} /\ Goes(t, "cb") /\ UNCHANGED result
       ELSE Returns(t, "ok") /\ UNCHANGED waiting
  /\ UNCHANGED <<flags, mainVars, calls, ops, pastVars>>

CallbackTimedOut(t) ==
  /\ pc[t] = "cbTimedOut"
  /\ operation_cb_in_progress' = FALSE
  /\ abandoned' = (abandoned \/ ops # {})
  /\ Returns(t, "failed")
  /\ UNCHANGED <<process_event_in_progress, operation_in_progress, waiting, mainVars,
                 calls, ops, silent>>

-----------------------------------------------------------------------------
(* What a thread sends outside of runSynchronizedOperation *)

\* send_metadata, by way of SendDataSyncMeta, and send_state.
SendsDirectly(t) ==
  /\ pc[t] = "idle" /\ MayCall(t)
  /\ Goes(t, "direct")
  /\ UNCHANGED <<flags, waiting, mainVars, result, calls, ops, pastVars>>

\* The operation has been submitted, and awaited for a limited time.
DirectReturns(t) ==
  /\ pc[t] = "direct"
  /\ Goes(t, "idle")
  /\ UNCHANGED <<flags, waiting, mainVars, result, calls, ops, pastVars>>

-----------------------------------------------------------------------------
(* The main thread: Running::Iterate, LoopIterate and ThreadStop *)

\* ThreadStop tries to join before each turn.
Stops == phase' = "stopping" /\ main' = "try"

\* LoopIterate goes on in Running, and first sends a state if one is pending.
LoopsOn == phase' = "running" /\ main' \in {"report", "lock"}

MainLocks ==
  /\ main = "lock" \/ (main = "wait" /\ Main \notin waiting)
  /\ IF operation_in_progress
       THEN main' = "wait" /\ waiting' = waiting \cup {Main}
            /\ UNCHANGED process_event_in_progress
       ELSE main' = "pump" /\ process_event_in_progress' = TRUE /\ UNCHANGED waiting
  /\ UNCHANGED <<operation_in_progress, operation_cb_in_progress, phase, alive, exit,
                 callVars, ops, pastVars>>

MainPumped ==
  /\ main = "pump" /\ ~(exit /\ phase = "running")
  /\ main' = "release"
  /\ UNCHANGED <<flags, waiting, phase, alive, exit, callVars, ops, pastVars>>

\* Running::Iterate returns with its flag still up.
MainSeesExit ==
  /\ main = "pump" /\ exit /\ phase = "running"
  /\ Stops
  /\ UNCHANGED <<flags, waiting, alive, exit, callVars, ops, pastVars>>

\* Another state may have been requested; the join may take too long.
MainReleases ==
  /\ main = "release"
  /\ process_event_in_progress' = FALSE
  /\ Signal(waiting)
  /\ \/ phase = "running" /\ LoopsOn
     \/ phase \in {"running", "stopping"} /\ Stops
     \/ phase = "stopping" /\ May("joinTimeout") /\ phase' = "left" /\ main' = "try"
  /\ UNCHANGED <<operation_in_progress, operation_cb_in_progress, alive, exit, callVars,
                 ops, pastVars>>

\* EVP_sendState returns; the worker is alive.
MainReports ==
  /\ main = "report"
  /\ main' = "lock"
  /\ UNCHANGED <<flags, waiting, phase, alive, exit, callVars, ops, pastVars>>

TryJoin ==
  /\ phase = "stopping" /\ main = "try"
  /\ IF alive = {} THEN phase' = "stopped" /\ UNCHANGED main ELSE main' = "lock" /\ UNCHANGED phase
  /\ UNCHANGED <<flags, waiting, alive, exit, callVars, ops, pastVars>>

Start ==
  /\ phase = "stopped" /\ pc[Main] = "idle" /\ ~exit
  /\ LoopsOn
  /\ alive' = Workers
  /\ UNCHANGED <<flags, waiting, exit, callVars, ops, pastVars>>

\* onIterate has returned and the thread does not go on.
WorkerEnds(w) ==
  /\ w \in alive /\ pc[w] = "idle"
  /\ alive' = alive \ {w}
  /\ UNCHANGED <<flags, waiting, phase, main, exit, callVars, ops, pastVars>>

-----------------------------------------------------------------------------
(* The agent *)

\* Callbacks run in whatever thread calls EVP_processEvent; outside of
\* Running the main thread calls it all the time.
Pumping ==
  \/ main = "pump" \/ \E t \in Threads : pc[t] = "pump"
  \/ phase \in {"stopped", "left"} /\ pc[Main] = "idle"

\* sendFileDoneCallback, sendTelemetryDoneCallback: they know no operation.
Callback(op) ==
  /\ Pumping
  /\ ops' = ops \ {op}
  /\ operation_cb_in_progress' = FALSE
  /\ Signal(waiting)
  /\ UNCHANGED <<process_event_in_progress, operation_in_progress, mainVars, callVars, pastVars>>

RequestExit ==
  /\ May("exit") /\ ~exit
  /\ exit' = TRUE
  /\ UNCHANGED <<flags, waiting, phase, main, alive, callVars, ops, pastVars>>

CallStep(t) ==
  \/ OperationsWakes(t) \/ Expires(t) \/ OperationsTimedOut(t)
  \/ Accepted(t) \/ Rejected(t) \/ Pumped(t) \/ PumpSeesExit(t)
  \/ OperationDone(t) \/ AwaitCallback(t) \/ CallbackTimedOut(t)
  \/ DirectReturns(t)

MainStep ==
  MainLocks \/ MainPumped \/ MainSeesExit \/ MainReleases \/ MainReports \/ TryJoin

Next ==
  \/ \E t \in Threads : Begin(t) \/ SendsDirectly(t) \/ CallStep(t)
  \/ MainStep \/ Start
  \/ \E w \in Workers : WorkerEnds(w)
  \/ \E op \in ops : Callback(op)
  \/ RequestExit \/ SpuriousWakeup

Spec == Init /\ [][Next]_vars

\* Threads go on; a timed wait ends, however often it is interrupted, because
\* its deadline is absolute; a worker that is to be joined does not send for
\* ever, and ends. Nothing is asked of the agent.
FairSpec ==
  /\ Spec
  /\ \A t \in Threads : WF_vars(CallStep(t)) /\ SF_vars(Expires(t))
  /\ WF_vars(MainStep)
  /\ \A w \in Workers : SF_vars(phase = "stopping" /\ WorkerEnds(w))

-----------------------------------------------------------------------------
(* Properties *)

TypeOK ==
  /\ process_event_in_progress \in BOOLEAN
  /\ operation_in_progress \in BOOLEAN
  /\ operation_cb_in_progress \in BOOLEAN
  /\ waiting \subseteq Threads
  /\ phase \in Phases /\ main \in Places
  /\ alive \subseteq Workers /\ exit \in BOOLEAN
  /\ pc \in [Threads -> Labels]
  /\ result \in [Threads -> {"none", "ok", "failed"}]
  /\ calls \in [Threads -> Nat]
  /\ ops \subseteq [thread : Threads, call : Nat]
  /\ abandoned \in BOOLEAN /\ silent \in BOOLEAN

\* Who submits an operation of an export or pumps events, under the flags.
FlagUsers ==
  { t \in Threads : pc[t] \in {"submit", "pump"} \/ (t = Main /\ main = "pump") }

(* What the flags are for: neither the submission nor the pump of one      *)
(* export overlaps that of another or a pump of the main thread, in        *)
(* Running and in ThreadStop, also after exports that timed out and after  *)
(* SHOULDEXIT. It says nothing of what takes no flag.                      *)
ExportsExcludePumps == phase # "left" => \A s, t \in FlagUsers : s = t

\* Everyone who is in a call of EVP's client, with a flag or without.
ClientUsers ==
  FlagUsers \cup { t \in Threads : pc[t] = "direct" }
            \cup (IF main = "report" THEN {Main} ELSE {})

(* receive_data.cpp:53: "Concurrent calls with the same evp_client_ are    *)
(* not safe". They happen: the report of LoopIterate and what is sent      *)
(* directly meet an export, a pump and each other.                         *)
OneClient == phase # "left" => \A s, t \in ClientUsers : s = t

(* Whatever way an export ends, timeouts and exits included, it leaves no  *)
(* flag up that would keep the main thread or the next export waiting.     *)
FlagsAreReleased ==
  phase # "left" /\ (\A t \in Threads : pc[t] \in {"idle", "direct"})
    => ~operation_in_progress /\ ~operation_cb_in_progress

(* A successful export has been completed by the agent, which no longer    *)
(* reads the file that is unlinked now. An operation abandoned earlier     *)
(* breaks it: its callback lowers the flag of the next one.                *)
SuccessIsOwn ==
  \A t \in Threads : result[t] = "ok" /\ pc[t] \in {"idle", "direct"} /\ ~abandoned =>
    Operation(t) \notin ops

(* Until SHOULDEXIT nobody waits beside another, so that a signal, which   *)
(* wakes one thread, wakes the right one.                                  *)
WaitersAreAlone == ~exit /\ phase # "left" => \A s, t \in waiting : s = t


(* The main thread gets to pump events again, and ThreadStop gets out,     *)
(* unless an export that timed out cleared the flag without a signal.      *)
MainProceeds == (main = "wait") ~> (main # "wait" \/ silent)
StopEnds == (phase = "stopping") ~> (phase # "stopping" \/ silent)

(* py_data_export.cpp:517: "Update shared state to indicate that the       *)
(* operation has completed so that other operations can proceed."          *)
OthersProceed == (main = "wait") ~> (main # "wait")
=============================================================================
