---------------------------- MODULE StateMachine ----------------------------
(***************************************************************************)
(* The state machine of libs/sm: the main thread that runs LoopIterate,    *)
(* the worker thread of the Running state, and the two callbacks of the    *)
(* EVP agent that reach the machine (a configuration, the completion of a  *)
(* data export).                                                           *)
(*                                                                         *)
(* The threads share _next_state, the notification flag and the            *)
(* process_state of the DTDL model without a lock, so every access of the  *)
(* worker is a step of its own and the main thread is split wherever it    *)
(* reads or writes one of them while a worker may be alive.                *)
(***************************************************************************)
EXTENDS Integers

CONSTANTS
  Threads,   \* slots for worker threads; one is enough unless a join times out
  Configs,   \* the configurations the cloud may send
  MaxIters,  \* largest number_of_iterations in a configuration
  Env        \* the failures and rare events the environment may produce

EnvEvents ==
  { "sensorInit", "onCreate", "onConfigure", "onStart", "onIterate", "onStop",
    "onDestroy", "closeStream", "stopSelf", "appExit", "download", "oom",
    "joinTimeout", "sendState" }

States == { "CREATING", "IDLE", "RUNNING", "DESTROYING", "EXITING",
            "COOLINGDOWN", "APPLYING" }

\* The process_state a configuration asks for; it may not mention it.
RequestedStates == {"IDLE", "RUNNING", "ABSENT"}

NoReq == "none"
NoConfig == [req |-> NoReq, valid |-> FALSE, ps |-> "ABSENT", iters |-> 0]
NoThread == "noThread"

ASSUME ConfigsAssumption ==
  /\ MaxIters \in Nat
  /\ \A c \in Configs : /\ c.req # NoReq
                        /\ c.valid \in BOOLEAN
                        /\ c.ps \in RequestedStates
                        /\ c.iters \in 0..MaxIters
ASSUME ThreadsAssumption == Threads # {} /\ NoThread \notin Threads
ASSUME EnvAssumption == Env \subseteq EnvEvents

VARIABLES
  pc,          \* where the main thread is in LoopIterate
  cur,         \* enum of current_state
  tgt,         \* enum of the State object LoopIterate has created
  next,        \* _next_state
  notify,      \* is_pending_notification
  pstate,      \* common_settings.process_state of the DTDL model
  reported,    \* the process_state in the last state the agent took to the cloud
  sent,        \* history: the agent took the last state it was handed
  pending,     \* pending_configuration
  lastReq,     \* req_info.req_id, the id of the last configuration applied
  iters,       \* inference_settings.number_of_iterations
  initialized, \* is_initialized of applying.cpp: sensor opened, onCreate done
  sensorOpen,  \* the sensor stream is open
  robj,        \* the Running object: none, started, or failed in onStart
  run,         \* the thread of the current RunningThread object
  cmd,         \* its command
  worker,      \* where each worker thread is
  left,        \* iterations a worker still has to do, when it counts them
  counted,     \* the worker's number of iterations is limited
  ops,         \* some data export operation is pending
  exit         \* the agent has asked the instance to stop

mainVars == <<pc, cur, tgt>>
reportVars == <<reported, sent>>
dtdlVars == <<lastReq, iters>>
appVars == <<initialized, sensorOpen>>
threadVars == <<robj, run, cmd, worker, left, counted>>
vars == <<mainVars, next, notify, pstate, reportVars, pending, dtdlVars, appVars,
          threadVars, ops, exit>>

May(event) == event \in Env
Goto(label) == pc' = label

MainLabels ==
  { "iterate", "update", "settings", "restore", "transition", "create",
    "waitStart", "recheck", "stop", "join", "onStop", "setCurrent", "setState",
    "setNext", "notify", "clear", "exited" }
WorkerLabels ==
  { "none", "spawned", "iterate", "selfNotify", "check", "failNext", "failJson",
    "failInfo", "finish", "returning", "done" }

\* A worker is inside onIterate, or about to enter it.
Iterating(t) == worker[t] \in {"iterate", "selfNotify"}
\* The thread has been created and has not come to its end.
Alive(t) == worker[t] \notin {"none", "done"}

-----------------------------------------------------------------------------
(* Shared helpers *)

Feasible ==
  [ CREATING    |-> {"CREATING", "RUNNING", "DESTROYING"},
    IDLE        |-> {"IDLE", "RUNNING", "DESTROYING", "APPLYING"},
    RUNNING     |-> {"IDLE", "RUNNING", "DESTROYING", "COOLINGDOWN", "APPLYING"},
    DESTROYING  |-> {"DESTROYING", "EXITING"},
    EXITING     |-> {"EXITING"},
    COOLINGDOWN |-> {"DESTROYING", "COOLINGDOWN"},
    APPLYING    |-> {"IDLE", "RUNNING", "DESTROYING"} ]

IsFeasibleTransition(start, end) == end \in Feasible[start]

\* The request changes _next_state; asking for what is already next does not.
Changes(s) == s # next /\ IsFeasibleTransition(cur, s)
Accepted(s) == s = next \/ IsFeasibleTransition(cur, s)

UpdateProcessState(s) == next' = IF Changes(s) THEN s ELSE next

StoreProcessState(s) ==
  pstate' = IF Accepted(s) /\ s \in {"IDLE", "RUNNING"} THEN s ELSE pstate

SetProcessState(s) ==
  /\ UpdateProcessState(s)
  /\ notify' = (notify \/ Changes(s))
  /\ StoreProcessState(s)

\* Writing res_info raises the notification flag.
EventHandleError(s) ==
  /\ UpdateProcessState(s)
  /\ notify' = TRUE
  /\ StoreProcessState(s)

\* StateMachineContext::SendState: a failure, at once or told to the callback
\* later, is logged. Nothing sends the state again.
ReportState ==
  \/ reported' = pstate /\ sent' = TRUE
  \/ May("sendState") /\ sent' = FALSE /\ UNCHANGED reported

-----------------------------------------------------------------------------
(* EVP_processEvent handles at most one event per call. *)

\* MUTANT: a repeated req_id still asks for Applying.
ConfigurationCbAlways(c) ==
  /\ IF c.req = lastReq THEN UNCHANGED pending ELSE pending' = c
  /\ next' = "APPLYING"

ConfigurationCb(c) ==
  IF c.req = lastReq
    THEN UNCHANGED <<pending, next>>
    ELSE /\ \/ pending' = c
            \/ May("oom") /\ pending' = NoConfig
         /\ next' = "APPLYING"

\* Once the instance must stop, no further configuration is delivered; the
\* completions of what was sent still are.
ProcessEvent ==
  \/ /\ ~exit
     /\ \E c \in Configs : ConfigurationCb(c)
     /\ UNCHANGED ops
  \/ ops' \in {ops, FALSE} /\ UNCHANGED <<pending, next>>

\* The agent asks the module instance to stop, and does not take it back.
RequestExit ==
  /\ ~exit /\ exit' = TRUE
  /\ UNCHANGED <<mainVars, next, notify, pstate, reportVars, pending, dtdlVars,
                 appVars, threadVars, ops>>

-----------------------------------------------------------------------------
(* State::Iterate of each state *)

\* Both initialisations of Creating can only succeed.
CreatingIterate ==
  /\ pc = "iterate" /\ cur = "CREATING"
  /\ next' = "IDLE" /\ notify' = TRUE
  /\ Goto("transition")
  /\ UNCHANGED <<cur, tgt, pstate, reportVars, pending, dtdlVars, appVars,
                 threadVars, ops, exit>>

\* MUTANT: once the events are handled, Running asks to stay.
PumpIterateStays ==
  /\ pc = "iterate" /\ cur \in {"IDLE", "RUNNING"}
  /\ IF exit \/ cur = "IDLE"
       THEN \/ ~exit /\ ProcessEvent
            \/ exit /\ next' = "DESTROYING" /\ UNCHANGED <<ops, pending>>
       ELSE /\ next' = "RUNNING"
            /\ pending' \in Configs \cup {pending} /\ ops' \in {ops, FALSE}
  /\ Goto("transition")
  /\ UNCHANGED <<cur, tgt, notify, pstate, reportVars, dtdlVars, appVars,
                 threadVars, exit>>

\* Idle and Running pump events; both obey SHOULDEXIT.
PumpIterate ==
  /\ pc = "iterate" /\ cur \in {"IDLE", "RUNNING"}
  /\ \/ ~exit /\ ProcessEvent
     \/ exit /\ next' = "DESTROYING" /\ ops' \in {ops, FALSE} /\ UNCHANGED pending
  /\ Goto("transition")
  /\ UNCHANGED <<cur, tgt, notify, pstate, reportVars, dtdlVars, appVars,
                 threadVars, exit>>

\* DataExportHasPendingOperations() still holds: pump, whatever it returns.
CoolingDownPump ==
  /\ pc = "iterate" /\ cur = "COOLINGDOWN" /\ next # "DESTROYING" /\ ops
  /\ ProcessEvent
  /\ UNCHANGED <<mainVars, notify, pstate, reportVars, dtdlVars, appVars,
                 threadVars, exit>>

CoolingDownIterate ==
  /\ pc = "iterate" /\ cur = "COOLINGDOWN"
  /\ \/ next = "DESTROYING" /\ UNCHANGED <<next, notify>>
     \/ next # "DESTROYING" /\ ~ops /\ next' = "IDLE" /\ notify' = TRUE
  /\ Goto("transition")
  /\ UNCHANGED <<cur, tgt, pstate, reportVars, pending, dtdlVars, appVars,
                 threadVars, ops, exit>>

(* Applying: the first configuration opens the sensor and calls onCreate.  *)
(* When the sensor or onCreate fails, the pending configuration stays.     *)
ApplyingInitialize ==
  /\ pc = "iterate" /\ cur = "APPLYING"
  /\ \/ initialized /\ Goto("update") /\ UNCHANGED <<appVars, next, notify, pstate>>
     \/ /\ ~initialized
        /\ initialized' = TRUE /\ sensorOpen' = TRUE
        /\ Goto("update")
        /\ UNCHANGED <<next, notify, pstate>>
     \/ /\ ~initialized
        /\ \/ May("sensorInit") /\ EventHandleError("DESTROYING")
           \/ May("onCreate") /\ EventHandleError("IDLE")
        /\ Goto("transition")
        /\ UNCHANGED appVars
  /\ UNCHANGED <<cur, tgt, reportVars, pending, dtdlVars, threadVars, ops, exit>>

(* DtdlModel::Update up to the model downloads. CommonSettings::Apply may  *)
(* return before the number of iterations is stored.                       *)
ApplyingUpdate ==
  /\ pc = "update"
  /\ IF pending.valid
       THEN /\ lastReq' = pending.req
            /\ iters' \in {iters, pending.iters}
            /\ IF pending.ps = "ABSENT"
                 THEN UNCHANGED <<next, pstate>>
                 ELSE UpdateProcessState(pending.ps) /\ StoreProcessState(pending.ps)
            /\ Goto("settings")
            /\ UNCHANGED pending
       ELSE /\ lastReq' = IF pending = NoConfig THEN lastReq ELSE pending.req
            /\ next' = "IDLE" /\ pending' = NoConfig
            /\ Goto("transition")
            /\ UNCHANGED <<iters, pstate>>
  /\ notify' = TRUE
  /\ UNCHANGED <<cur, tgt, reportVars, appVars, threadVars, ops, exit>>

\* Downloading an AI model pumps events on the main thread.
ApplyingDownload ==
  /\ pc = "settings" /\ May("download")
  /\ ProcessEvent
  /\ UNCHANGED <<mainVars, notify, pstate, reportVars, dtdlVars, appVars,
                 threadVars, exit>>

\* custom_settings are handed to onConfigure.
ApplyingConfigure ==
  /\ pc = "settings"
  /\ \/ UNCHANGED <<next, notify, pstate>>
     \/ May("onConfigure") /\ EventHandleError("IDLE")
  /\ Goto("restore")
  /\ UNCHANGED <<cur, tgt, reportVars, pending, dtdlVars, appVars, threadVars,
                 ops, exit>>

\* MUTANT: the notification is cleared with the configuration, unsent.
ApplyingRestoreClears ==
  /\ pc = "restore"
  /\ pending' = NoConfig /\ notify' = FALSE
  /\ next' = pstate
  /\ Goto("transition")
  /\ UNCHANGED <<cur, tgt, pstate, reportVars, dtdlVars, appVars, threadVars, ops,
                 exit>>

ApplyingRestore ==
  /\ pc = "restore"
  /\ pending' = NoConfig
  /\ next' = pstate
  /\ Goto("transition")
  /\ UNCHANGED <<cur, tgt, notify, pstate, reportVars, dtdlVars, appVars,
                 threadVars, ops, exit>>

(* Destroying ends the loop whatever its outcome; a failure leaves what    *)
(* comes after it undone.                                                  *)
DestroyingIterate ==
  /\ pc = "iterate" /\ cur = "DESTROYING"
  /\ \/ May("onDestroy") /\ EventHandleError("DESTROYING") /\ UNCHANGED sensorOpen
     \/ /\ sensorOpen /\ May("closeStream")
        /\ EventHandleError("DESTROYING") /\ sensorOpen' \in BOOLEAN
     \/ sensorOpen' = FALSE /\ next' = "EXITING" /\ UNCHANGED <<notify, pstate>>
  /\ Goto("exited")
  /\ UNCHANGED <<cur, tgt, reportVars, pending, dtdlVars, initialized, threadVars,
                 ops, exit>>

-----------------------------------------------------------------------------
(* The rest of LoopIterate *)

\* The first read of _next_state.
ReadNext ==
  /\ pc = "transition"
  /\ IF next = cur THEN Goto("notify") /\ UNCHANGED tgt
                   ELSE Goto("create") /\ tgt' = next
  /\ UNCHANGED <<cur, next, notify, pstate, reportVars, pending, dtdlVars, appVars,
                 threadVars, ops, exit>>

CreateState ==
  /\ pc = "create" /\ tgt # "RUNNING"
  /\ Goto("recheck")
  /\ UNCHANGED <<cur, tgt, next, notify, pstate, reportVars, pending, dtdlVars,
                 appVars, threadVars, ops, exit>>

(* The constructor of Running: onStart, SendState, ThreadStart. A thread   *)
(* whose RunningThread object is gone frees its slot when it ends; while   *)
(* orphans hold every slot (the bound on orphans is Threads) onStart fails.*)
CreateRunning ==
  /\ pc = "create" /\ tgt = "RUNNING"
  /\ \/ \E t \in Threads :
          /\ ~Alive(t)
          /\ robj' = "started" /\ run' = t
          /\ worker' = [worker EXCEPT ![t] = "spawned"]
          /\ ReportState
          /\ Goto("waitStart")
          /\ UNCHANGED <<next, notify, pstate>>
     \/ /\ May("onStart") \/ \A t \in Threads : Alive(t)
        /\ robj' = "failed"
        /\ EventHandleError("IDLE")
        /\ Goto("recheck")
        /\ UNCHANGED <<run, worker, reportVars>>
  /\ cmd' = "UNINITIALIZED"
  /\ UNCHANGED <<cur, tgt, pending, dtdlVars, appVars, left, counted, ops, exit>>

WaitStart ==
  /\ pc = "waitStart" /\ cmd # "UNINITIALIZED"
  /\ Goto("recheck")
  /\ UNCHANGED <<cur, tgt, next, notify, pstate, reportVars, pending, dtdlVars,
                 appVars, threadVars, ops, exit>>

(* The second read of _next_state, taken to mean that onStart failed. The  *)
(* new Running object is deleted and Idle created instead. Otherwise       *)
(* SetCurrentState begins, which deletes a current Running object.         *)
RecheckNext ==
  /\ pc = "recheck"
  /\ IF tgt = "RUNNING" /\ next = "IDLE"
       THEN tgt' = "IDLE" /\ Goto("stop")
       ELSE /\ Goto(IF cur = "RUNNING" THEN "stop" ELSE "setCurrent")
            /\ UNCHANGED tgt
  /\ UNCHANGED <<cur, next, notify, pstate, reportVars, pending, dtdlVars, appVars,
                 threadVars, ops, exit>>

\* MUTANT: the thread is told to exit and not joined.
ThreadStopNoJoin ==
  /\ pc = "stop"
  /\ cmd' = IF cmd = "RUNNING" THEN "EXIT" ELSE cmd
  /\ Goto("onStop")
  /\ UNCHANGED <<cur, tgt, next, notify, pstate, reportVars, pending, dtdlVars,
                 appVars, robj, run, worker, left, counted, ops, exit>>

\* ThreadStop; a thread that was never started is not joined.
ThreadStop ==
  /\ pc = "stop"
  /\ IF cmd = "RUNNING" THEN cmd' = "EXIT" /\ Goto("join")
                        ELSE Goto("onStop") /\ UNCHANGED cmd
  /\ UNCHANGED <<cur, tgt, next, notify, pstate, reportVars, pending, dtdlVars,
                 appVars, robj, run, worker, left, counted, ops, exit>>

\* The worker has not ended: pump one event and try again.
JoinPump ==
  /\ pc = "join" /\ worker[run] # "done"
  /\ ProcessEvent
  /\ UNCHANGED <<mainVars, notify, pstate, reportVars, dtdlVars, appVars,
                 threadVars, exit>>

\* MUTANT: ThreadStop waits for ever.
JoinEndsNoTimeout ==
  /\ pc = "join" /\ worker[run] = "done"
  /\ worker' = [worker EXCEPT ![run] = "none"]
  /\ Goto("onStop")
  /\ UNCHANGED <<cur, tgt, next, notify, pstate, reportVars, pending, dtdlVars,
                 appVars, robj, run, cmd, left, counted, ops, exit>>

\* pthread_tryjoin_np succeeds, or a minute has passed.
JoinEnds ==
  /\ pc = "join"
  /\ \/ worker[run] = "done" /\ worker' = [worker EXCEPT ![run] = "none"]
     \/ worker[run] # "done" /\ May("joinTimeout") /\ UNCHANGED worker
  /\ Goto("onStop")
  /\ UNCHANGED <<cur, tgt, next, notify, pstate, reportVars, pending, dtdlVars,
                 appVars, robj, run, cmd, left, counted, ops, exit>>

\* The destructor of Running deletes the thread object and calls onStop.
OnStop ==
  /\ pc = "onStop"
  /\ robj' = "none" /\ run' = NoThread /\ cmd' = "UNINITIALIZED"
  /\ \/ UNCHANGED <<next, notify, pstate>>
     \/ /\ May("onStop")
        /\ IF robj = "started" THEN EventHandleError("IDLE") ELSE SetProcessState("IDLE")
  /\ Goto("setCurrent")
  /\ UNCHANGED <<cur, tgt, reportVars, pending, dtdlVars, appVars, worker, left,
                 counted, ops, exit>>

\* SetCurrentState proper: a request to destroy is kept for the next round.
SetCurrent ==
  /\ pc = "setCurrent"
  /\ cur' = tgt
  /\ Goto(IF next = "DESTROYING" THEN "notify" ELSE "setState")
  /\ UNCHANGED <<tgt, next, notify, pstate, reportVars, pending, dtdlVars, appVars,
                 threadVars, ops, exit>>

\* MUTANT: process_state is left as the configuration wrote it.
AlignProcessStateNever ==
  /\ pc = "setState"
  /\ Goto("setNext")
  /\ UNCHANGED <<cur, tgt, next, notify, pstate, reportVars, pending, dtdlVars,
                 appVars, threadVars, ops, exit>>

AlignProcessState ==
  /\ pc = "setState"
  /\ IF cur \in {"IDLE", "RUNNING"} /\ pstate # cur
       THEN SetProcessState(cur)
       ELSE UNCHANGED <<next, notify, pstate>>
  /\ Goto("setNext")
  /\ UNCHANGED <<cur, tgt, reportVars, pending, dtdlVars, appVars, threadVars, ops,
                 exit>>

SetNext ==
  /\ pc = "setNext"
  /\ next' = cur
  /\ Goto("notify")
  /\ UNCHANGED <<cur, tgt, notify, pstate, reportVars, pending, dtdlVars, appVars,
                 threadVars, ops, exit>>

SendState ==
  /\ pc = "notify"
  /\ IF notify THEN ReportState /\ Goto("clear")
               ELSE UNCHANGED reportVars /\ Goto("iterate")
  /\ UNCHANGED <<cur, tgt, next, notify, pstate, pending, dtdlVars, appVars,
                 threadVars, ops, exit>>

ClearNotification ==
  /\ pc = "clear"
  /\ notify' = FALSE
  /\ Goto("iterate")
  /\ UNCHANGED <<cur, tgt, next, pstate, reportVars, pending, dtdlVars, appVars,
                 threadVars, ops, exit>>

-----------------------------------------------------------------------------
(* The worker thread: RunningThread::ThreadEntrypoint *)

WorkerGoto(t, label) == worker' = [worker EXCEPT ![t] = label]

\* What a worker never touches.
WorkerFrame == UNCHANGED <<mainVars, reportVars, pending, dtdlVars, appVars, robj,
                           run, exit>>

WorkerStart(t) ==
  /\ worker[t] = "spawned"
  /\ cmd' = "RUNNING"
  /\ left' = [left EXCEPT ![t] = iters]
  /\ counted' = [counted EXCEPT ![t] = iters > 0]
  /\ WorkerGoto(t, "iterate")
  /\ WorkerFrame /\ UNCHANGED <<next, notify, pstate, ops>>

\* The application may export data and may send its own state.
OnIterateOk(t) ==
  /\ worker[t] = "iterate"
  /\ ops' \in {ops, TRUE} /\ notify' \in {notify, TRUE}
  /\ WorkerGoto(t, "check")
  /\ WorkerFrame /\ UNCHANGED <<next, pstate, cmd, left, counted>>

\* DataExportStopSelf is two writes.
OnIterateStopSelf(t) ==
  /\ worker[t] = "iterate" /\ May("stopSelf")
  /\ next' = "IDLE"
  /\ WorkerGoto(t, "selfNotify")
  /\ WorkerFrame /\ UNCHANGED <<notify, pstate, ops, cmd, left, counted>>

StopSelfNotify(t) ==
  /\ worker[t] = "selfNotify"
  /\ notify' = TRUE
  /\ WorkerGoto(t, "check")
  /\ WorkerFrame /\ UNCHANGED <<next, pstate, ops, cmd, left, counted>>

\* The Python binding pumps events on this thread and obeys SHOULDEXIT.
OnIterateSeesExit(t) ==
  /\ worker[t] = "iterate" /\ May("appExit") /\ exit
  /\ next' = "DESTROYING"
  /\ WorkerGoto(t, "check")
  /\ WorkerFrame /\ UNCHANGED <<notify, pstate, ops, cmd, left, counted>>

OnIterateFails(t) ==
  /\ worker[t] = "iterate" /\ May("onIterate")
  /\ WorkerGoto(t, "failNext")
  /\ WorkerFrame /\ UNCHANGED <<next, notify, pstate, ops, cmd, left, counted>>

\* EventHandleError(IDLE) on the worker: request, process_state, res_info.
FailNext(t) ==
  /\ worker[t] = "failNext"
  /\ UpdateProcessState("IDLE")
  /\ notify' = (notify \/ Changes("IDLE"))
  /\ WorkerGoto(t, IF Accepted("IDLE") THEN "failJson" ELSE "failInfo")
  /\ WorkerFrame /\ UNCHANGED <<pstate, ops, cmd, left, counted>>

FailProcessState(t) ==
  /\ worker[t] = "failJson"
  /\ pstate' = "IDLE"
  /\ WorkerGoto(t, "failInfo")
  /\ WorkerFrame /\ UNCHANGED <<next, notify, ops, cmd, left, counted>>

FailResInfo(t) ==
  /\ worker[t] = "failInfo"
  /\ notify' = TRUE
  /\ WorkerGoto(t, "returning")
  /\ WorkerFrame /\ UNCHANGED <<next, pstate, ops, cmd, left, counted>>

\* MUTANT: the worker does not look at its command.
CheckCommandDeaf(t) ==
  /\ worker[t] = "check"
  /\ left' = [left EXCEPT ![t] = IF counted[t] THEN @ - 1 ELSE @]
  /\ WorkerGoto(t, IF counted[t] /\ left[t] = 1 THEN "finish" ELSE "iterate")
  /\ WorkerFrame /\ UNCHANGED <<next, notify, pstate, ops, cmd, counted>>

(* After each onIterate the worker reads its command. An orphan reads an   *)
(* object that has been deleted, and may find anything there.              *)
CheckCommand(t) ==
  /\ worker[t] = "check"
  /\ \/ /\ cmd = "EXIT" \/ t # run
        /\ WorkerGoto(t, "finish")
        /\ UNCHANGED left
     \/ /\ cmd # "EXIT" \/ t # run
        /\ IF counted[t]
             THEN /\ left' = [left EXCEPT ![t] = @ - 1]
                  /\ WorkerGoto(t, IF left[t] > 1 THEN "iterate" ELSE "finish")
             ELSE WorkerGoto(t, "iterate") /\ UNCHANGED left
  /\ WorkerFrame /\ UNCHANGED <<next, notify, pstate, ops, cmd, counted>>

\* A limited run asks to cool down, even when it was told to exit.
WorkerFinish(t) ==
  /\ worker[t] = "finish"
  /\ next' = IF counted[t] THEN "COOLINGDOWN" ELSE next
  /\ WorkerGoto(t, "returning")
  /\ WorkerFrame /\ UNCHANGED <<notify, pstate, ops, cmd, left, counted>>

\* Only a thread that has returned can be joined.
WorkerReturns(t) ==
  /\ worker[t] = "returning"
  /\ WorkerGoto(t, "done")
  /\ WorkerFrame /\ UNCHANGED <<next, notify, pstate, ops, cmd, left, counted>>

-----------------------------------------------------------------------------
Init ==
  /\ pc = "iterate" /\ cur = "CREATING" /\ tgt = "CREATING" /\ next = "CREATING"
  /\ notify = FALSE /\ pstate = "IDLE" /\ reported = "NONE" /\ sent = TRUE
  /\ pending = NoConfig /\ lastReq = NoReq /\ iters = 0
  /\ initialized = FALSE /\ sensorOpen = FALSE
  /\ robj = "none" /\ run = NoThread /\ cmd = "UNINITIALIZED"
  /\ worker = [t \in Threads |-> "none"]
  /\ left = [t \in Threads |-> 0] /\ counted = [t \in Threads |-> FALSE]
  /\ ops = FALSE /\ exit = FALSE

IterateStep ==
  \/ CreatingIterate \/ PumpIterate
  \/ CoolingDownPump \/ CoolingDownIterate
  \/ ApplyingInitialize \/ ApplyingUpdate \/ ApplyingDownload
  \/ ApplyingConfigure \/ ApplyingRestore
  \/ DestroyingIterate

TransitionStep ==
  \/ ReadNext \/ CreateState \/ CreateRunning \/ WaitStart \/ RecheckNext
  \/ ThreadStop \/ JoinPump \/ JoinEnds \/ OnStop
  \/ SetCurrent \/ AlignProcessState \/ SetNext
  \/ SendState \/ ClearNotification

MainStep == IterateStep \/ TransitionStep

WorkerStep(t) ==
  \/ WorkerStart(t) \/ OnIterateOk(t)
  \/ OnIterateStopSelf(t) \/ StopSelfNotify(t) \/ OnIterateSeesExit(t)
  \/ OnIterateFails(t) \/ FailNext(t) \/ FailProcessState(t) \/ FailResInfo(t)
  \/ CheckCommand(t) \/ WorkerFinish(t) \/ WorkerReturns(t)

\* Run() has returned.
Exited == pc = "exited" /\ UNCHANGED vars

Next == MainStep \/ (\E t \in Threads : WorkerStep(t)) \/ RequestExit \/ Exited

Spec == Init /\ [][Next]_vars

(***************************************************************************)
(* Both threads are scheduled, onIterate returns, model downloads end, and *)
(* the agent completes every operation it accepted. The agent need not     *)
(* deliver a configuration nor ask the instance to stop.                   *)
(***************************************************************************)
Fairness ==
  /\ WF_vars(MainStep)
  /\ WF_vars(ApplyingConfigure)
  /\ WF_vars(CoolingDownPump /\ ~ops')
  /\ \A t \in Threads : WF_vars(WorkerStep(t))

FairSpec == Spec /\ Fairness

\* The same, but onIterate may hang: only the minute ThreadStop waits ends.
HangFairness ==
  /\ WF_vars(MainStep) /\ WF_vars(JoinEnds)
  /\ WF_vars(ApplyingConfigure)
  /\ WF_vars(CoolingDownPump /\ ~ops')
  /\ \A t \in Threads : WF_vars(WorkerStart(t))

HangSpec == Spec /\ HangFairness

-----------------------------------------------------------------------------
(* Properties *)

ControlTypeOK ==
  /\ pc \in MainLabels
  /\ cur \in States /\ tgt \in States /\ next \in States
  /\ pstate \in {"IDLE", "RUNNING"} /\ reported \in {"IDLE", "RUNNING", "NONE"}
  /\ robj \in {"none", "started", "failed"}
  /\ run \in Threads \cup {NoThread}
  /\ cmd \in {"UNINITIALIZED", "RUNNING", "EXIT"}

FlagTypeOK ==
  /\ notify \in BOOLEAN /\ initialized \in BOOLEAN /\ sensorOpen \in BOOLEAN
  /\ ops \in BOOLEAN /\ exit \in BOOLEAN /\ sent \in BOOLEAN

ConfigTypeOK ==
  /\ pending \in Configs \cup {NoConfig}
  /\ lastReq \in {c.req : c \in Configs} \cup {NoReq}
  /\ iters \in 0..MaxIters

WorkerTypeOK ==
  /\ worker \in [Threads -> WorkerLabels]
  /\ left \in [Threads -> 0..MaxIters] /\ counted \in [Threads -> BOOLEAN]

(* Every variable has its type. That left never passes below zero is what  *)
(* it says of the worker: it does no iteration more than it was asked for. *)
TypeOK == ControlTypeOK /\ FlagTypeOK /\ ConfigTypeOK /\ WorkerTypeOK

NoWorker == \A t \in Threads : ~Alive(t)

\* Where the application is in its life, read off the Running object and the
\* workers.
Phase ==
  IF pc = "exited" THEN "destroyed"
  ELSE IF robj = "started" THEN "started"
  ELSE IF robj = "failed" THEN "startFailed"
  ELSE IF initialized THEN "created" ELSE "new"

Busy == \E t \in Threads : Iterating(t)

Lifecycle == INSTANCE AppLifecycle WITH phase <- Phase, busy <- Busy

(* An application keeps the life sm.h promises it, in every interleaving   *)
(* of the worker, the callbacks and the failures of its event functions.   *)
KeepsLifecycle == Lifecycle!LifecycleSpec

(* Configuring is quiescent: while Applying rewrites the settings, calls   *)
(* onConfigure or downloads a model, no worker of an earlier run is left.  *)
ConfigureIsQuiescent ==
  pc \in {"update", "settings", "restore"} => initialized /\ NoWorker

(* onIterate always finds the sensor stream open, from its first call to   *)
(* the last, whatever made the machine leave Running.                      *)
IterateHasSensor == Busy => sensorOpen

(* Applying is entered only with a configuration to apply, although the    *)
(* request for it passes through _next_state, which anyone overwrites.     *)
ApplyingHasConfiguration == pc = "update" => pending # NoConfig

(* Idle at rest has told the DTDL model so: the process_state a report     *)
(* would carry is the state the machine is in, and nothing runs.           *)
IdleIsSettled ==
  pc = "iterate" /\ cur = "IDLE" /\ next = "IDLE" => pstate = "IDLE" /\ NoWorker

(* Idle at rest has told the cloud so, through whatever states it came,    *)
(* unless the agent did not take the last state it was handed: a failed    *)
(* EVP_sendState is logged, its notification cleared and nothing sends it  *)
(* again; the next report that succeeds makes up for it. It holds when no  *)
(* onIterate fails and none stops itself, where a worker changes what a    *)
(* report says or asks for Idle: a notification it raises between          *)
(* SendState and ClearNotification is lost.                                *)
IdleIsReported ==
  pc = "iterate" /\ cur = "IDLE" /\ next = "IDLE" /\ sent => reported = "IDLE"

(* A request to stop ends the instance, even when it is overwritten by a   *)
(* worker, arrives while a thread is joined or while Running cools down.   *)
ExitIsHonoured == exit ~> pc = "exited"

(* A worker that has been told to stop is joined, so ThreadStop never      *)
(* outlives the thread it waits for and always comes back.                 *)
StopEndsWorker == pc = "join" ~> NoWorker

(* Once Running is installed, a limited run that ends leaves Running.      *)
LimitedRunLeavesRunning ==
  next = "COOLINGDOWN" /\ cur = "RUNNING" /\ pc = "iterate" ~> cur # "RUNNING"

\* Creation has failed: Applying leaves with its configuration still pending.
CreateGaveUp == cur = "APPLYING" /\ pc = "transition" /\ ~initialized

\* The configuration waits, and not because creation failed on it before.
Received(c) ==
  /\ pending = c /\ pc \notin {"settings", "restore"}
  /\ next = "APPLYING" \/ initialized

(* A configuration that was received is taken up, whatever becomes of      *)
(* _next_state once the application exists: applied, or rejected when      *)
(* it is not valid, unless a newer one takes its place, the instance ends, *)
(* or onCreate fails on it, which leaves it pending in Idle. One that      *)
(* arrives while Applying downloads a model is not among those the         *)
(* property speaks of: Applying clears it and overwrites its request. It   *)
(* holds while a configuration can be copied and no worker overwrites its  *)
(* request: not when a run ends by itself or an onIterate fails or stops.  *)
ConfigurationIsApplied ==
  \A c \in Configs :
    Received(c)
      ~> \/ lastReq = c.req
         \/ pending \notin {c, NoConfig}
         \/ pc = "exited"
         \/ CreateGaveUp

(* The application exists before the machine rests in Idle: what sm.h and  *)
(* the tutorial say of Creating. The code creates it in Applying.          *)
CreatedBeforeIdle == cur = "IDLE" => initialized

(* DataExportStopSelf takes the machine out of Running: the worker that    *)
(* called it is joined.                                                    *)
StopSelfIsHonoured ==
  \A t \in Threads : worker[t] = "selfNotify" ~> worker[t] = "none"

(* A report is sent after the state it names has become effective.         *)
ReportedIsEffective ==
  pc = "clear" /\ cur \in {"IDLE", "RUNNING"} => reported = cur

(* onStop is called after the thread has ended.                            *)
StopIsQuiescent == pc = "onStop" => NoWorker

-----------------------------------------------------------------------------
(* The inductive invariant behind the safety properties. It assumes that   *)
(* joins do not time out, and, for its last part, that a configuration can *)
(* always be copied.                                                       *)

\* A worker that counts has iterations left until it finishes.
CountInv ==
  \A t \in Threads :
    worker[t] \in {"iterate", "selfNotify", "check"} /\ counted[t] => left[t] > 0

\* Only the thread of the current Running object is there, and its object is
\* deleted after it has ended.
ThreadInv ==
  /\ \A t \in Threads : worker[t] # "none" => t = run /\ robj = "started"
  /\ pc = "onStop" => \A t \in Threads : worker[t] = "none"
  /\ robj = "started" => run \in Threads

\* Where the main thread is while a Running object exists.
RunningObjectInv ==
  /\ robj # "none" =>
       \/ cur = "RUNNING" /\ pc # "setCurrent"
       \/ tgt = "RUNNING" /\ pc \in {"waitStart", "recheck", "setCurrent"}
       \/ pc \in {"stop", "join", "onStop"}
  /\ robj = "none" => pc \notin {"waitStart", "stop", "join", "onStop"}
  /\ cur = "RUNNING" => robj # "none" \/ pc = "setCurrent"
  /\ tgt = "RUNNING" /\ pc \in {"recheck", "setCurrent"} => robj # "none"
  /\ tgt = "RUNNING" /\ pc \in {"create", "waitStart", "recheck"} => cur # "RUNNING"
  /\ pc \in {"stop", "join", "onStop"} => tgt # "RUNNING"

\* A started thread that ThreadStop would not wait for does not exist.
CommandInv ==
  /\ pc \in {"waitStart", "join"} => robj = "started"
  /\ robj = "started" /\ pc \notin {"waitStart", "join", "onStop"} => cmd = "RUNNING"
  /\ robj # "started" => cmd = "UNINITIALIZED"
  /\ \A t \in Threads :
       worker[t] = "spawned" => pc = "waitStart" /\ cmd = "UNINITIALIZED"
  /\ pc = "waitStart" /\ cmd # "UNINITIALIZED" => cmd = "RUNNING"

\* Nothing runs before the application has been created.
CreatedInv ==
  /\ "RUNNING" \in {next, tgt, cur, pstate} \/ robj # "none" => initialized
  /\ pc \in {"update", "settings", "restore"} => initialized /\ cur = "APPLYING"
  /\ pc # "exited" => sensorOpen = initialized
  /\ pc = "exited" => cur = "DESTROYING"

\* What a request to destroy may leave unaligned when Idle is entered.
SettledInv ==
  cur = "IDLE" =>
    /\ pc = "setNext" => pstate = "IDLE"
    /\ pc \in {"notify", "clear", "iterate"} => pstate = "IDLE" \/ next = "DESTROYING"
    /\ pc = "transition" => pstate = "IDLE" \/ next \in {"DESTROYING", "APPLYING"}

SafetyInv ==
  CountInv /\ ThreadInv /\ RunningObjectInv /\ CommandInv /\ CreatedInv /\ SettledInv

\* From the request to the moment it is read, the configuration is there.
RequestInv ==
  /\ next = "APPLYING" => pending # NoConfig
  /\ tgt = "APPLYING"
     /\ pc \in {"create", "waitStart", "recheck", "stop", "join", "onStop", "setCurrent"}
       => pending # NoConfig
  /\ cur = "APPLYING" /\ pc \in {"setState", "setNext", "notify", "clear", "iterate"}
       => pending # NoConfig
  /\ pc = "update" => pending # NoConfig

(***************************************************************************)
(* The inductive invariant behind IdleIsReported. It assumes that no       *)
(* worker fails or stops itself, and holds for any number of orphans.      *)
(***************************************************************************)

\* No worker is about to change process_state or to ask for Idle.
WorkerQuietInv ==
  \A t \in Threads :
    worker[t] \notin {"selfNotify", "failNext", "failJson", "failInfo"}

\* The steps that end a round make process_state agree with _next_state, and
\* until then a difference is notified.
AlignedInv ==
  /\ next \in {"IDLE", "RUNNING"} =>
       /\ pstate = next \/ notify
       /\ pc \in {"notify", "clear", "iterate"} => pstate = next
       /\ pc = "transition" /\ next = cur => pstate = next
  /\ pc = "setNext" /\ cur \in {"IDLE", "RUNNING"} => pstate = cur
  /\ pc = "update" => cur = "APPLYING"

\* Unless a notification is pending the last report carried process_state, if it
\* was taken; it does while the notification is cleared and when a round begins.
SentInv ==
  sent =>
    /\ notify \/ reported = pstate \/ (pc = "iterate" /\ cur = "CREATING")
    /\ pc = "clear" \/ (pc = "iterate" /\ cur # "CREATING") => reported = pstate

ReportInv == WorkerQuietInv /\ AlignedInv /\ SentInv
=============================================================================
