------------------------- MODULE StateMachineProofs -------------------------
(***************************************************************************)
(* Theorems of StateMachine. The assumption "joinTimeout" \notin Env says   *)
(* that every worker ends within the minute ThreadStop waits for it; "oom" *)
(* \notin Env says that a configuration can be copied.                     *)
(***************************************************************************)
EXTENDS StateMachine, TLAPS

-----------------------------------------------------------------------------
(* What the steps of each thread leave alone *)

\* A callback of the agent can only request Applying (configuration_cb).
LEMMA EventNext == ProcessEvent => next' \in {next, "APPLYING"}
  BY Zenon DEF ProcessEvent, ConfigurationCb

\* A callback leaves the pending configuration, replaces it or, out of memory,
\* loses it.
LEMMA EventPending == ProcessEvent => pending' \in Configs \cup {NoConfig, pending}
  BY Zenon DEF ProcessEvent, ConfigurationCb

\* State::Iterate runs on the main thread and touches no worker and no state object.
LEMMA IterateFrame ==
  IterateStep =>
    /\ UNCHANGED <<cur, tgt, robj, run, cmd, worker, left, counted>>
    /\ pc \in {"iterate", "update", "settings", "restore"}
    /\ pc' \in {"iterate", "update", "settings", "restore", "transition", "exited"}
  BY
    DEF IterateStep, CreatingIterate, PumpIterate, CoolingDownPump,
        CoolingDownIterate, ApplyingInitialize, ApplyingUpdate,
        ApplyingDownload, ApplyingConfigure, ApplyingRestore, DestroyingIterate,
        mainVars, threadVars, Goto

\* A step of the worker is a step of a thread that is alive, and changes nothing
\* the main thread owns.
LEMMA WorkerMoves ==
  ASSUME NEW t \in Threads, WorkerStep(t)
  PROVE  /\ WorkerFrame /\ Alive(t)
         /\ \E l \in WorkerLabels \ {"none", "spawned"} :
              worker' = [worker EXCEPT ![t] = l]
  BY
    DEF WorkerStep, WorkerStart, OnIterateOk, OnIterateStopSelf, StopSelfNotify,
        OnIterateSeesExit, OnIterateFails, FailNext, FailProcessState,
        FailResInfo, CheckCommand, WorkerFinish, WorkerReturns, WorkerGoto,
        WorkerLabels, Alive

-----------------------------------------------------------------------------
(* The parts of the inductive invariant *)

\* The thread of the current Running object is the only one, as long as every
\* join succeeds.
LEMMA ThreadStep ==
  ASSUME "joinTimeout" \notin Env, TypeOK, SafetyInv, [Next]_vars
  PROVE  ThreadInv'
<1> USE DEF SafetyInv, ThreadInv
<1>1. CASE IterateStep
  BY <1>1, IterateFrame
<1>2. ASSUME NEW t \in Threads, WorkerStep(t) PROVE ThreadInv'
  BY <1>2, WorkerMoves DEF WorkerFrame, Alive, TypeOK, WorkerTypeOK, mainVars
<1>3. CASE TransitionStep
  <2>1. CASE CreateRunning
    BY <2>1
      DEF CreateRunning, RunningObjectInv, TypeOK, WorkerTypeOK, ControlTypeOK,
          Goto
  <2>2. CASE ThreadStop
    BY <2>2
      DEF ThreadStop, RunningObjectInv, CommandInv, TypeOK, WorkerTypeOK,
          ControlTypeOK, Goto
  <2>3. CASE JoinEnds
    BY <2>3
      DEF JoinEnds, May, TypeOK, WorkerTypeOK, ControlTypeOK, CommandInv, Goto
  <2>4. CASE OnStop
    BY <2>4 DEF OnStop, Goto
  <2>5. CASE ReadNext \/ CreateState \/ WaitStart \/ RecheckNext \/ JoinPump
      \/ SetCurrent \/ AlignProcessState \/ SetNext \/ SendState
      \/ ClearNotification
    BY <2>5
      DEF ReadNext, CreateState, WaitStart, RecheckNext, JoinPump, SetCurrent,
          AlignProcessState, SetNext, SendState, ClearNotification, Goto,
          threadVars, mainVars
  <2> QED
    BY <1>3, <2>1, <2>2, <2>3, <2>4, <2>5 DEF TransitionStep
<1>4. CASE RequestExit \/ Exited \/ UNCHANGED vars
  BY <1>4 DEF RequestExit, Exited, vars, mainVars, threadVars
<1> QED
  BY <1>1, <1>2, <1>3, <1>4 DEF Next, MainStep

\* A Running object exists while Running is current, being entered or being left.
LEMMA ObjectStep ==
  ASSUME TypeOK, SafetyInv, [Next]_vars
  PROVE  RunningObjectInv'
<1> USE DEF SafetyInv, RunningObjectInv
<1>1. CASE IterateStep
  BY <1>1, IterateFrame
<1>2. ASSUME NEW t \in Threads, WorkerStep(t) PROVE RunningObjectInv'
  BY <1>2, WorkerMoves DEF WorkerFrame, mainVars
<1>3. CASE TransitionStep
  <2>1. CASE ReadNext \/ CreateState \/ WaitStart \/ RecheckNext
    BY <2>1 DEF ReadNext, CreateState, WaitStart, RecheckNext, Goto, threadVars
  <2>4. CASE CreateRunning \/ ThreadStop
    BY <2>4 DEF CreateRunning, ThreadStop, Goto
  <2>2. CASE JoinPump \/ JoinEnds \/ OnStop \/ SetCurrent
    BY <2>2
      DEF JoinPump, JoinEnds, OnStop, SetCurrent, Goto, mainVars, threadVars
  <2>3. CASE AlignProcessState \/ SetNext \/ SendState \/ ClearNotification
    BY <2>3
      DEF AlignProcessState, SetNext, SendState, ClearNotification, Goto,
          threadVars
  <2> QED
    BY <1>3, <2>1, <2>2, <2>3, <2>4 DEF TransitionStep
<1>4. CASE RequestExit \/ Exited \/ UNCHANGED vars
  BY <1>4 DEF RequestExit, Exited, vars, mainVars, threadVars
<1> QED
  BY <1>1, <1>2, <1>3, <1>4 DEF Next, MainStep

\* The command of the thread object follows the thread it commands.
LEMMA CommandStep ==
  ASSUME TypeOK, SafetyInv, [Next]_vars
  PROVE  CommandInv'
<1> USE DEF SafetyInv, CommandInv
<1>1. CASE IterateStep
  BY <1>1, IterateFrame
<1>2. ASSUME NEW t \in Threads, WorkerStep(t) PROVE CommandInv'
  <2>1. CASE WorkerStart(t)
    BY <2>1
      DEF WorkerStart, WorkerGoto, WorkerFrame, mainVars, ThreadInv, TypeOK,
          WorkerTypeOK
  <2>2. CASE ~WorkerStart(t)
    <3>1. UNCHANGED cmd
      BY <1>2, <2>2
        DEF WorkerStep, OnIterateOk, OnIterateStopSelf, StopSelfNotify,
            OnIterateSeesExit, OnIterateFails, FailNext, FailProcessState,
            FailResInfo, CheckCommand, WorkerFinish, WorkerReturns
    <3> QED
      BY <1>2, <3>1, WorkerMoves DEF WorkerFrame, mainVars, TypeOK, WorkerTypeOK
  <2> QED
    BY <2>1, <2>2
<1>3. CASE TransitionStep
  <2>1. CASE ReadNext \/ CreateState \/ WaitStart \/ RecheckNext
    BY <2>1
      DEF ReadNext, CreateState, WaitStart, RecheckNext, Goto, threadVars,
          RunningObjectInv
  <2>2. CASE CreateRunning
    BY <2>2
      DEF CreateRunning, Goto, ThreadInv, RunningObjectInv, TypeOK, WorkerTypeOK
  <2>3. CASE ThreadStop \/ JoinPump
    BY <2>3
      DEF ThreadStop, JoinPump, Goto, mainVars, threadVars, TypeOK,
          ControlTypeOK
  <2>4. CASE JoinEnds
    BY <2>4 DEF JoinEnds, Goto, TypeOK, WorkerTypeOK
  <2>5. CASE OnStop
    BY <2>5 DEF OnStop, Goto
  <2>6. CASE SetCurrent \/ AlignProcessState \/ SetNext \/ SendState
      \/ ClearNotification
    BY <2>6
      DEF SetCurrent, AlignProcessState, SetNext, SendState, ClearNotification,
          Goto, threadVars
  <2> QED
    BY <1>3, <2>1, <2>2, <2>3, <2>4, <2>5, <2>6 DEF TransitionStep
<1>4. CASE RequestExit \/ Exited \/ UNCHANGED vars
  BY <1>4 DEF RequestExit, Exited, vars, mainVars, threadVars
<1> QED
  BY <1>1, <1>2, <1>3, <1>4 DEF Next, MainStep

\* What a worker writes to _next_state and to process_state: never APPLYING or
\* RUNNING.
LEMMA WorkerRequests ==
  ASSUME NEW t \in Threads, WorkerStep(t)
  PROVE  next' \in {next, "IDLE", "COOLINGDOWN", "DESTROYING"}
      /\ pstate' \in {pstate, "IDLE"}
  BY
    DEF WorkerStep, WorkerStart, OnIterateOk, OnIterateStopSelf, StopSelfNotify,
        OnIterateSeesExit, OnIterateFails, FailNext, FailProcessState,
        FailResInfo, CheckCommand, WorkerFinish, WorkerReturns,
        UpdateProcessState

\* Nothing asks for Running before the sensor is open and onCreate has returned.
LEMMA CreatedStep ==
  ASSUME TypeOK, SafetyInv, [Next]_vars
  PROVE  CreatedInv'
<1> USE DEF SafetyInv, CreatedInv
<1>1. CASE IterateStep
  <2>1. CASE CreatingIterate \/ PumpIterate \/ CoolingDownPump \/ CoolingDownIterate
    BY <2>1, EventNext
      DEF CreatingIterate, PumpIterate, CoolingDownPump, CoolingDownIterate,
          Goto, mainVars, appVars, threadVars
  <2>2. CASE ApplyingInitialize
    BY <2>2
      DEF ApplyingInitialize, EventHandleError, UpdateProcessState,
          StoreProcessState, Goto, appVars, threadVars
  <2>3. CASE ApplyingUpdate
    BY <2>3 DEF ApplyingUpdate, Goto, appVars, threadVars
  <2>4. CASE ApplyingDownload \/ ApplyingRestore
    BY <2>4, EventNext
      DEF ApplyingDownload, ApplyingRestore, Goto, mainVars, appVars, threadVars
  <2>5. CASE ApplyingConfigure
    BY <2>5
      DEF ApplyingConfigure, EventHandleError, UpdateProcessState,
          StoreProcessState, Goto, appVars, threadVars
  <2>6. CASE DestroyingIterate
    BY <2>6
      DEF DestroyingIterate, EventHandleError, UpdateProcessState,
          StoreProcessState, Goto, threadVars
  <2> QED
    BY <1>1, <2>1, <2>2, <2>3, <2>4, <2>5, <2>6 DEF IterateStep
<1>2. ASSUME NEW t \in Threads, WorkerStep(t) PROVE CreatedInv'
  BY <1>2, WorkerMoves, WorkerRequests DEF WorkerFrame, mainVars, appVars
<1>3. CASE TransitionStep
  <2>1. CASE ReadNext \/ CreateState \/ WaitStart \/ RecheckNext \/ ThreadStop
      \/ JoinEnds \/ SetCurrent \/ SetNext \/ SendState \/ ClearNotification
    BY <2>1
      DEF ReadNext, CreateState, WaitStart, RecheckNext, ThreadStop, JoinEnds,
          SetCurrent, SetNext, SendState, ClearNotification, Goto, appVars,
          threadVars
  <2>2. CASE CreateRunning
    BY <2>2
      DEF CreateRunning, EventHandleError, UpdateProcessState,
          StoreProcessState, Goto, appVars
  <2>3. CASE JoinPump
    BY <2>3, EventNext DEF JoinPump, mainVars, appVars, threadVars
  <2>4. CASE OnStop
    BY <2>4
      DEF OnStop, EventHandleError, SetProcessState, UpdateProcessState,
          StoreProcessState, Goto, appVars
  <2>5. CASE AlignProcessState
    BY <2>5
      DEF AlignProcessState, SetProcessState, UpdateProcessState,
          StoreProcessState, Goto, appVars, threadVars
  <2> QED
    BY <1>3, <2>1, <2>2, <2>3, <2>4, <2>5 DEF TransitionStep
<1>4. CASE RequestExit \/ Exited \/ UNCHANGED vars
  BY <1>4 DEF RequestExit, Exited, vars, mainVars, appVars, threadVars
<1> QED
  BY <1>1, <1>2, <1>3, <1>4 DEF Next, MainStep

\* Only a request to destroy makes Idle start with another process_state.
LEMMA SettledStep ==
  ASSUME TypeOK, SafetyInv, [Next]_vars
  PROVE  SettledInv'
<1> USE DEF SafetyInv, SettledInv
<1>1. CASE IterateStep
  <2>1. CASE PumpIterate
    BY <2>1, EventNext DEF PumpIterate, Goto
  <2>2. CASE ~PumpIterate
    <3>1. cur # "IDLE"
      BY <1>1, <2>2
        DEF IterateStep, CreatingIterate, CoolingDownPump, CoolingDownIterate,
            ApplyingInitialize, ApplyingUpdate, ApplyingDownload,
            ApplyingConfigure, ApplyingRestore, DestroyingIterate, CreatedInv
    <3> QED
      BY <1>1, <3>1, IterateFrame
  <2> QED
    BY <2>1, <2>2
<1>2. ASSUME NEW t \in Threads, WorkerStep(t) PROVE SettledInv'
  <2>1. cur # "IDLE" \/ pc \notin {"setNext", "notify", "clear", "iterate",
      "transition"}
    BY <1>2, WorkerMoves DEF Alive, ThreadInv, RunningObjectInv
  <2> QED
    BY <1>2, <2>1, WorkerMoves DEF WorkerFrame, mainVars
<1>3. CASE TransitionStep
  <2>1. CASE ReadNext \/ CreateState \/ WaitStart \/ RecheckNext \/ ThreadStop
      \/ JoinEnds
    BY <2>1
      DEF ReadNext, CreateState, WaitStart, RecheckNext, ThreadStop, JoinEnds,
          Goto
  <2>2. CASE CreateRunning \/ JoinPump \/ OnStop
    BY <2>2 DEF CreateRunning, JoinPump, OnStop, Goto, mainVars
  <2>3. CASE SetCurrent \/ SetNext \/ SendState \/ ClearNotification
    BY <2>3 DEF SetCurrent, SetNext, SendState, ClearNotification, Goto
  <2>4. CASE AlignProcessState
    BY <2>4
      DEF AlignProcessState, SetProcessState, StoreProcessState, Accepted,
          IsFeasibleTransition, Feasible, Goto, TypeOK, ControlTypeOK
  <2> QED
    BY <1>3, <2>1, <2>2, <2>3, <2>4 DEF TransitionStep
<1>4. CASE RequestExit \/ Exited \/ UNCHANGED vars
  BY <1>4 DEF RequestExit, Exited, vars, mainVars
<1> QED
  BY <1>1, <1>2, <1>3, <1>4 DEF Next, MainStep

\* Every step preserves the types and the count of iterations left.
LEMMA TypeStep == TypeOK /\ CountInv /\ [Next]_vars => TypeOK' /\ CountInv'
<1> SUFFICES ASSUME TypeOK, CountInv, [Next]_vars PROVE TypeOK' /\ CountInv'
  OBVIOUS
<1>1. ControlTypeOK'
  <2> USE DEF TypeOK, ControlTypeOK, MainLabels, States, reportVars
  <2>1. CASE CreatingIterate \/ CoolingDownIterate \/ ApplyingRestore
    BY <2>1
      DEF CreatingIterate, CoolingDownIterate, ApplyingRestore, Goto, threadVars
  <2>2. CASE PumpIterate \/ CoolingDownPump \/ ApplyingDownload \/ JoinPump
    BY <2>2, EventNext
      DEF PumpIterate, CoolingDownPump, ApplyingDownload, JoinPump, Goto,
          mainVars, threadVars
  <2>3. CASE ApplyingInitialize \/ ApplyingConfigure \/ DestroyingIterate
    BY <2>3
      DEF ApplyingInitialize, ApplyingConfigure, DestroyingIterate,
          EventHandleError, UpdateProcessState, StoreProcessState, Goto,
          threadVars
  <2>4. CASE ApplyingUpdate
    <3>1. pending.valid => pending.ps \in RequestedStates
      BY ConfigsAssumption DEF ConfigTypeOK, NoConfig
    <3> QED
      BY <2>4, <3>1
        DEF ApplyingUpdate, RequestedStates, UpdateProcessState,
            StoreProcessState, Goto, threadVars
  <2>5. CASE ReadNext \/ CreateState \/ WaitStart \/ RecheckNext \/ ThreadStop
      \/ JoinEnds
    BY <2>5
      DEF ReadNext, CreateState, WaitStart, RecheckNext, ThreadStop, JoinEnds,
          Goto, threadVars
  <2>6. CASE CreateRunning
    BY <2>6
      DEF CreateRunning, EventHandleError, UpdateProcessState,
          StoreProcessState, ReportState, Goto
  <2>7. CASE OnStop \/ AlignProcessState
    BY <2>7
      DEF OnStop, AlignProcessState, EventHandleError, SetProcessState,
          UpdateProcessState, StoreProcessState, Goto, threadVars
  <2>8. CASE SetCurrent \/ SetNext \/ SendState \/ ClearNotification
    BY <2>8
      DEF SetCurrent, SetNext, SendState, ReportState, ClearNotification, Goto,
          threadVars
  <2>9. ASSUME NEW t \in Threads, WorkerStep(t) PROVE ControlTypeOK'
    <3>1. cmd' \in {cmd, "RUNNING"}
      BY <2>9
        DEF WorkerStep, WorkerStart, OnIterateOk, OnIterateStopSelf,
            StopSelfNotify, OnIterateSeesExit, OnIterateFails, FailNext,
            FailProcessState, FailResInfo, CheckCommand, WorkerFinish,
            WorkerReturns
    <3> QED
      BY <2>9, <3>1, WorkerMoves, WorkerRequests DEF WorkerFrame, mainVars
  <2>10. CASE RequestExit \/ Exited \/ UNCHANGED vars
    BY <2>10 DEF RequestExit, Exited, vars, mainVars, threadVars
  <2> QED
    BY <2>1, <2>2, <2>3, <2>4, <2>5, <2>6, <2>7, <2>8, <2>9, <2>10
      DEF Next, MainStep, IterateStep, TransitionStep
<1>2. FlagTypeOK'
  <2> USE DEF TypeOK, FlagTypeOK, reportVars
  <2>1. CASE IterateStep
    BY <2>1
      DEF IterateStep, CreatingIterate, PumpIterate, CoolingDownPump,
          CoolingDownIterate, ApplyingInitialize, ApplyingUpdate,
          ApplyingDownload, ApplyingConfigure, ApplyingRestore,
          DestroyingIterate, EventHandleError, ProcessEvent, appVars
  <2>2. CASE TransitionStep
    BY <2>2
      DEF TransitionStep, ReadNext, CreateState, CreateRunning, WaitStart,
          RecheckNext, ThreadStop, JoinPump, JoinEnds, OnStop, SetCurrent,
          AlignProcessState, SetNext, SendState, ReportState,
          ClearNotification, EventHandleError, SetProcessState, Changes,
          ProcessEvent, appVars
  <2>3. ASSUME NEW t \in Threads, WorkerStep(t) PROVE FlagTypeOK'
    BY <2>3
      DEF WorkerStep, WorkerStart, OnIterateOk, OnIterateStopSelf,
          StopSelfNotify, OnIterateSeesExit, OnIterateFails, FailNext,
          FailProcessState, FailResInfo, CheckCommand, WorkerFinish,
          WorkerReturns, WorkerFrame, appVars, Changes
  <2>4. CASE RequestExit \/ Exited \/ UNCHANGED vars
    BY <2>4 DEF RequestExit, Exited, vars, appVars
  <2> QED
    BY <2>1, <2>2, <2>3, <2>4 DEF Next, MainStep
<1>3. ConfigTypeOK'
  <2> USE DEF TypeOK, ConfigTypeOK
  <2>1. CASE ApplyingUpdate
    BY <2>1, ConfigsAssumption DEF ApplyingUpdate, NoConfig, NoReq
  <2>2. CASE PumpIterate \/ CoolingDownPump \/ ApplyingDownload \/ JoinPump
    BY <2>2, EventPending
      DEF PumpIterate, CoolingDownPump, ApplyingDownload, JoinPump, dtdlVars
  <2>3. CASE IterateStep /\ ~ApplyingUpdate /\ ~PumpIterate /\ ~CoolingDownPump
      /\ ~ApplyingDownload
    BY <2>3
      DEF IterateStep, CreatingIterate, CoolingDownIterate, ApplyingInitialize,
          ApplyingConfigure, ApplyingRestore, DestroyingIterate, dtdlVars
  <2>4. CASE TransitionStep /\ ~JoinPump
    BY <2>4
      DEF TransitionStep, ReadNext, CreateState, CreateRunning, WaitStart,
          RecheckNext, ThreadStop, JoinEnds, OnStop, SetCurrent,
          AlignProcessState, SetNext, SendState, ClearNotification, dtdlVars
  <2>5. ASSUME NEW t \in Threads, WorkerStep(t) PROVE ConfigTypeOK'
    BY <2>5, WorkerMoves DEF WorkerFrame, dtdlVars
  <2>6. CASE RequestExit \/ Exited \/ UNCHANGED vars
    BY <2>6 DEF RequestExit, Exited, vars, dtdlVars
  <2> QED
    BY <2>1, <2>2, <2>3, <2>4, <2>5, <2>6 DEF Next, MainStep
<1>4. WorkerTypeOK' /\ CountInv'
  <2> USE DEF TypeOK, WorkerTypeOK, CountInv
  <2>1. CASE IterateStep
    BY <2>1, IterateFrame
  <2>2. CASE CreateRunning \/ JoinEnds
    BY <2>2 DEF CreateRunning, JoinEnds, WorkerLabels
  <2>3. CASE TransitionStep /\ ~CreateRunning /\ ~JoinEnds
    BY <2>3
      DEF TransitionStep, ReadNext, CreateState, WaitStart, RecheckNext,
          ThreadStop, JoinPump, OnStop, SetCurrent, AlignProcessState, SetNext,
          SendState, ClearNotification, threadVars
  <2>4. ASSUME NEW t \in Threads, WorkerStart(t) PROVE WorkerTypeOK' /\ CountInv'
    <3>1. /\ worker' \in [Threads -> WorkerLabels] 
          /\ left' \in [Threads -> 0..MaxIters]
      BY <2>4 DEF WorkerStart, WorkerGoto, WorkerLabels, ConfigTypeOK
    <3>2. counted' \in [Threads -> BOOLEAN]
      BY <2>4 DEF WorkerStart
    <3>3. CountInv'
      BY <2>4 DEF WorkerStart, WorkerGoto, ConfigTypeOK
    <3> QED BY <3>1, <3>2, <3>3
  <2>5. ASSUME NEW t \in Threads, CheckCommand(t) PROVE WorkerTypeOK' /\ CountInv'
    <3>1. MaxIters \in Nat /\ left[t] \in 0..MaxIters
      BY ConfigsAssumption
    <3>2. CASE UNCHANGED left /\ WorkerGoto(t, "finish")
      BY <2>5, <3>2 DEF CheckCommand, WorkerGoto, WorkerLabels
    <3>3. CASE UNCHANGED left /\ WorkerGoto(t, "iterate") /\ ~counted[t]
      BY <2>5, <3>3 DEF CheckCommand, WorkerGoto, WorkerLabels
    <3>4. CASE /\ counted[t]
               /\ left' = [left EXCEPT ![t] = @ - 1]
               /\ WorkerGoto(t, IF left[t] > 1 THEN "iterate" ELSE "finish")
      <4>1. left[t] > 0 /\ left[t] - 1 \in 0..MaxIters
        BY <2>5, <3>1, <3>4 DEF CheckCommand
      <4>2. left' \in [Threads -> 0..MaxIters] /\ UNCHANGED counted
        BY <2>5, <3>4, <4>1 DEF CheckCommand
      <4>3. worker' \in [Threads -> WorkerLabels]
        BY <3>4 DEF WorkerGoto, WorkerLabels
      <4>4. CountInv'
        BY <3>1, <3>4, <4>1, <4>2 DEF WorkerGoto
      <4> QED
        BY <4>2, <4>3, <4>4
    <3> QED
      BY <2>5, <3>2, <3>3, <3>4 DEF CheckCommand
  <2>6. ASSUME NEW t \in Threads, WorkerStep(t), ~WorkerStart(t), ~CheckCommand(t)
      PROVE WorkerTypeOK' /\ CountInv'
    <3>1. UNCHANGED <<left, counted>> /\ (worker'[t] \in {"iterate", "selfNotify",
        "check"} => worker[t] \in {"iterate", "selfNotify"})
      BY <2>6
        DEF WorkerStep, OnIterateOk, OnIterateStopSelf, StopSelfNotify,
            OnIterateSeesExit, OnIterateFails, FailNext, FailProcessState,
            FailResInfo, WorkerFinish, WorkerReturns, WorkerGoto
    <3> QED
      BY <2>6, <3>1, WorkerMoves
  <2>7. CASE RequestExit \/ Exited \/ UNCHANGED vars
    BY <2>7 DEF RequestExit, Exited, vars, threadVars
  <2> QED
    BY <2>1, <2>2, <2>3, <2>4, <2>5, <2>6, <2>7 DEF Next, MainStep
<1> QED
  BY <1>1, <1>2, <1>3, <1>4 DEF TypeOK

\* The invariants hold when the state machine is constructed.
LEMMA InitInvariants == Init => TypeOK /\ SafetyInv /\ RequestInv
<1> SUFFICES ASSUME Init PROVE TypeOK /\ SafetyInv /\ RequestInv
  OBVIOUS
<1>1. TypeOK
  <2>1. ControlTypeOK
    BY DEF Init, ControlTypeOK, MainLabels, States
  <2>2. FlagTypeOK
    BY DEF Init, FlagTypeOK
  <2>3. ConfigTypeOK
    BY ConfigsAssumption DEF Init, ConfigTypeOK
  <2>4. WorkerTypeOK
    BY ConfigsAssumption DEF Init, WorkerTypeOK, WorkerLabels
  <2> QED
    BY <2>1, <2>2, <2>3, <2>4 DEF TypeOK
<1>2. CountInv /\ ThreadInv
  BY DEF Init, CountInv, ThreadInv
<1>3. RunningObjectInv /\ CommandInv
  BY DEF Init, RunningObjectInv, CommandInv
<1>4. CreatedInv /\ SettledInv
  BY DEF Init, CreatedInv, SettledInv
<1>5. RequestInv
  BY DEF Init, RequestInv
<1> QED
  BY <1>1, <1>2, <1>3, <1>4, <1>5 DEF SafetyInv

\* A callback that asks for Applying leaves the configuration to apply, when it
\* can be copied.
LEMMA EventRequest == 
  ASSUME "oom" \notin Env, ProcessEvent
  PROVE  \/ UNCHANGED <<pending, next>>
         \/ pending' # NoConfig /\ next' = "APPLYING"
<1>1. ASSUME NEW c \in Configs, ConfigurationCb(c)
      PROVE  \/ UNCHANGED <<pending, next>>
             \/ pending' # NoConfig /\ next' = "APPLYING"
  BY <1>1, ConfigsAssumption DEF ConfigurationCb, May, NoConfig
<1> QED
  BY <1>1 DEF ProcessEvent

\* A request for Applying keeps its configuration until it is read; no thread
\* matters here.
LEMMA RequestStep ==
  ASSUME "oom" \notin Env, TypeOK, RequestInv, [Next]_vars
  PROVE  RequestInv'
<1> USE DEF RequestInv
<1>1. CASE PumpIterate \/ CoolingDownPump \/ ApplyingDownload \/ JoinPump
  BY <1>1, EventRequest
    DEF PumpIterate, CoolingDownPump, ApplyingDownload, JoinPump, Goto, mainVars
<1>2. CASE CreatingIterate \/ CoolingDownIterate \/ DestroyingIterate
  BY <1>2
    DEF CreatingIterate, CoolingDownIterate, DestroyingIterate,
        EventHandleError, UpdateProcessState, Goto
<1>3. CASE ApplyingInitialize \/ ApplyingConfigure
  BY <1>3
    DEF ApplyingInitialize, ApplyingConfigure, EventHandleError,
        UpdateProcessState, Goto
<1>4. CASE ApplyingUpdate
  <2>1. pending.valid => pending.ps \in RequestedStates
    BY ConfigsAssumption DEF TypeOK, ConfigTypeOK, NoConfig
  <2> QED
    BY <1>4, <2>1 DEF ApplyingUpdate, UpdateProcessState, RequestedStates, Goto
<1>5. CASE ApplyingRestore
  BY <1>5 DEF ApplyingRestore, Goto, TypeOK, ControlTypeOK
<1>6. CASE ReadNext \/ CreateState \/ WaitStart \/ RecheckNext \/ ThreadStop
    \/ JoinEnds
  BY <1>6
    DEF ReadNext, CreateState, WaitStart, RecheckNext, ThreadStop, JoinEnds,
        Goto
<1>7. CASE CreateRunning \/ OnStop
  BY <1>7
    DEF CreateRunning, OnStop, EventHandleError, SetProcessState,
        UpdateProcessState, Goto
<1>8. CASE AlignProcessState
  BY <1>8 DEF AlignProcessState, SetProcessState, UpdateProcessState, Goto
<1>9. CASE SetCurrent \/ SetNext \/ SendState \/ ClearNotification
  BY <1>9 DEF SetCurrent, SetNext, SendState, ClearNotification, Goto
<1>10. ASSUME NEW t \in Threads, WorkerStep(t) PROVE RequestInv'
  BY <1>10, WorkerMoves, WorkerRequests DEF WorkerFrame, mainVars
<1>11. CASE RequestExit \/ Exited \/ UNCHANGED vars
  BY <1>11 DEF RequestExit, Exited, vars, mainVars
<1> QED
  BY <1>1, <1>2, <1>3, <1>4, <1>5, <1>6, <1>7, <1>8, <1>9, <1>10, <1>11
    DEF Next, MainStep, IterateStep, TransitionStep

-----------------------------------------------------------------------------
(* Invariants of the specification *)

\* Every variable keeps its type, for any number of orphaned threads and any
\* failure of the environment.
THEOREM TypeCorrect == Spec => []TypeOK
<1>1. Init => TypeOK /\ CountInv
  BY InitInvariants DEF SafetyInv
<1> QED
  BY <1>1, TypeStep, PTL DEF Spec

\* The inductive invariant of the machine whose joins succeed.
THEOREM SafetyInvariance ==
  ASSUME "joinTimeout" \notin Env
  PROVE  Spec => [](TypeOK /\ SafetyInv)
<1>1. TypeOK /\ SafetyInv /\ [Next]_vars => TypeOK' /\ SafetyInv'
  BY TypeStep, ThreadStep, ObjectStep, CommandStep, CreatedStep, SettledStep
    DEF SafetyInv
<1> QED
  BY InitInvariants, <1>1, PTL DEF Spec

\* What the invariant says of configurations, iterations and Idle.
LEMMA Consequences == TypeOK /\ SafetyInv => ConfigureIsQuiescent
    /\ IterateHasSensor /\ IdleIsSettled
<1> SUFFICES ASSUME TypeOK, SafetyInv PROVE ConfigureIsQuiescent /\ IterateHasSensor
    /\ IdleIsSettled
  OBVIOUS
<1> USE DEF SafetyInv, ThreadInv, RunningObjectInv, CreatedInv
<1>1. ConfigureIsQuiescent
  BY DEF ConfigureIsQuiescent, NoWorker, Alive
<1>2. IterateHasSensor
  BY DEF IterateHasSensor, Busy, Iterating
<1>3. IdleIsSettled
  BY DEF IdleIsSettled, SettledInv, NoWorker, Alive
<1> QED
  BY <1>1, <1>2, <1>3

\* No thread of an earlier run is alive while Applying changes the settings
\* (Running::~Running, Applying::Iterate).
THEOREM Quiescence ==
  ASSUME "joinTimeout" \notin Env
  PROVE  Spec => []ConfigureIsQuiescent
  BY SafetyInvariance, Consequences, PTL

\* onIterate never runs without the sensor stream (Applying::Iterate,
\* Destroying::Iterate).
THEOREM SensorOpen ==
  ASSUME "joinTimeout" \notin Env
  PROVE  Spec => []IterateHasSensor
  BY SafetyInvariance, Consequences, PTL

\* Idle at rest agrees with process_state and has no thread
\* (StateMachineContext::SetCurrentState).
THEOREM Settled ==
  ASSUME "joinTimeout" \notin Env
  PROVE  Spec => []IdleIsSettled
  BY SafetyInvariance, Consequences, PTL

\* onStop is called after the thread has ended (Running::~Running).
THEOREM StopQuiescent ==
  ASSUME "joinTimeout" \notin Env
  PROVE  Spec => []StopIsQuiescent
<1>1. TypeOK /\ SafetyInv => StopIsQuiescent
  BY DEF SafetyInv, ThreadInv, StopIsQuiescent, NoWorker, Alive
<1> QED
  BY <1>1, SafetyInvariance, PTL

\* Applying always finds a configuration to apply, even with orphaned threads
\* (configuration_cb, Applying::Iterate).
THEOREM RequestedConfiguration ==
  ASSUME "oom" \notin Env
  PROVE  Spec => []ApplyingHasConfiguration
<1>1. TypeOK /\ CountInv /\ RequestInv /\ [Next]_vars => TypeOK' /\ CountInv'
    /\ RequestInv'
  BY TypeStep, RequestStep
<1>2. TypeOK /\ RequestInv => ApplyingHasConfiguration
  BY DEF RequestInv, ApplyingHasConfiguration
<1>3. Init => TypeOK /\ CountInv /\ RequestInv
  BY InitInvariants DEF SafetyInv
<1> QED
  BY <1>1, <1>2, <1>3, PTL DEF Spec

-----------------------------------------------------------------------------
(* What the cloud has been told *)

\* A worker that neither fails nor stops itself leaves process_state alone, never
\* asks for Idle or Running, and only raises the notification.
LEMMA QuietWorker ==
  ASSUME "onIterate" \notin Env, "stopSelf" \notin Env, TypeOK, WorkerQuietInv,
         NEW t \in Threads, WorkerStep(t)
  PROVE  /\ WorkerQuietInv'
         /\ next' \in {next, "COOLINGDOWN", "DESTROYING"}
         /\ UNCHANGED <<pc, cur, pstate, reported, sent>>
         /\ notify => notify'
<1>1. \/ OnIterateOk(t)
      \/ WorkerStart(t) \/ OnIterateSeesExit(t) \/ CheckCommand(t)
      \/ WorkerFinish(t) \/ WorkerReturns(t)
  <2>1. ~OnIterateStopSelf(t) /\ ~OnIterateFails(t)
    BY DEF OnIterateStopSelf, OnIterateFails, May
  <2>2. ~StopSelfNotify(t) /\ ~FailNext(t) /\ ~FailProcessState(t) /\ ~FailResInfo(t)
    BY DEF WorkerQuietInv, StopSelfNotify, FailNext, FailProcessState, FailResInfo
  <2> QED
    BY <2>1, <2>2 DEF WorkerStep
<1>2. /\ WorkerQuietInv'
      /\ next' \in {next, "COOLINGDOWN", "DESTROYING"}
      /\ UNCHANGED <<pc, cur, pstate, reported, sent>>
  BY <1>1
    DEF WorkerStart, OnIterateOk, OnIterateSeesExit, CheckCommand, WorkerFinish,
        WorkerReturns, WorkerGoto, WorkerFrame, mainVars, reportVars, TypeOK, WorkerTypeOK,
        WorkerQuietInv
<1>3. OnIterateOk(t) => (notify => notify')
  BY Zenon DEF OnIterateOk
<1>4. ~OnIterateOk(t) => UNCHANGED notify
  BY <1>1
    DEF WorkerStart, OnIterateSeesExit, CheckCommand, WorkerFinish, WorkerReturns
<1> QED
  BY <1>1, <1>2, <1>3, <1>4

\* The main thread starts and joins workers, and moves none into a failure or a
\* stop.
LEMMA MainQuiet ==
  ASSUME TypeOK, WorkerQuietInv, MainStep
  PROVE  WorkerQuietInv'
<1> USE DEF WorkerQuietInv
<1>1. CASE IterateStep
  BY <1>1, IterateFrame
<1>2. CASE TransitionStep
  <2>1. CASE CreateRunning \/ JoinEnds
    BY <2>1 DEF CreateRunning, JoinEnds, TypeOK, WorkerTypeOK
  <2>2. CASE ReadNext \/ CreateState \/ WaitStart \/ RecheckNext \/ ThreadStop
      \/ JoinPump
    BY <2>2
      DEF ReadNext, CreateState, WaitStart, RecheckNext, ThreadStop, JoinPump,
          threadVars
  <2>3. CASE OnStop \/ SetCurrent \/ AlignProcessState \/ SetNext \/ SendState
      \/ ClearNotification
    BY <2>3
      DEF OnStop, SetCurrent, AlignProcessState, SetNext, SendState,
          ClearNotification, threadVars
  <2> QED
    BY <1>2, <2>1, <2>2, <2>3 DEF TransitionStep
<1> QED
  BY <1>1, <1>2 DEF MainStep

\* Every step of the main thread ends a round with process_state aligned, and
\* tells the cloud what it changed.
LEMMA ReportMainStep ==
  ASSUME TypeOK, AlignedInv, SentInv, MainStep
  PROVE  AlignedInv' /\ SentInv'
<1> USE DEF AlignedInv, SentInv, reportVars
<1>1. CASE PumpIterate \/ CoolingDownPump \/ ApplyingDownload \/ JoinPump
  <2>1. /\ UNCHANGED <<cur, pstate, notify, reported, sent>>
        /\ next' \in {next, "APPLYING", "DESTROYING"}
    BY <1>1, EventNext
      DEF PumpIterate, CoolingDownPump, ApplyingDownload, JoinPump, mainVars
  <2>2. \/ pc = "iterate" /\ cur \in {"IDLE", "RUNNING"} /\ pc' = "transition"
        \/ pc = "iterate" /\ cur = "COOLINGDOWN" /\ pc' = pc
        \/ pc \in {"settings", "join"} /\ pc' = pc
    BY <1>1
      DEF PumpIterate, CoolingDownPump, ApplyingDownload, JoinPump, Goto, mainVars
  <2> QED
    BY <2>1, <2>2
<1>2. CASE CreatingIterate \/ CoolingDownIterate \/ ApplyingRestore
  BY <1>2 DEF CreatingIterate, CoolingDownIterate, ApplyingRestore, Goto
<1>3. CASE ApplyingInitialize \/ ApplyingConfigure \/ DestroyingIterate
  BY <1>3
    DEF ApplyingInitialize, ApplyingConfigure, DestroyingIterate,
        EventHandleError, UpdateProcessState, StoreProcessState, Accepted,
        Changes, Goto
<1>4. CASE ApplyingUpdate
  BY <1>4
    DEF ApplyingUpdate, UpdateProcessState, StoreProcessState, Accepted,
        Changes, Goto
<1>5. CASE ReadNext \/ CreateState \/ WaitStart \/ RecheckNext \/ ThreadStop
    \/ JoinEnds
  BY <1>5
    DEF ReadNext, CreateState, WaitStart, RecheckNext, ThreadStop, JoinEnds,
        Goto
<1>6. CASE CreateRunning
  BY <1>6
    DEF CreateRunning, EventHandleError, UpdateProcessState, StoreProcessState,
        ReportState, Accepted, Changes, Goto
<1>7. CASE OnStop
  BY <1>7
    DEF OnStop, EventHandleError, SetProcessState, UpdateProcessState,
        StoreProcessState, Accepted, Changes, Goto
<1>8. CASE AlignProcessState
  <2>1. cur \in {"IDLE", "RUNNING"} => IsFeasibleTransition(cur, cur)
    BY DEF IsFeasibleTransition, Feasible
  <2> QED
    BY <1>8, <2>1
      DEF AlignProcessState, SetProcessState, UpdateProcessState,
          StoreProcessState, Accepted, Changes, Goto
<1>9. CASE SetCurrent \/ SetNext \/ SendState \/ ClearNotification
  BY <1>9 DEF SetCurrent, SetNext, SendState, ReportState, ClearNotification, Goto
<1> QED
  BY <1>1, <1>2, <1>3, <1>4, <1>5, <1>6, <1>7, <1>8, <1>9
    DEF MainStep, IterateStep, TransitionStep

\* Every step preserves what the cloud has been told, for any number of orphans.
LEMMA ReportStep ==
  ASSUME "onIterate" \notin Env, "stopSelf" \notin Env, TypeOK, ReportInv,
         [Next]_vars
  PROVE  ReportInv'
<1> USE DEF ReportInv
<1>1. CASE MainStep
  BY <1>1, MainQuiet, ReportMainStep
<1>2. ASSUME NEW t \in Threads, WorkerStep(t) PROVE ReportInv'
  <2>1. /\ WorkerQuietInv'
        /\ next' \in {next, "COOLINGDOWN", "DESTROYING"}
        /\ UNCHANGED <<pc, cur, pstate, reported, sent>>
        /\ notify => notify'
    BY <1>2, QuietWorker
  <2> QED
    BY <2>1 DEF AlignedInv, SentInv
<1>3. CASE RequestExit \/ Exited \/ UNCHANGED vars
  BY <1>3
    DEF RequestExit, Exited, vars, mainVars, reportVars, threadVars, WorkerQuietInv,
        AlignedInv, SentInv
<1> QED
  BY <1>1, <1>2, <1>3 DEF Next

\* Idle at rest has been reported (StateMachineContext::LoopIterate, SendState),
\* whatever else fails, unless the last state was not taken: EVP_sendState may
\* fail at every report, and the first that succeeds makes up for it. It holds
\* when no onIterate fails and none stops itself; with either, TLC finds a
\* notification that is lost.
THEOREM IdleReported ==
  ASSUME "onIterate" \notin Env, "stopSelf" \notin Env
  PROVE  Spec => []IdleIsReported
<1>1. Init => TypeOK /\ CountInv /\ ReportInv
  <2>1. Init => ReportInv
    BY DEF Init, ReportInv, WorkerQuietInv, AlignedInv, SentInv
  <2> QED
    BY <2>1, InitInvariants DEF SafetyInv
<1>2. TypeOK /\ CountInv /\ ReportInv /\ [Next]_vars
        => TypeOK' /\ CountInv' /\ ReportInv'
  BY TypeStep, ReportStep
<1>3. ReportInv => IdleIsReported
  BY DEF ReportInv, AlignedInv, SentInv, IdleIsReported
<1> QED
  BY <1>1, <1>2, <1>3, PTL DEF Spec

-----------------------------------------------------------------------------
(* Refinement of AppLifecycle *)

\* With one thread, the application is busy exactly when that thread iterates.
LEMMA OneBusy ==
  ASSUME ThreadInv, ThreadInv', NEW t \in Threads, worker[t] # "none",
      worker'[t] # "none"
  PROVE  (Busy <=> Iterating(t)) /\ (Busy' <=> Iterating(t)')
  BY DEF ThreadInv, Busy, Iterating

\* Every step of the state machine is a step of the application's life, or none.
LEMMA LifecycleStep ==
  ASSUME TypeOK, SafetyInv, TypeOK', SafetyInv', [Next]_vars
  PROVE  [Lifecycle!LifecycleNext]_(Lifecycle!lifecycleVars)
<1> USE DEF Lifecycle!lifecycleVars
<1>1. CASE ApplyingInitialize
  <2>1. robj = "none" /\ pc # "exited" /\ pc' # "exited"
    BY <1>1
      DEF ApplyingInitialize, SafetyInv, RunningObjectInv, TypeOK,
          ControlTypeOK, Goto
  <2>2. UNCHANGED <<robj, worker>>
    BY <1>1 DEF ApplyingInitialize, threadVars
  <2>3. UNCHANGED Busy
    BY <2>2 DEF Busy, Iterating
  <2>4. UNCHANGED initialized \/ (~initialized /\ initialized')
    BY <1>1 DEF ApplyingInitialize, appVars
  <2>5. UNCHANGED Phase \/ (Phase = "new" /\ Phase' = "created")
    BY <2>1, <2>2, <2>4 DEF Phase
  <2> QED
    BY <2>3, <2>5 DEF Lifecycle!LifecycleNext, Lifecycle!OnCreate
<1>2. CASE DestroyingIterate
  <2>1. robj = "none" /\ pc # "exited" /\ pc' = "exited"
    BY <1>2 DEF DestroyingIterate, SafetyInv, RunningObjectInv, Goto
  <2>2. ~Busy /\ ~Busy'
    BY <1>2, <2>1
      DEF DestroyingIterate, threadVars, SafetyInv, ThreadInv, Busy, Iterating
  <2>3. Phase \in {"new", "created"} /\ Phase' = "destroyed"
    BY <2>1 DEF Phase
  <2>5. UNCHANGED Busy
    BY <2>2 DEF Busy
  <2> QED
    BY <2>2, <2>3, <2>5 DEF Lifecycle!LifecycleNext, Lifecycle!OnDestroy
<1>3. CASE IterateStep /\ ~ApplyingInitialize /\ ~DestroyingIterate
  <2>1. pc # "exited" /\ pc' # "exited" /\ UNCHANGED <<robj, worker, initialized>>
    BY <1>3
      DEF IterateStep, CreatingIterate, PumpIterate, CoolingDownPump,
          CoolingDownIterate, ApplyingUpdate, ApplyingDownload,
          ApplyingConfigure, ApplyingRestore, mainVars, threadVars, appVars,
          Goto
  <2> QED
    BY <2>1 DEF Phase, Busy, Iterating
<1>4. CASE CreateRunning
  <2>1. robj = "none" /\ robj' \in {"started", "failed"} /\ pc # "exited"
      /\ pc' # "exited" /\ initialized
    BY <1>4 DEF CreateRunning, SafetyInv, RunningObjectInv, CreatedInv, Goto
  <2>2. ~Busy
    BY <2>1 DEF SafetyInv, ThreadInv, Busy, Iterating
  <2>3. ~Busy'
    BY <1>4, <2>2 DEF CreateRunning, Busy, Iterating, TypeOK, WorkerTypeOK
  <2>4. Phase = "created" /\ Phase' \in {"started", "startFailed"}
    BY <2>1 DEF Phase
  <2>5. UNCHANGED Busy
    BY <2>2, <2>3 DEF Busy
  <2> QED
    BY <2>2, <2>3, <2>4, <2>5 DEF Lifecycle!LifecycleNext, Lifecycle!OnStart
<1>5. CASE OnStop
  <2>1. robj # "none" /\ robj' = "none" /\ pc # "exited" /\ pc' # "exited"
      /\ initialized /\ initialized'
    BY <1>5 DEF OnStop, SafetyInv, RunningObjectInv, CreatedInv, Goto, appVars
  <2>2. ~Busy /\ ~Busy'
    BY <1>5 DEF OnStop, SafetyInv, ThreadInv, Busy, Iterating
  <2>3. Phase \in {"started", "startFailed"} /\ Phase' = "created"
    BY <2>1 DEF Phase, TypeOK, ControlTypeOK
  <2>5. UNCHANGED Busy
    BY <2>2 DEF Busy
  <2> QED
    BY <2>2, <2>3, <2>5 DEF Lifecycle!LifecycleNext, Lifecycle!OnStop
<1>6. CASE TransitionStep /\ ~CreateRunning /\ ~OnStop
  <2>1. pc # "exited" /\ pc' # "exited" /\ UNCHANGED <<robj, initialized>>
    BY <1>6
      DEF TransitionStep, ReadNext, CreateState, WaitStart, RecheckNext,
          ThreadStop, JoinPump, JoinEnds, SetCurrent, AlignProcessState,
          SetNext, SendState, ClearNotification, mainVars, threadVars, appVars,
          Goto
  <2>2. UNCHANGED worker \/ JoinEnds
    BY <1>6
      DEF TransitionStep, ReadNext, CreateState, WaitStart, RecheckNext,
          ThreadStop, JoinPump, SetCurrent, AlignProcessState, SetNext,
          SendState, ClearNotification, threadVars
  <2>3. UNCHANGED Busy
    BY <2>2 DEF JoinEnds, Busy, Iterating, TypeOK, WorkerTypeOK
  <2> QED
    BY <2>1, <2>3 DEF Phase
<1>7. ASSUME NEW t \in Threads, WorkerStep(t)
      PROVE  [Lifecycle!LifecycleNext]_(Lifecycle!lifecycleVars)
  <2>1. worker[t] # "none" /\ worker'[t] # "none" /\ UNCHANGED <<pc, robj,
      initialized>>
    BY <1>7, WorkerMoves
      DEF WorkerFrame, mainVars, appVars, Alive, TypeOK, WorkerTypeOK
  <2>2. UNCHANGED Phase
    BY <2>1 DEF Phase
  <2>3. (Busy <=> Iterating(t)) /\ (Busy' <=> Iterating(t)')
    BY <2>1, OneBusy DEF SafetyInv
  <2>4. CASE Iterating(t)' /\ ~Iterating(t)
    <3>1. Phase = "started"
      BY <2>1 DEF Phase, SafetyInv, ThreadInv, RunningObjectInv, CreatedInv
    <3> QED
      BY <2>2, <2>3, <2>4, <3>1
        DEF Lifecycle!LifecycleNext, Lifecycle!OnIterateBegins
  <2>5. CASE Iterating(t) /\ ~Iterating(t)'
    BY <2>2, <2>3, <2>5 DEF Lifecycle!LifecycleNext, Lifecycle!OnIterateReturns
  <2>6. CASE Iterating(t) <=> Iterating(t)'
    <3>1. UNCHANGED Busy
      BY <2>3, <2>6 DEF Busy
    <3> QED
      BY <2>2, <3>1
  <2> QED
    BY <2>4, <2>5, <2>6
<1>8. CASE RequestExit \/ Exited \/ UNCHANGED vars
  BY <1>8
    DEF RequestExit, Exited, vars, mainVars, threadVars, appVars, Phase, Busy,
        Iterating
<1> QED
  BY <1>1, <1>2, <1>3, <1>4, <1>5, <1>6, <1>7, <1>8 DEF Next, MainStep

\* The state machine implements the life that sm.h promises an application.
THEOREM LifecycleRefinement ==
  ASSUME "joinTimeout" \notin Env
  PROVE  Spec => KeepsLifecycle
<1>1. Init => Lifecycle!LifecycleInit
  BY DEF Init, Lifecycle!LifecycleInit, Phase, Busy, Iterating
<1> QED
  BY <1>1, SafetyInvariance, LifecycleStep, PTL
    DEF Spec, KeepsLifecycle, Lifecycle!LifecycleSpec
=============================================================================
