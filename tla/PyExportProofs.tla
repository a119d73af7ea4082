--------------------------- MODULE PyExportProofs ---------------------------
(***************************************************************************)
(* Proofs about PyExport, for any number of calls and every environment.   *)
(* One worker thread is all that is assumed (SingleWorker).                *)
(*                                                                         *)
(* The phases of the main thread leave only one thread in an export at a   *)
(* time (ExclusiveInv), so each flag can be read as the place of that      *)
(* thread or of the main thread (FlagInv), and as long as nothing was      *)
(* abandoned the agent knows at most the operation of that export          *)
(* (OperationInv). That a signal meets the right thread is an invariant of *)
(* who waits for what (WaitInv).                                           *)
(***************************************************************************)
EXTENDS PyExport, TLAPS

\* Where an export holds operation_in_progress, and where it may hold the
\* flag of the callback.
Early == {"ops", "opsTimedOut", "submit", "pump", "pumped"}
Sent == {"pump", "pumped", "after", "cb", "cbTimedOut"}
Late == {"after", "cb", "cbTimedOut"}
PumpPlaces == {"pump", "release"}

ExclusiveInv ==
  /\ phase = "stopped" => alive = {}
  /\ pc[Main] # "idle" => phase = "stopped"
  /\ \A w \in Workers : pc[w] # "idle" => w \in alive
  /\ phase \in {"stopped", "left"} => main = "try"
  /\ phase = "running" => main # "try"

FlagInv ==
  /\ main \in PumpPlaces => process_event_in_progress
  /\ process_event_in_progress /\ main \notin PumpPlaces => exit
  /\ main \in PumpPlaces => \A t \in Threads : pc[t] \notin {"submit", "pump", "pumped"}
  /\ operation_in_progress <=> \E t \in Threads : pc[t] \in Early
  /\ operation_cb_in_progress => \E t \in Threads : pc[t] \in Sent \cup {"submit"}

OperationInv ==
  ~abandoned =>
    /\ \A t \in Threads : pc[t] = "submit" => operation_cb_in_progress
    /\ \A op \in ops :
         /\ pc[op.thread] \in Sent /\ op = Operation(op.thread)
         /\ operation_cb_in_progress

WaitInv ==
  /\ \A t \in waiting : pc[t] \in {"ops", "cb"} \/ (t = Main /\ main = "wait")
  /\ ~exit /\ phase # "left" =>
       /\ \A t \in waiting : pc[t] = "ops" => process_event_in_progress
       /\ Main \in waiting /\ main = "wait" => \A t \in Threads : pc[t] \notin Late

IInv == TypeOK /\ ExclusiveInv /\ FlagInv /\ OperationInv /\ WaitInv

-----------------------------------------------------------------------------
(* Exclusion and signals *)

\* No two threads are in an export: the worker is joined before the main
\* thread calls.
LEMMA Alone ==
  ASSUME TypeOK, ExclusiveInv
  PROVE  \A s, t \in Threads : pc[s] # "idle" /\ pc[t] # "idle" => s = t
BY ThreadsAssumption, SingleWorker DEF ExclusiveInv, Threads

\* A signal wakes a thread that waits, and the only one that does.
LEMMA SignalWakes ==
  ASSUME NEW threads, Signal(threads)
  PROVE  /\ waiting' \subseteq threads
         /\ (\A s, t \in threads : s = t) => waiting' = {}
<1>1. CASE threads = {}
  BY <1>1 DEF Signal
<1>2. CASE threads # {}
  <2>1. PICK t \in threads : waiting' = threads \ {t}
    BY <1>2 DEF Signal
  <2> QED
    BY <2>1
<1> QED
  BY <1>1, <1>2

\* Until SHOULDEXIT one thread waits at most: the main thread for the worker's
\* operation, or an export for the main thread or for its callback.
LEMMA WaitsAlone ==
  ASSUME TypeOK, ExclusiveInv, FlagInv, WaitInv, ~exit, phase # "left"
  PROVE  \A s, t \in waiting : s = t
<1>1. \A s, t \in waiting : pc[s] # "idle" /\ pc[t] # "idle" => s = t
  BY Alone DEF TypeOK
<1>2. ASSUME NEW s \in waiting, Main \in waiting, main = "wait", pc[s] \in {"ops", "cb"}
      PROVE  FALSE
  BY <1>2 DEF WaitInv, FlagInv, TypeOK, PumpPlaces, Late
<1> QED
  BY <1>1, <1>2 DEF WaitInv

-----------------------------------------------------------------------------
(* Every step keeps each part of the invariant. *)

\* Every variable keeps its type.
LEMMA TypeStep ==
  ASSUME TypeOK, Next
  PROVE  TypeOK'
<1> USE DEF TypeOK, Labels, Phases, Places, Threads, flags, mainVars, callVars, pastVars
<1>1. ASSUME NEW t \in Threads, Begin(t)
      PROVE  TypeOK'
  <2>1. calls' \in [Threads -> Nat] /\ pc' \in [Threads -> Labels]
    BY <1>1 DEF Begin, AwaitOperations, Goes
  <2>2. waiting' \subseteq Threads /\ operation_in_progress' \in BOOLEAN /\ operation_cb_in_progress' \in BOOLEAN
    BY <1>1 DEF Begin, AwaitOperations
  <2> QED
    BY <1>1, <2>1, <2>2 DEF Begin
<1>2. ASSUME NEW t \in Threads, OperationsWakes(t)
      PROVE  TypeOK'
  <2>1. pc' \in [Threads -> Labels]
    BY <1>2 DEF OperationsWakes, AwaitOperations, Goes
  <2>2. waiting' \subseteq Threads /\ operation_in_progress' \in BOOLEAN /\ operation_cb_in_progress' \in BOOLEAN
    BY <1>2 DEF OperationsWakes, AwaitOperations
  <2> QED
    BY <1>2, <2>1, <2>2 DEF OperationsWakes, AwaitOperations
<1>3. ASSUME NEW t \in Threads, Expires(t)
      PROVE  TypeOK'
  BY <1>3 DEF Expires, Goes
<1>4. ASSUME NEW t \in Threads, OperationsTimedOut(t)
      PROVE  TypeOK'
  BY <1>4 DEF OperationsTimedOut, Returns
<1>5. ASSUME NEW t \in Threads, Accepted(t)
      PROVE  TypeOK'
  BY <1>5 DEF Accepted, Goes, Operation
<1>6. ASSUME NEW t \in Threads, Rejected(t)
      PROVE  TypeOK'
  <2>1. waiting' \subseteq waiting
    BY <1>6, SignalWakes DEF Rejected, Fails, Returns
  <2> QED
    BY <1>6, <2>1 DEF Rejected, Fails, Returns
<1>7. ASSUME NEW t \in Threads, Pumped(t)
      PROVE  TypeOK'
  BY <1>7 DEF Pumped, Goes
<1>8. ASSUME NEW t \in Threads, PumpSeesExit(t)
      PROVE  TypeOK'
  <2>1. waiting' \subseteq waiting
    BY <1>8, SignalWakes DEF PumpSeesExit, Fails, Returns
  <2> QED
    BY <1>8, <2>1 DEF PumpSeesExit, Fails, Returns
<1>9. ASSUME NEW t \in Threads, OperationDone(t)
      PROVE  TypeOK'
  <2>1. waiting' \subseteq waiting
    BY <1>9, SignalWakes DEF OperationDone
  <2> QED
    BY <1>9, <2>1 DEF OperationDone, Goes
<1>10. ASSUME NEW t \in Threads, AwaitCallback(t)
      PROVE  TypeOK'
  BY <1>10 DEF AwaitCallback, Goes, Returns
<1>11. ASSUME NEW t \in Threads, CallbackTimedOut(t)
      PROVE  TypeOK'
  BY <1>11 DEF CallbackTimedOut, Returns
<1>12. CASE MainLocks
  BY <1>12 DEF MainLocks
<1>13. CASE MainPumped
  BY <1>13 DEF MainPumped
<1>14. CASE MainSeesExit
  BY <1>14 DEF MainSeesExit, Stops
<1>15. CASE MainReleases
  <2>1. waiting' \subseteq waiting
    BY <1>15, SignalWakes DEF MainReleases, Stops, LoopsOn
  <2> QED
    BY <1>15, <2>1 DEF MainReleases, Stops, LoopsOn
<1>16. CASE TryJoin
  BY <1>16 DEF TryJoin
<1>17. CASE Start
  BY <1>17 DEF Start, LoopsOn
<1>18. ASSUME NEW w \in Workers, WorkerEnds(w)
      PROVE  TypeOK'
  BY <1>18 DEF WorkerEnds
<1>19. ASSUME NEW op \in ops, Callback(op)
      PROVE  TypeOK'
  <2>1. waiting' \subseteq waiting
    BY <1>19, SignalWakes DEF Callback
  <2> QED
    BY <1>19, <2>1 DEF Callback
<1>20. CASE RequestExit
  BY <1>20 DEF RequestExit
<1>21. CASE SpuriousWakeup
  BY <1>21 DEF SpuriousWakeup
<1>22. ASSUME NEW t \in Threads, SendsDirectly(t)
      PROVE  TypeOK'
  BY <1>22 DEF SendsDirectly, MayCall, Goes
<1>23. ASSUME NEW t \in Threads, DirectReturns(t)
      PROVE  TypeOK'
  BY <1>23 DEF DirectReturns, Goes
<1>24. CASE MainReports
  BY <1>24 DEF MainReports
<1> QED
  BY <1>1, <1>2, <1>3, <1>4, <1>5, <1>6, <1>7, <1>8, <1>9, <1>10, <1>11, <1>12, <1>13, <1>14, <1>15, <1>16, <1>17, <1>18, <1>19, <1>20, <1>21, <1>22, <1>23, <1>24
    DEF Next, CallStep, MainStep

\* The phases keep the threads apart.
LEMMA ExclusiveStep ==
  ASSUME TypeOK, ExclusiveInv, Next
  PROVE  ExclusiveInv'
<1> USE ThreadsAssumption DEF TypeOK, Threads, ExclusiveInv, flags, mainVars, callVars, pastVars
<1>1. ASSUME NEW t \in Threads, Begin(t)
      PROVE  ExclusiveInv'
  BY <1>1 DEF Begin, MayCall, AwaitOperations, Goes, Busy
<1>2. ASSUME NEW t \in Threads, OperationsWakes(t)
      PROVE  ExclusiveInv'
  BY <1>2 DEF OperationsWakes, AwaitOperations, Goes, Busy
<1>3. ASSUME NEW t \in Threads, Expires(t)
      PROVE  ExclusiveInv'
  BY <1>3 DEF Expires, Goes
<1>4. ASSUME NEW t \in Threads, OperationsTimedOut(t)
      PROVE  ExclusiveInv'
  BY <1>4 DEF OperationsTimedOut, Returns
<1>5. ASSUME NEW t \in Threads, Accepted(t)
      PROVE  ExclusiveInv'
  BY <1>5 DEF Accepted, Goes, Operation
<1>6. ASSUME NEW t \in Threads, Rejected(t)
      PROVE  ExclusiveInv'
  BY <1>6 DEF Rejected, Fails, Returns
<1>7. ASSUME NEW t \in Threads, Pumped(t)
      PROVE  ExclusiveInv'
  BY <1>7 DEF Pumped, Goes
<1>8. ASSUME NEW t \in Threads, PumpSeesExit(t)
      PROVE  ExclusiveInv'
  BY <1>8 DEF PumpSeesExit, Fails, Returns
<1>9. ASSUME NEW t \in Threads, OperationDone(t)
      PROVE  ExclusiveInv'
  BY <1>9 DEF OperationDone, Goes
<1>10. ASSUME NEW t \in Threads, AwaitCallback(t)
      PROVE  ExclusiveInv'
  BY <1>10 DEF AwaitCallback, Goes, Returns
<1>11. ASSUME NEW t \in Threads, CallbackTimedOut(t)
      PROVE  ExclusiveInv'
  BY <1>11 DEF CallbackTimedOut, Returns
<1>12. CASE MainLocks
  BY <1>12 DEF MainLocks
<1>13. CASE MainPumped
  BY <1>13 DEF MainPumped
<1>14. CASE MainSeesExit
  BY <1>14 DEF MainSeesExit, Stops
<1>15. CASE MainReleases
  BY <1>15 DEF MainReleases, Stops, LoopsOn
<1>16. CASE TryJoin
  BY <1>16 DEF TryJoin
<1>17. CASE Start
  BY <1>17 DEF Start, LoopsOn
<1>18. ASSUME NEW w \in Workers, WorkerEnds(w)
      PROVE  ExclusiveInv'
  BY <1>18 DEF WorkerEnds
<1>19. ASSUME NEW op \in ops, Callback(op)
      PROVE  ExclusiveInv'
  BY <1>19 DEF Callback
<1>20. CASE RequestExit
  BY <1>20 DEF RequestExit
<1>21. CASE SpuriousWakeup
  BY <1>21 DEF SpuriousWakeup
<1>22. ASSUME NEW t \in Threads, SendsDirectly(t)
      PROVE  ExclusiveInv'
  BY <1>22 DEF SendsDirectly, MayCall, Goes
<1>23. ASSUME NEW t \in Threads, DirectReturns(t)
      PROVE  ExclusiveInv'
  BY <1>23 DEF DirectReturns, Goes
<1>24. CASE MainReports
  BY <1>24 DEF MainReports
<1> QED
  BY <1>1, <1>2, <1>3, <1>4, <1>5, <1>6, <1>7, <1>8, <1>9, <1>10, <1>11, <1>12, <1>13, <1>14, <1>15, <1>16, <1>17, <1>18, <1>19, <1>20, <1>21, <1>22, <1>23, <1>24
    DEF Next, CallStep, MainStep

\* The flags say where the threads are.
LEMMA FlagStep ==
  ASSUME TypeOK, ExclusiveInv, TypeOK', ExclusiveInv', FlagInv, Next
  PROVE  FlagInv'
<1> USE Alone DEF TypeOK, FlagInv, Early, Sent, PumpPlaces, flags, mainVars, callVars, pastVars
<1>1. ASSUME NEW t \in Threads, Begin(t)
      PROVE  FlagInv'
  BY <1>1 DEF Begin, MayCall, AwaitOperations, Goes, Busy
<1>2. ASSUME NEW t \in Threads, OperationsWakes(t)
      PROVE  FlagInv'
  BY <1>2 DEF OperationsWakes, AwaitOperations, Goes, Busy
<1>3. ASSUME NEW t \in Threads, Expires(t)
      PROVE  FlagInv'
  BY <1>3 DEF Expires, Goes
<1>4. ASSUME NEW t \in Threads, OperationsTimedOut(t)
      PROVE  FlagInv'
  BY <1>4 DEF OperationsTimedOut, Returns
<1>5. ASSUME NEW t \in Threads, Accepted(t)
      PROVE  FlagInv'
  BY <1>5 DEF Accepted, Goes, Operation
<1>6. ASSUME NEW t \in Threads, Rejected(t)
      PROVE  FlagInv'
  BY <1>6 DEF Rejected, Fails, Returns
<1>7. ASSUME NEW t \in Threads, Pumped(t)
      PROVE  FlagInv'
  BY <1>7 DEF Pumped, Goes
<1>8. ASSUME NEW t \in Threads, PumpSeesExit(t)
      PROVE  FlagInv'
  BY <1>8 DEF PumpSeesExit, Fails, Returns
<1>9. ASSUME NEW t \in Threads, OperationDone(t)
      PROVE  FlagInv'
  BY <1>9 DEF OperationDone, Goes
<1>10. ASSUME NEW t \in Threads, AwaitCallback(t)
      PROVE  FlagInv'
  BY <1>10 DEF AwaitCallback, Goes, Returns
<1>11. ASSUME NEW t \in Threads, CallbackTimedOut(t)
      PROVE  FlagInv'
  BY <1>11 DEF CallbackTimedOut, Returns
<1>12. CASE MainLocks
  BY <1>12 DEF MainLocks
<1>13. CASE MainPumped
  BY <1>13 DEF MainPumped
<1>14. CASE MainSeesExit
  BY <1>14 DEF MainSeesExit, Stops
<1>15. CASE MainReleases
  BY <1>15 DEF MainReleases, Stops, LoopsOn
<1>16. CASE TryJoin
  BY <1>16 DEF TryJoin
<1>17. CASE Start
  BY <1>17 DEF Start, LoopsOn, ExclusiveInv
<1>18. ASSUME NEW w \in Workers, WorkerEnds(w)
      PROVE  FlagInv'
  BY <1>18 DEF WorkerEnds
<1>19. ASSUME NEW op \in ops, Callback(op)
      PROVE  FlagInv'
  BY <1>19 DEF Callback
<1>20. CASE RequestExit
  BY <1>20 DEF RequestExit
<1>21. CASE SpuriousWakeup
  BY <1>21 DEF SpuriousWakeup
<1>22. ASSUME NEW t \in Threads, SendsDirectly(t)
      PROVE  FlagInv'
  BY <1>22 DEF SendsDirectly, MayCall, Goes
<1>23. ASSUME NEW t \in Threads, DirectReturns(t)
      PROVE  FlagInv'
  BY <1>23 DEF DirectReturns, Goes
<1>24. CASE MainReports
  BY <1>24 DEF MainReports
<1> QED
  BY <1>1, <1>2, <1>3, <1>4, <1>5, <1>6, <1>7, <1>8, <1>9, <1>10, <1>11, <1>12, <1>13, <1>14, <1>15, <1>16, <1>17, <1>18, <1>19, <1>20, <1>21, <1>22, <1>23, <1>24
    DEF Next, CallStep, MainStep

\* While nothing was abandoned the agent knows the export that is under way.
LEMMA OperationStep ==
  ASSUME TypeOK, ExclusiveInv, FlagInv, OperationInv, Next
  PROVE  OperationInv'
<1> USE Alone DEF TypeOK, OperationInv, Operation, Sent, flags, mainVars, callVars, pastVars
<1>1. ASSUME NEW t \in Threads, Begin(t)
      PROVE  OperationInv'
  BY <1>1 DEF Begin, MayCall, AwaitOperations, Goes, Busy
<1>2. ASSUME NEW t \in Threads, OperationsWakes(t)
      PROVE  OperationInv'
  BY <1>2 DEF OperationsWakes, AwaitOperations, Goes, Busy
<1>3. ASSUME NEW t \in Threads, Expires(t)
      PROVE  OperationInv'
  BY <1>3 DEF Expires, Goes
<1>4. ASSUME NEW t \in Threads, OperationsTimedOut(t)
      PROVE  OperationInv'
  BY <1>4 DEF OperationsTimedOut, Returns
<1>5. ASSUME NEW t \in Threads, Accepted(t)
      PROVE  OperationInv'
  BY <1>5 DEF Accepted, Goes, Operation
<1>6. ASSUME NEW t \in Threads, Rejected(t)
      PROVE  OperationInv'
  BY <1>6 DEF Rejected, Fails, Returns
<1>7. ASSUME NEW t \in Threads, Pumped(t)
      PROVE  OperationInv'
  BY <1>7 DEF Pumped, Goes
<1>8. ASSUME NEW t \in Threads, PumpSeesExit(t)
      PROVE  OperationInv'
  BY <1>8 DEF PumpSeesExit, Fails, Returns
<1>9. ASSUME NEW t \in Threads, OperationDone(t)
      PROVE  OperationInv'
  BY <1>9 DEF OperationDone, Goes
<1>10. ASSUME NEW t \in Threads, AwaitCallback(t)
      PROVE  OperationInv'
  BY <1>10 DEF AwaitCallback, Goes, Returns
<1>11. ASSUME NEW t \in Threads, CallbackTimedOut(t)
      PROVE  OperationInv'
  BY <1>11 DEF CallbackTimedOut, Returns
<1>12. CASE MainLocks
  BY <1>12 DEF MainLocks
<1>13. CASE MainPumped
  BY <1>13 DEF MainPumped
<1>14. CASE MainSeesExit
  BY <1>14 DEF MainSeesExit, Stops
<1>15. CASE MainReleases
  BY <1>15 DEF MainReleases, Stops, LoopsOn
<1>16. CASE TryJoin
  BY <1>16 DEF TryJoin
<1>17. CASE Start
  BY <1>17 DEF Start, LoopsOn
<1>18. ASSUME NEW w \in Workers, WorkerEnds(w)
      PROVE  OperationInv'
  BY <1>18 DEF WorkerEnds
<1>19. ASSUME NEW op \in ops, Callback(op)
      PROVE  OperationInv'
  BY <1>19 DEF Callback
<1>20. CASE RequestExit
  BY <1>20 DEF RequestExit
<1>21. CASE SpuriousWakeup
  BY <1>21 DEF SpuriousWakeup
<1>22. ASSUME NEW t \in Threads, SendsDirectly(t)
      PROVE  OperationInv'
  BY <1>22 DEF SendsDirectly, MayCall, Goes
<1>23. ASSUME NEW t \in Threads, DirectReturns(t)
      PROVE  OperationInv'
  BY <1>23 DEF DirectReturns, Goes
<1>24. CASE MainReports
  BY <1>24 DEF MainReports
<1> QED
  BY <1>1, <1>2, <1>3, <1>4, <1>5, <1>6, <1>7, <1>8, <1>9, <1>10, <1>11, <1>12, <1>13, <1>14, <1>15, <1>16, <1>17, <1>18, <1>19, <1>20, <1>21, <1>22, <1>23, <1>24
    DEF Next, CallStep, MainStep

\* Who waits, waits for something that will be signalled.
LEMMA WaitStep ==
  ASSUME TypeOK, ExclusiveInv, FlagInv, WaitInv, Next
  PROVE  WaitInv'
<1> USE Alone DEF TypeOK, WaitInv, Late, flags, mainVars, callVars, pastVars
<1>1. ASSUME NEW t \in Threads, Begin(t)
      PROVE  WaitInv'
  <2>1. \A s \in Threads : pc[s] = "idle"
    BY <1>1, ThreadsAssumption, SingleWorker DEF Begin, MayCall, ExclusiveInv, Threads
  <2>2. ~operation_cb_in_progress
    BY <2>1 DEF FlagInv, Sent
  <2>3. t = Main => main = "try"
    BY <1>1 DEF Begin, MayCall, ExclusiveInv
  <2>4. CASE process_event_in_progress
    BY <1>1, <2>3, <2>4 DEF Begin, AwaitOperations, Goes, Busy
  <2>5. CASE ~process_event_in_progress
    BY <1>1, <2>2, <2>5 DEF Begin, AwaitOperations, Goes, Busy
  <2> QED
    BY <2>4, <2>5
<1>2. ASSUME NEW t \in Threads, OperationsWakes(t)
      PROVE  WaitInv'
  <2>1. ~operation_cb_in_progress
    BY <1>2 DEF OperationsWakes, FlagInv, Sent
  <2>2. t = Main => main = "try"
    BY <1>2 DEF OperationsWakes, ExclusiveInv
  <2>3. CASE process_event_in_progress
    BY <1>2, <2>2, <2>3 DEF OperationsWakes, AwaitOperations, Goes, Busy
  <2>4. CASE ~process_event_in_progress
    BY <1>2, <2>1, <2>4 DEF OperationsWakes, AwaitOperations, Goes, Busy
  <2> QED
    BY <2>3, <2>4
<1>3. ASSUME NEW t \in Threads, Expires(t)
      PROVE  WaitInv'
  BY <1>3 DEF Expires, Goes
<1>4. ASSUME NEW t \in Threads, OperationsTimedOut(t)
      PROVE  WaitInv'
  BY <1>4 DEF OperationsTimedOut, Returns
<1>5. ASSUME NEW t \in Threads, Accepted(t)
      PROVE  WaitInv'
  BY <1>5 DEF Accepted, Goes, Operation
<1>6. ASSUME NEW t \in Threads, Rejected(t)
      PROVE  WaitInv'
  <2>1. waiting' \subseteq waiting
    BY <1>6, SignalWakes DEF Rejected, Fails, Returns
  <2> QED
    BY <1>6, <2>1 DEF Rejected, Fails, Returns
<1>7. ASSUME NEW t \in Threads, Pumped(t)
      PROVE  WaitInv'
  BY <1>7 DEF Pumped, Goes
<1>8. ASSUME NEW t \in Threads, PumpSeesExit(t)
      PROVE  WaitInv'
  <2>1. waiting' \subseteq waiting
    BY <1>8, SignalWakes DEF PumpSeesExit, Fails, Returns
  <2> QED
    BY <1>8, <2>1 DEF PumpSeesExit, Fails, Returns
<1>9. ASSUME NEW t \in Threads, OperationDone(t)
      PROVE  WaitInv'
  <2>1. waiting' \subseteq waiting /\ (~exit /\ phase # "left" => waiting' = {})
    BY <1>9, SignalWakes, WaitsAlone DEF OperationDone
  <2> QED
    BY <1>9, <2>1 DEF OperationDone, Goes
<1>10. ASSUME NEW t \in Threads, AwaitCallback(t)
      PROVE  WaitInv'
  <2>1. t = Main => main = "try"
    BY <1>10 DEF AwaitCallback, ExclusiveInv
  <2>2. CASE operation_cb_in_progress
    BY <1>10, <2>1, <2>2 DEF AwaitCallback, Goes
  <2>3. CASE ~operation_cb_in_progress
    BY <1>10, <2>3 DEF AwaitCallback, Returns
  <2> QED
    BY <2>2, <2>3
<1>11. ASSUME NEW t \in Threads, CallbackTimedOut(t)
      PROVE  WaitInv'
  BY <1>11 DEF CallbackTimedOut, Returns
<1>12. CASE MainLocks
  <2>1. CASE operation_in_progress
    <3>1. \A t \in Threads : pc[t] \notin Late
      BY <2>1 DEF FlagInv, Early
    <3>2. pc[Main] = "idle"
      BY <1>12 DEF MainLocks, ExclusiveInv
    <3> QED
      BY <1>12, <2>1, <3>1, <3>2 DEF MainLocks
  <2>2. CASE ~operation_in_progress
    BY <1>12, <2>2 DEF MainLocks
  <2> QED
    BY <2>1, <2>2
<1>13. CASE MainPumped
  BY <1>13 DEF MainPumped
<1>14. CASE MainSeesExit
  BY <1>14 DEF MainSeesExit, Stops
<1>15. CASE MainReleases
  <2>1. waiting' \subseteq waiting /\ (~exit /\ phase # "left" => waiting' = {})
    BY <1>15, SignalWakes, WaitsAlone DEF MainReleases
  <2> QED
    BY <1>15, <2>1 DEF MainReleases, Stops, LoopsOn
<1>16. CASE TryJoin
  BY <1>16 DEF TryJoin
<1>17. CASE Start
  BY <1>17 DEF Start, LoopsOn, ExclusiveInv
<1>18. ASSUME NEW w \in Workers, WorkerEnds(w)
      PROVE  WaitInv'
  BY <1>18 DEF WorkerEnds
<1>19. ASSUME NEW op \in ops, Callback(op)
      PROVE  WaitInv'
  <2>1. waiting' \subseteq waiting
    BY <1>19, SignalWakes DEF Callback
  <2> QED
    BY <1>19, <2>1 DEF Callback
<1>20. CASE RequestExit
  BY <1>20 DEF RequestExit
<1>21. CASE SpuriousWakeup
  BY <1>21 DEF SpuriousWakeup
<1>22. ASSUME NEW t \in Threads, SendsDirectly(t)
      PROVE  WaitInv'
  BY <1>22 DEF SendsDirectly, MayCall, Goes
<1>23. ASSUME NEW t \in Threads, DirectReturns(t)
      PROVE  WaitInv'
  BY <1>23 DEF DirectReturns, Goes
<1>24. CASE MainReports
  BY <1>24 DEF MainReports
<1> QED
  BY <1>1, <1>2, <1>3, <1>4, <1>5, <1>6, <1>7, <1>8, <1>9, <1>10, <1>11, <1>12, <1>13, <1>14, <1>15, <1>16, <1>17, <1>18, <1>19, <1>20, <1>21, <1>22, <1>23, <1>24
    DEF Next, CallStep, MainStep

-----------------------------------------------------------------------------
(* The theorems *)

\* The invariant holds at the beginning.
LEMMA InitInv == Init => IInv
<1> SUFFICES ASSUME Init PROVE IInv
  OBVIOUS
<1>1. TypeOK
  BY DEF Init, TypeOK, Labels, Phases, Places, Threads
<1>2. ExclusiveInv
  BY DEF Init, ExclusiveInv, Threads
<1>3. FlagInv
  BY DEF Init, FlagInv, Early, Sent, PumpPlaces
<1>4. OperationInv /\ WaitInv
  BY DEF Init, OperationInv, WaitInv, Late
<1> QED
  BY <1>1, <1>2, <1>3, <1>4 DEF IInv

\* Every step keeps the invariant.
LEMMA StepInv == IInv /\ [Next]_vars => IInv'
<1>1. ASSUME IInv, Next
      PROVE  IInv'
  BY <1>1, TypeStep, ExclusiveStep, FlagStep, OperationStep, WaitStep DEF IInv
<1>2. ASSUME IInv, UNCHANGED vars
      PROVE  IInv'
  BY <1>2 DEF IInv, vars, flags, mainVars, callVars, pastVars, TypeOK, ExclusiveInv, FlagInv, OperationInv, Operation, WaitInv
<1> QED
  BY <1>1, <1>2

\* The inductive invariant: one export at a time, and flags that tell where.
THEOREM ExportInvariance == Spec => []IInv
BY InitInv, StepInv, PTL DEF Spec

\* No export submits or pumps while another one or the main thread pumps; what is
\* sent without a flag (LoopIterate's report, send_metadata) is outside of it.
THEOREM ExportsExclusive == Spec => []ExportsExcludePumps
<1>1. IInv => ExportsExcludePumps
  BY Alone DEF IInv, TypeOK, FlagInv, PumpPlaces, FlagUsers, ExportsExcludePumps
<1> QED
  BY <1>1, ExportInvariance, PTL

\* No export leaves a flag up.
THEOREM FlagsReleased == Spec => []FlagsAreReleased
<1>1. IInv => FlagsAreReleased
  BY DEF IInv, FlagInv, Early, Sent, FlagsAreReleased
<1> QED
  BY <1>1, ExportInvariance, PTL

\* A successful export was completed by the agent, unless one was abandoned.
THEOREM SuccessOwned == Spec => []SuccessIsOwn
<1>1. IInv => SuccessIsOwn
  BY DEF IInv, OperationInv, Operation, Sent, SuccessIsOwn
<1> QED
  BY <1>1, ExportInvariance, PTL

\* Until SHOULDEXIT nobody waits beside another.
THEOREM WaitersAlone == Spec => []WaitersAreAlone
<1>1. IInv => WaitersAreAlone
  BY WaitsAlone DEF IInv, WaitersAreAlone
<1> QED
  BY <1>1, ExportInvariance, PTL
=============================================================================
