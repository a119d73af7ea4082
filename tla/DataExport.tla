----------------------------- MODULE DataExport -----------------------------
(***************************************************************************)
(* Data export of libs/send_data and the map of pending operations of      *)
(* libs/common. A caller sends data and gets a future, may wait for it,    *)
(* and cleans it up; the EVP agent completes the operation in a callback,  *)
(* run by whichever EVP_processEvent the main thread makes.                *)
(*                                                                         *)
(* A future is an address: it can be allocated again once it is freed, and *)
(* the map and the agent know it by its address. What is recorded of the   *)
(* data outlives the future, to tell what became of it.                    *)
(***************************************************************************)
EXTENDS Integers

CONSTANTS
  Futures,    \* addresses a future may have
  MaxFutures, \* MAX_FUTURES_QUEUE
  Callers,    \* threads that export data
  Env         \* the failures and options that may occur

EnvEvents == {"disabled", "encode", "encodeFails", "oom", "reject", "rejectEncoded"}

None == "none"
Main == "main"
Slots == 1..MaxFutures

ASSUME MaxFuturesAssumption == MaxFutures \in Nat \ {0}
ASSUME FuturesAssumption == None \notin Futures
ASSUME EnvAssumption == Env \subseteq EnvEvents

VARIABLES
  stage,                \* where the caller is with each future
  by,                   \* the thread that sent it
  type,                 \* datatype
  encoded,              \* needs_cleanup: a buffer of the codec is sent
  data,                 \* the caller's input and the codec's buffer
  result,               \* these three are fields of the future
  is_processed,
  is_cleanup_requested,
  slots,                \* map_vec: the key in each slot
  inflight,             \* operations the agent accepted and has not completed
  delivering            \* the future a callback has taken from the map

sendVars == <<by, type, encoded>>
futureVars == <<result, is_processed, is_cleanup_requested>>
agentVars == <<inflight, delivering>>
vars == <<stage, sendVars, data, futureVars, slots, agentVars>>

May(event) == event \in Env

DataTypes == {"Raw", "Metadata"}
Verdicts == {"Success", "Failure", "Denied"}
InCall == {"registering", "submitting", "rejected", "waiting", "woken"}
Stages == InCall \cup {"free", "held", "answered", "abandoned"}

Busy(c) == \E f \in Futures : by[f] = c /\ stage[f] \in InCall

\* Callbacks run while the main thread pumps events.
Pumping == ~Busy(Main)

-----------------------------------------------------------------------------
(* Ownership of the data *)

Blocks == {"input", "buffer"}
Block(f) == IF encoded[f] THEN "buffer" ELSE "input"

\* MUTANT: the caller's data is freed, encoded or not.
SentDataInput(f) == IF type[f] = "Raw" THEN {"input"} ELSE {}

\* is_cleanup_sent_data: blob_buff is freed with the future. Only Raw data
\* is ever encoded.
SentData(f) == IF type[f] = "Raw" THEN {Block(f)} ELSE {}

\* What is left of the blocks held after free() of some of them.
Freed(held, blocks) ==
  [b \in Blocks |-> IF b \notin blocks THEN held[b]
                    ELSE IF held[b] = "valid" THEN "freed" ELSE "freedTwice"]

Release(f, blocks) == data' = [data EXCEPT ![f] = Freed(@, blocks)]

-----------------------------------------------------------------------------
(* The map of pending operations *)

InMap(k) == \E s \in Slots : slots[s] = k

map_is_empty == \A s \in Slots : slots[s] = None

\* The first slot that holds k; the first free one holds None.
FirstSlot(k, s) == slots[s] = k /\ \A r \in 1..s - 1 : slots[r] # k

map_set(k) == \E s \in Slots : FirstSlot(None, s) /\ slots' = [slots EXCEPT ![s] = k]

map_pop(k) ==
  \/ \E s \in Slots : FirstSlot(k, s) /\ slots' = [slots EXCEPT ![s] = None]
  \/ ~InMap(k) /\ UNCHANGED slots

-----------------------------------------------------------------------------
(* SendData *)

Sends(c, f, t, e, input, buffer) ==
  /\ ~Busy(c) /\ stage[f] = "free"
  /\ by' = [by EXCEPT ![f] = c]
  /\ type' = [type EXCEPT ![f] = t]
  /\ encoded' = [encoded EXCEPT ![f] = e]
  /\ data' = [data EXCEPT ![f] =
               [b \in Blocks |-> IF b = "input" THEN input ELSE buffer]]

(* DataExportSendData returns no future. When the port is disabled it      *)
(* frees Raw data; when encoding fails or memory is short it does not, and *)
(* the codec's buffer is lost. The caller frees Metadata itself.           *)
SendReturnsNull(c, f) ==
  /\ \/ May("disabled") /\ \E t \in DataTypes :
          Sends(c, f, t, FALSE, "freed", None)
     \/ May("encodeFails") /\
          Sends(c, f, "Raw", FALSE, "valid", None)
     \/ May("oom") /\ \E t \in DataTypes :
          Sends(c, f, t, FALSE,
                IF t = "Raw" THEN "valid" ELSE "freed", None)
     \/ May("oom") /\ May("encode") /\
          Sends(c, f, "Raw", TRUE, "valid", "valid")
  /\ UNCHANGED <<stage, futureVars, slots, agentVars>>

\* Raw data is encoded if it is an image; then the future is allocated.
SendBegins(c, f) ==
  /\ \/ \E t \in DataTypes :
          Sends(c, f, t, FALSE, "valid", None)
     \/ May("encode") /\
          Sends(c, f, "Raw", TRUE, "valid", "valid")
  /\ stage' = [stage EXCEPT ![f] = "registering"]
  /\ result' = [result EXCEPT ![f] = "Uninitialized"]
  /\ is_processed' = [is_processed EXCEPT ![f] = FALSE]
  /\ is_cleanup_requested' = [is_cleanup_requested EXCEPT ![f] = FALSE]
  /\ UNCHANGED <<slots, agentVars>>

\* MUTANT: the future is not entered in the map.
RegisterNothing(f) ==
  /\ stage[f] = "registering"
  /\ result' = [result EXCEPT ![f] = "Enqueued"]
  /\ stage' = [stage EXCEPT ![f] = "submitting"]
  /\ UNCHANGED <<sendVars, data, is_processed, is_cleanup_requested, slots, agentVars>>

Register(f) ==
  /\ stage[f] = "registering"
  /\ map_set(f)
  /\ result' = [result EXCEPT ![f] = "Enqueued"]
  /\ stage' = [stage EXCEPT ![f] = "submitting"]
  /\ UNCHANGED <<sendVars, data, is_processed, is_cleanup_requested, agentVars>>

RegisterMapFull(f) ==
  /\ stage[f] = "registering" /\ ~InMap(None)
  /\ result' = [result EXCEPT ![f] = "Denied"]
  /\ is_processed' = [is_processed EXCEPT ![f] = TRUE]
  /\ stage' = [stage EXCEPT ![f] = "held"]
  /\ UNCHANGED <<sendVars, data, is_cleanup_requested, slots, agentVars>>

\* The agent accepts the operation: from here on its callback may run.
Submit(f) ==
  /\ stage[f] = "submitting"
  /\ inflight' = inflight \cup {f}
  /\ stage' = [stage EXCEPT ![f] = "held"]
  /\ UNCHANGED <<sendVars, data, futureVars, slots, delivering>>

\* The agent refuses it, or the port's method is none the library knows.
SubmitRejected(f) ==
  /\ stage[f] = "submitting" /\ May(IF encoded[f] THEN "rejectEncoded" ELSE "reject")
  /\ is_processed' = [is_processed EXCEPT ![f] = TRUE]
  /\ result' = [result EXCEPT ![f] = "Failure"]
  /\ stage' = [stage EXCEPT ![f] = "rejected"]
  /\ UNCHANGED <<sendVars, data, is_cleanup_requested, slots, agentVars>>

\* MUTANT: a rejected operation stays in the map.
WithdrawKeepsEntry(f) ==
  /\ stage[f] = "rejected"
  /\ Release(f, IF encoded[f] THEN {"buffer"} ELSE {})
  /\ stage' = [stage EXCEPT ![f] = "held"]
  /\ UNCHANGED <<sendVars, futureVars, slots, agentVars>>

Withdraw(f) ==
  /\ stage[f] = "rejected"
  /\ map_pop(f)
  /\ Release(f, IF encoded[f] THEN {"buffer"} ELSE {})
  /\ stage' = [stage EXCEPT ![f] = "held"]
  /\ UNCHANGED <<sendVars, futureVars, agentVars>>

-----------------------------------------------------------------------------
(* Await and Cleanup. A critical section of the future's mutex is a step.  *)

StageFrame == UNCHANGED <<sendVars, data, futureVars, slots, agentVars>>

Await(f) ==
  /\ stage[f] = "held" /\ ~Busy(by[f])
  /\ stage' = [stage EXCEPT ![f] =
                 IF result[f] = "Enqueued" THEN "waiting" ELSE "answered"]
  /\ StageFrame

SpuriousWakeup(f) ==
  /\ stage[f] = "waiting"
  /\ stage' = [stage EXCEPT ![f] = "woken"]
  /\ StageFrame

\* MUTANT: the result is not looked at again after a wakeup.
AwaitBelievesWakeup(f) ==
  /\ stage[f] = "woken"
  /\ stage' = [stage EXCEPT ![f] = "answered"]
  /\ StageFrame

AwaitWakes(f) ==
  /\ stage[f] = "woken"
  /\ stage' = [stage EXCEPT ![f] =
                 IF result[f] = "Enqueued" THEN "waiting" ELSE "answered"]
  /\ StageFrame

\* MUTANT: the future is freed although its operation is still open.
CleanupAtOnce(f) ==
  /\ stage[f] \in {"held", "answered"} /\ ~Busy(by[f])
  /\ is_cleanup_requested' = [is_cleanup_requested EXCEPT ![f] = TRUE]
  /\ stage' = [stage EXCEPT ![f] = "free"]
  /\ Release(f, SentData(f))
  /\ UNCHANGED <<sendVars, result, is_processed, slots, agentVars>>

\* MUTANT: the caller frees its Metadata whether it has waited or not.
CleanupFreesMetadata(f) ==
  /\ stage[f] \in {"held", "answered"} /\ ~Busy(by[f])
  /\ is_cleanup_requested' = [is_cleanup_requested EXCEPT ![f] = TRUE]
  /\ stage' = [stage EXCEPT ![f] = IF is_processed[f] THEN "free" ELSE "abandoned"]
  /\ LET byLibrary == IF is_processed[f] THEN SentData(f) ELSE {}
         byCaller == IF type[f] = "Metadata" THEN {"input"} ELSE {}
     IN  data' = [data EXCEPT ![f] = Freed(Freed(@, byLibrary), byCaller)]
  /\ UNCHANGED <<sendVars, result, is_processed, slots, agentVars>>

(* The future goes if the operation is processed. A caller that has waited *)
(* then frees its Metadata; one that has not must leave it alone.          *)
Cleanup(f) ==
  /\ stage[f] \in {"held", "answered"} /\ ~Busy(by[f])
  /\ is_cleanup_requested' = [is_cleanup_requested EXCEPT ![f] = TRUE]
  /\ stage' = [stage EXCEPT ![f] = IF is_processed[f] THEN "free" ELSE "abandoned"]
  /\ LET byLibrary == IF is_processed[f] THEN SentData(f) ELSE {}
         byCaller == IF stage[f] = "answered" /\ type[f] = "Metadata"
                       THEN {"input"} ELSE {}
     IN  data' = [data EXCEPT ![f] = Freed(Freed(@, byLibrary), byCaller)]
  /\ UNCHANGED <<sendVars, result, is_processed, slots, agentVars>>

-----------------------------------------------------------------------------
(* The completion callbacks of the agent *)

(* The callback takes the future from the map; if it is not there nothing  *)
(* more happens.                                                           *)
CallbackPop(f) ==
  /\ Pumping /\ delivering = None /\ f \in inflight
  /\ inflight' = inflight \ {f}
  /\ map_pop(f)
  /\ delivering' = IF InMap(f) THEN f ELSE None
  /\ UNCHANGED <<stage, sendVars, data, futureVars>>

\* MUTANT: the callback leaves a future that was given up alone.
SettleForgets(f) ==
  /\ delivering = f
  /\ is_processed' = [is_processed EXCEPT ![f] = TRUE]
  /\ \E r \in Verdicts : result' = [result EXCEPT ![f] = r]
  /\ stage' = [stage EXCEPT ![f] = IF @ = "waiting" THEN "woken" ELSE @]
  /\ delivering' = None
  /\ UNCHANGED <<sendVars, data, is_cleanup_requested, slots, inflight>>

\* MUTANT: the callback does not signal the future's condition.
SettleSilently(f) ==
  /\ delivering = f
  /\ is_processed' = [is_processed EXCEPT ![f] = TRUE]
  /\ \E r \in Verdicts : result' = [result EXCEPT ![f] = r]
  /\ stage' = [stage EXCEPT ![f] = IF is_cleanup_requested[f] THEN "free" ELSE @]
  /\ Release(f, IF is_cleanup_requested[f] THEN SentData(f) ELSE {})
  /\ delivering' = None
  /\ UNCHANGED <<sendVars, is_cleanup_requested, slots, inflight>>

\* Then it settles the future, wakes its caller, and frees it if given up.
CallbackSettles(f) ==
  /\ delivering = f
  /\ is_processed' = [is_processed EXCEPT ![f] = TRUE]
  /\ \E r \in Verdicts : result' = [result EXCEPT ![f] = r]
  /\ stage' = [stage EXCEPT ![f] = IF is_cleanup_requested[f] THEN "free"
                                   ELSE IF @ = "waiting" THEN "woken" ELSE @]
  /\ Release(f, IF is_cleanup_requested[f] THEN SentData(f) ELSE {})
  /\ delivering' = None
  /\ UNCHANGED <<sendVars, is_cleanup_requested, slots, inflight>>

-----------------------------------------------------------------------------
Init ==
  /\ stage = [f \in Futures |-> "free"]
  /\ by = [f \in Futures |-> None]
  /\ type = [f \in Futures |-> None] /\ encoded = [f \in Futures |-> FALSE]
  /\ data = [f \in Futures |-> [b \in Blocks |-> None]]
  /\ result = [f \in Futures |-> "Uninitialized"]
  /\ is_processed = [f \in Futures |-> FALSE]
  /\ is_cleanup_requested = [f \in Futures |-> FALSE]
  /\ slots = [s \in Slots |-> None]
  /\ inflight = {} /\ delivering = None

SendStep(f) ==
  \/ Register(f) \/ RegisterMapFull(f) \/ Submit(f) \/ SubmitRejected(f) \/ Withdraw(f)

CallerStep(f) ==
  \/ \E c \in Callers : SendReturnsNull(c, f) \/ SendBegins(c, f)
  \/ SendStep(f) \/ Await(f) \/ SpuriousWakeup(f) \/ AwaitWakes(f) \/ Cleanup(f)

CallbackStep(f) == CallbackPop(f) \/ CallbackSettles(f)

\* EVP_processEvent times out.
PumpIdle == Pumping /\ UNCHANGED vars

Next == (\E f \in Futures : CallerStep(f) \/ CallbackStep(f)) \/ PumpIdle

Spec == Init /\ [][Next]_vars

(***************************************************************************)
(* A call that has begun goes on, a callback that has begun ends, and the  *)
(* agent completes every operation it accepted while the main thread pumps *)
(* events again and again. Nobody need send, wait or clean up.             *)
(***************************************************************************)
CallFairness(f) == WF_vars(SendStep(f)) /\ WF_vars(AwaitWakes(f))
CallbackFairness(f) == SF_vars(CallbackPop(f)) /\ WF_vars(CallbackSettles(f))

FairSpec == Spec /\ \A f \in Futures : CallFairness(f) /\ CallbackFairness(f)

-----------------------------------------------------------------------------
(* Properties *)

(* Every variable has its type; the map never holds more than it can.      *)
TypeOK ==
  /\ stage \in [Futures -> Stages]
  /\ by \in [Futures -> Callers \cup {None}]
  /\ type \in [Futures -> DataTypes \cup {None}] /\ encoded \in [Futures -> BOOLEAN]
  /\ data \in [Futures -> [Blocks -> {None, "valid", "freed", "freedTwice"}]]
  /\ result \in [Futures -> Verdicts \cup {"Uninitialized", "Enqueued"}]
  /\ is_processed \in [Futures -> BOOLEAN]
  /\ is_cleanup_requested \in [Futures -> BOOLEAN]
  /\ slots \in [Slots -> Futures \cup {None}]
  /\ inflight \subseteq Futures /\ delivering \in Futures \cup {None}

Underway(f) == f \in inflight \/ delivering = f

(* The agent and its callbacks only ever touch a future that is allocated  *)
(* and open, however early its caller gave it up.                          *)
FutureOutlivesTransfer ==
  \A f \in Futures : Underway(f) => stage[f] # "free" /\ ~is_processed[f]

(* The agent only ever reads data that has not been freed, by the library  *)
(* or by a caller that frees what it has waited for.                       *)
DataOutlivesTransfer ==
  \A f \in inflight : data[f][Block(f)] = "valid"

(* Once a Raw export is over, the block that was sent has been freed, and  *)
(* no block has ever been freed twice.                                     *)
SentDataReleased ==
  \A f \in Futures :
    /\ stage[f] = "free" /\ type[f] = "Raw" => data[f][Block(f)] = "freed"
    /\ \A b \in Blocks : data[f][b] # "freedTwice"

(* DataExportHasPendingOperations means what CoolingDown takes it to mean: *)
(* when the main thread sees an empty map, nothing is being transferred    *)
(* and nobody is left waiting for a callback.                              *)
DrainedMeansDone ==
  map_is_empty /\ delivering = None =>
    inflight = {} /\ \A f \in Futures : stage[f] # "waiting"

(* And the other way round: each entry of the map stands for one operation *)
(* the agent has accepted, or a call to SendData is about to offer it or   *)
(* withdraw it, so that CoolingDown does not wait in vain.                 *)
PendingIsReal ==
  \A s \in Slots : slots[s] # None =>
    /\ slots[s] \in inflight \/ stage[slots[s]] \in {"submitting", "rejected"}
    /\ \A r \in Slots \ {s} : slots[r] # slots[s]

Op == [f \in Futures |-> IF stage[f] = "free" THEN "none"
                         ELSE IF is_processed[f] THEN "settled" ELSE "open"]
Held == {f \in Futures : stage[f] \notin {"free", "abandoned"}}
Answered == {f \in Futures : stage[f] = "answered"}

Contract == INSTANCE ExportContract WITH op <- Op, held <- Held, answered <- Answered

(* An operation settles once, Await tells only settled results, and the    *)
(* future is freed by the later of the callback and the cleanup.           *)
KeepsContract == Contract!ContractSpec

(* Await returns once the agent has completed the operation: the wakeup is *)
(* not lost between the callback and the caller.                           *)
AwaitReturns == \A f \in Futures : stage[f] = "waiting" ~> stage[f] = "answered"

(* A future that was given up early is freed in the end.                   *)
AbandonedIsFreed == \A f \in Futures : stage[f] = "abandoned" ~> stage[f] = "free"

(* The operation is executed eventually, also if the caller waits for it.  *)
SentIsSettled ==
  \A f \in Futures : stage[f] = "waiting" ~> is_processed[f]
=============================================================================
