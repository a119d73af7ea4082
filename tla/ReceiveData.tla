---------------------------- MODULE ReceiveData ----------------------------
(***************************************************************************)
(* EdgeAppLibReceiveData of libs/receive_data: a file is downloaded unless *)
(* the one there has the right hash, waited for, verified and, if it is    *)
(* wrong, downloaded again. The operation is known to the EVP agent and to *)
(* the map of pending operations by the address of its future; CoolingDown *)
(* waits until that map is empty.                                          *)
(*                                                                         *)
(* One call at a time (receive_data.h:57 forbids concurrent ones), by the  *)
(* main thread, which pumps the agent's events itself while it waits, or   *)
(* by a thread of the application, for which the main thread pumps.        *)
(***************************************************************************)
EXTENDS Integers

CONSTANTS
  Addresses,    \* where a future may be allocated
  MaxFutures,   \* MAX_FUTURES_QUEUE
  MaxRetry,     \* MAX_AI_MODEL_DOWNLOAD_RETRY
  MaxCalls,     \* bound on the calls of a behaviour
  Env           \* the failures and rare events that may occur

EnvEvents == { "noWorkspace", "refuse", "exit", "agentExits", "agentFails", "wrongFile",
               "exports", "unlinkFails" }
May(event) == event \in Env

None == "none"
Export == "export"
Main == "main"
Helper == "helper"
Slots == 1..MaxFutures

ASSUME AddressAssumption == None \notin Addresses /\ Export \notin Addresses
ASSUME BoundAssumption == MaxFutures \in Nat \ {0} /\ MaxRetry \in Nat /\ MaxCalls \in Nat
ASSUME EnvAssumption == Env \subseteq EnvEvents

VARIABLES
  pc,       \* where the call is
  caller,   \* the thread that makes it
  timed,    \* timeout_ms is not negative
  cur,      \* the future of the download under way
  heap,     \* the result in the future at each address, None where there is none
  slots,    \* the key in each slot of the map
  ops,      \* operations the agent has accepted and not completed
  file,     \* the file at the full path
  retry,    \* the static counter of HashCheckAndRetry
  outcome,  \* what the last call returned
  calls,    \* number of calls
  tries,    \* operations submitted in this call
  leaked,   \* an entry of a refused operation was left in the map
  deserted  \* a future was freed under an operation

callVars == <<caller, timed, calls>>
mapVars == <<slots, ops>>
pastVars == <<leaked, deserted>>
vars == <<pc, cur, heap, file, retry, outcome, tries, callVars, mapVars, pastVars>>

Results == { "Success", "Failure", "Timeout", "DataTooLarge", "Denied", "Enqueued",
             "Uninitialized" }
Labels == {"idle", "begin", "submit", "wait", "expired", "check", "draining"}
InCall == {"begin", "submit", "wait", "expired", "check"}
Files == {"absent", "wrong", "verified"}

-----------------------------------------------------------------------------
(* The map of pending operations *)

FirstSlot(k, s) == slots[s] = k /\ \A r \in 1..s - 1 : slots[r] # k

map_set(k) == \E s \in Slots : FirstSlot(None, s) /\ slots' = [slots EXCEPT ![s] = k]

InMap(k) == \E s \in Slots : slots[s] = k

map_pop(k) ==
  \/ \E s \in Slots : FirstSlot(k, s) /\ slots' = [slots EXCEPT ![s] = None]
  \/ ~InMap(k) /\ UNCHANGED slots

map_is_empty == \A s \in Slots : slots[s] = None

-----------------------------------------------------------------------------
(* Returning *)

\* MUTANT: the static counter keeps what an unfinished call left.
ReturnsStale(result) ==
  /\ pc' = "idle" /\ outcome' = result
  /\ UNCHANGED retry

\* A call that fails resets the counter.
Returns(result) ==
  /\ pc' = "idle" /\ outcome' = result
  /\ retry' = 0

Init ==
  /\ pc = "idle" /\ caller = Main /\ timed = FALSE /\ calls = 0 /\ tries = 0
  /\ cur = None /\ heap = [a \in Addresses |-> None]
  /\ slots = [s \in Slots |-> None] /\ ops = {}
  /\ file \in Files /\ retry = 0 /\ outcome = "Uninitialized"
  /\ leaked = FALSE /\ deserted = FALSE

\* The file that is asked for, its hash or what is on the disk may be new.
Call ==
  /\ pc = "idle" /\ calls < MaxCalls
  /\ calls' = calls + 1 /\ tries' = 0
  /\ pc' = "begin"
  /\ caller' \in {Main, Helper} /\ timed' \in BOOLEAN
  /\ file' \in Files
  /\ UNCHANGED <<cur, heap, retry, outcome, mapVars, pastVars>>

-----------------------------------------------------------------------------
(* Download_Blob *)

\* Await returns at once when the future is settled: it frees it.
NoWorkspace ==
  /\ pc = "begin" /\ May("noWorkspace")
  /\ Returns("Uninitialized")
  /\ UNCHANGED <<cur, heap, file, tries, callVars, mapVars, pastVars>>

HashIsCorrect ==
  /\ pc = "begin" /\ file = "verified"
  /\ pc' = "check"
  /\ UNCHANGED <<cur, heap, file, retry, outcome, tries, callVars, mapVars, pastVars>>

\* RemoveOutdatedFile.
FileRemoved ==
  \/ file' = "absent"
  \/ May("unlinkFails") /\ UNCHANGED file

MapFull ==
  /\ pc = "begin" /\ file # "verified" /\ ~InMap(None)
  /\ FileRemoved
  /\ Returns("DataTooLarge")
  /\ UNCHANGED <<cur, heap, tries, callVars, mapVars, pastVars>>

Register ==
  /\ pc = "begin" /\ file # "verified"
  /\ FileRemoved
  /\ \E a \in Addresses :
       /\ heap[a] = None
       /\ cur' = a /\ heap' = [heap EXCEPT ![a] = "Enqueued"]
       /\ map_set(a)
  /\ pc' = "submit"
  /\ UNCHANGED <<retry, outcome, tries, callVars, ops, pastVars>>

Operation == [address |-> cur, call |-> calls, try |-> tries']

Accepted ==
  /\ pc = "submit"
  /\ tries' = tries + 1
  /\ ops' = ops \cup {Operation}
  /\ pc' = "wait"
  /\ UNCHANGED <<cur, heap, slots, file, retry, outcome, callVars, pastVars>>

\* The future is freed; its entry stays in the map.
Refused ==
  /\ pc = "submit" /\ May("refuse")
  /\ heap' = [heap EXCEPT ![cur] = None] /\ cur' = None
  /\ leaked' = TRUE
  /\ Returns("Failure")
  /\ UNCHANGED <<file, tries, callVars, mapVars, deserted>>

-----------------------------------------------------------------------------
(* ReceiveDataAwait *)

\* MUTANT: a future is settled without looking at what the callback said.
AwaitReturnsAnyway ==
  /\ pc \in {"wait", "expired"}
  /\ heap' = [heap EXCEPT ![cur] = None] /\ cur' = None
  /\ pc' = "check" /\ UNCHANGED <<retry, outcome>>
  /\ UNCHANGED <<file, tries, callVars, mapVars, pastVars>>

\* MUTANT: the callback does not signal the condition.
AwaitReturnsUnsignalled ==
  /\ pc \in {"wait", "expired"} /\ heap[cur] # "Enqueued"
  /\ caller = Main \/ pc = "expired"
  /\ heap' = [heap EXCEPT ![cur] = None] /\ cur' = None
  /\ Returns(heap[cur])
  /\ UNCHANGED <<file, tries, callVars, mapVars, pastVars>>

\* A wait that has run out returns Timeout even if the result has come.
AwaitReturns ==
  /\ pc \in {"wait", "expired"} /\ heap[cur] # "Enqueued"
  /\ heap' = [heap EXCEPT ![cur] = None] /\ cur' = None
  /\ CASE pc = "expired" -> Returns("Timeout")
       [] heap[cur] = "Success" /\ pc = "wait" -> pc' = "check" /\ UNCHANGED <<retry, outcome>>
       [] OTHER -> Returns(heap[cur])
  /\ UNCHANGED <<file, tries, callVars, mapVars, pastVars>>

\* pthread_cond_timedwait of a thread; the main thread has no timer.
TimerExpires ==
  /\ pc = "wait" /\ caller # Main /\ timed
  /\ pc' = "expired"
  /\ UNCHANGED <<cur, heap, file, retry, outcome, tries, callVars, mapVars, pastVars>>

\* The result has not come: the wait starts again.
WaitAgain ==
  /\ pc = "expired" /\ heap[cur] = "Enqueued"
  /\ pc' = "wait"
  /\ UNCHANGED <<cur, heap, file, retry, outcome, tries, callVars, mapVars, pastVars>>

\* EVP_processEvent returns SHOULDEXIT: the future is freed, the operation
\* goes on.
AwaitSeesExit ==
  /\ pc = "wait" /\ caller = Main /\ heap[cur] = "Enqueued" /\ May("exit")
  /\ heap' = [heap EXCEPT ![cur] = None] /\ cur' = None
  /\ deserted' = TRUE
  /\ Returns("Failure")
  /\ UNCHANGED <<file, tries, callVars, mapVars, leaked>>

-----------------------------------------------------------------------------
(* HashCheckAndRetry *)

TooOften(n) == n > MaxRetry

\* MUTANT: a completed download is believed to be right.
BelievedFile == TRUE

\* The hash of the file is looked at again, if there is a workspace.
HashVerified == file = "verified"

Verified ==
  /\ pc = "check" /\ HashVerified
  /\ Returns("Success")
  /\ UNCHANGED <<cur, heap, file, tries, callVars, mapVars, pastVars>>

NotVerified ==
  /\ pc = "check" /\ (~HashVerified \/ May("noWorkspace"))
  /\ IF TooOften(retry + 1)
       THEN Returns("Failure")
       ELSE pc' = "begin" /\ retry' = retry + 1 /\ UNCHANGED outcome
  /\ UNCHANGED <<cur, heap, file, tries, callVars, mapVars, pastVars>>

-----------------------------------------------------------------------------
(* The agent, CoolingDown, and data export *)

\* The main thread is in EVP_processEvent, if not in a call of its own.
Pumping == pc \in InCall => caller = Helper \/ pc = "wait"

Settled(op, result) ==
  heap' = IF InMap(op.address) /\ heap[op.address] # None
            THEN [heap EXCEPT ![op.address] = result] ELSE heap

\* MUTANT: the entry stays in the map.
CallbackKeepsEntry(op) ==
  /\ Pumping
  /\ ops' = ops \ {op}
  /\ Settled(op, "Success") /\ UNCHANGED slots
  /\ file' \in {"verified", "wrong"}
  /\ UNCHANGED <<pc, cur, retry, outcome, tries, callVars, pastVars>>

\* blob_cb: DONE is a success whatever the transfer's own result was. A
\* result for a future that is gone is written to freed memory.
Callback(op) ==
  /\ Pumping
  /\ ops' = ops \ {op}
  /\ map_pop(op.address)
  /\ \/ Settled(op, "Success") /\ file' = "verified"
     \/ May("wrongFile") /\ Settled(op, "Success") /\ file' \in {"absent", "wrong"}
     \/ May("agentExits") /\ Settled(op, "Denied") /\ UNCHANGED file
     \/ May("agentFails") /\ Settled(op, "Failure") /\ UNCHANGED file
  /\ UNCHANGED <<pc, cur, retry, outcome, tries, callVars, pastVars>>

\* While it transfers, the agent writes to the file.
AgentWrites ==
  /\ ops # {} /\ file # "wrong"
  /\ file' = "wrong"
  /\ UNCHANGED <<pc, cur, heap, retry, outcome, tries, callVars, mapVars, pastVars>>

\* Data export has entries of its own in the map.
ExportBegins ==
  /\ May("exports") /\ pc # "draining"
  /\ map_set(Export)
  /\ UNCHANGED <<pc, cur, heap, ops, file, retry, outcome, tries, callVars, pastVars>>

ExportEnds ==
  /\ Pumping /\ InMap(Export)
  /\ map_pop(Export)
  /\ UNCHANGED <<pc, cur, heap, ops, file, retry, outcome, tries, callVars, pastVars>>

\* The loop of CoolingDown, which no worker outlives.
Drain ==
  /\ pc = "idle" /\ pc' = "draining"
  /\ UNCHANGED <<cur, heap, file, retry, outcome, tries, callVars, mapVars, pastVars>>

Drained ==
  /\ pc = "draining" /\ map_is_empty
  /\ pc' = "idle"
  /\ UNCHANGED <<cur, heap, file, retry, outcome, tries, callVars, mapVars, pastVars>>

\* EVP_processEvent times out: CoolingDown calls it again.
PumpIdle == pc = "draining" /\ ~map_is_empty /\ UNCHANGED vars

CallStep ==
  \/ NoWorkspace \/ HashIsCorrect \/ MapFull \/ Register \/ Accepted \/ Refused
  \/ AwaitReturns \/ TimerExpires \/ WaitAgain \/ AwaitSeesExit
  \/ Verified \/ NotVerified

AgentStep == (\E op \in ops : Callback(op)) \/ ExportEnds

Next ==
  \/ Call \/ CallStep \/ AgentStep \/ AgentWrites \/ ExportBegins \/ Drain \/ Drained \/ PumpIdle

Spec == Init /\ [][Next]_vars

\* The thread that calls goes on.
LazySpec == Spec /\ WF_vars(CallStep) /\ WF_vars(Drained)

\* And the agent answers.
FairSpec ==
  /\ LazySpec
  /\ WF_vars(\E op \in ops : Callback(op)) /\ WF_vars(ExportEnds)

-----------------------------------------------------------------------------
(* Properties *)

TypeOK ==
  /\ pc \in Labels /\ caller \in {Main, Helper} /\ timed \in BOOLEAN
  /\ calls \in 0..MaxCalls /\ tries \in Nat /\ retry \in 0..MaxRetry
  /\ cur \in Addresses \cup {None}
  /\ heap \in [Addresses -> Results \cup {None}]
  /\ slots \in [Slots -> Addresses \cup {None, Export}]
  /\ ops \subseteq [address : Addresses, call : 1..MaxCalls, try : Nat]
  /\ file \in Files /\ outcome \in Results
  /\ leaked \in BOOLEAN /\ deserted \in BOOLEAN

(* What the agent writes its answer to is the future that is waited for,   *)
(* and the call is still there to read it, whatever timers and retries do; *)
(* only SHOULDEXIT breaks it.                                              *)
FutureOutlivesDownload ==
  ~deserted => \A op \in ops :
    /\ op.address = cur /\ heap[cur] = "Enqueued"
    /\ pc \in {"wait", "expired"} /\ op.call = calls /\ op.try = tries

(* Every download in the map is one that the agent still has to answer, so *)
(* the map can drain; only an operation the agent refused stays behind.    *)
PendingIsReal ==
  ~leaked => \A s \in Slots :
    slots[s] \in Addresses =>
      \/ slots[s] = cur /\ pc = "submit"
      \/ \E op \in ops : op.address = slots[s]

(* CoolingDown leaves no download behind: an empty map means that no       *)
(* operation is under way, those of calls that met SHOULDEXIT included.    *)
DrainedMeansDone == map_is_empty => ops = {} /\ pc \notin {"submit"}

(* After a success the verified file is on the disk and stays there: no    *)
(* operation is left that could write to it.                               *)
SuccessMeansVerified ==
  pc = "idle" /\ outcome = "Success" /\ ~deserted => file = "verified" /\ ops = {}

(* The counter of retries is static: each call still begins with a full    *)
(* allowance, and never submits more than the retries and one.             *)
RetriesAreBounded ==
  /\ tries <= MaxRetry + 1
  /\ pc \in {"idle", "draining"} => retry = 0

\* The transfer of the call has been accepted and not settled.
Transferring == pc \in {"wait", "expired"} /\ heap[cur] = "Enqueued"

Contract == INSTANCE DownloadContract WITH
  asking <- pc \in InCall, attempts <- tries, transfer <- Transferring,
  strays <- deserted, answer <- outcome

(* A call answers when its transfer has ended, after a bounded number of   *)
(* them, and with success only if the verified file is there. It stays     *)
(* unless an exit left a transfer behind.                                  *)
KeepsContract == Contract!DownloadSpec

(* An agent that answers every operation ends every call.                  *)
CallReturns == (pc \in InCall) ~> (pc = "idle")

(* And CoolingDown gets out, unless a refused download is in the map.      *)
DrainEnds == (pc = "draining") ~> (pc = "idle" \/ leaked)

(* include/receive_data.h:54: "timeout_ms Timeout in milliseconds. -1 to   *)
(* wait until operation ends", for an agent that does not answer.          *)
TimeoutIsKept == (pc \in InCall /\ timed) ~> (pc = "idle")
=============================================================================
