------------------------------ MODULE SendBatch ------------------------------
(***************************************************************************)
(* SendDataSyncMeta of libs/send_data: inference results are collected per *)
(* model in output_tensor_vec, and the call that completes a batch sends   *)
(* every entry, holding inf_mutex meanwhile. The count of the batch is a   *)
(* static variable that no mutex protects.                                 *)
(*                                                                         *)
(* A caller is an event function, or a thread an application started; the  *)
(* number per message changes only between calls (StateMachine: nothing is *)
(* configured while a worker runs). Handing a message over and waiting for *)
(* it is DataExport, which settles it with success or failure.             *)
(***************************************************************************)
EXTENDS Integers, Sequences, FiniteSets

CONSTANTS
  Threads,       \* callers
  Models,        \* values of ModelID
  Limits,        \* values of number_of_inference_per_message
  MaxQueue,      \* MAX_NUMBER_OF_INFERENCE_QUEUE
  MaxInferences, \* bound on the calls of a behaviour
  Env            \* the failures the environment may produce

EnvEvents == {"formatFails"}
May(event) == event \in Env

ASSUME ThreadsAssumption == IsFiniteSet(Threads) /\ "nobody" \notin Threads
ASSUME LimitsAssumption == Limits \subseteq Nat \ {0} /\ Limits # {}
ASSUME BoundsAssumption == MaxQueue \in Nat \ {0} /\ MaxInferences \in Nat
ASSUME EnvAssumption == Env \subseteq EnvEvents

VARIABLES
  n,          \* getNumOfInfPerMsg()
  slots,      \* output_tensor_vec: model and inferences of each entry
  inf_cnt,
  inf_mutex,  \* the thread that holds it, or nobody
  pc,         \* where each thread is in SendDataSyncMeta
  own,        \* the inference and its model that the thread was called with
  at,         \* the loop index of a thread that sends a batch
  message,    \* the entry it has serialised
  counted,    \* inf_cnt as the thread has read it; the inferences of its batch
  made,       \* inferences handed in so far; each is its number
  kept,       \* history: those the library has taken
  times,      \* history: in how many messages each has been sent
  overlapped, \* history: two threads have been in a call at once
  mixed       \* history: n changed since the queue was empty

batchVars == <<n, slots, inf_cnt, inf_mutex>>
callVars == <<pc, own, at, message, counted>>
pastVars == <<made, kept, times, overlapped, mixed>>
vars == <<batchVars, callVars, pastVars>>

Labels == { "idle", "format", "single", "append", "check", "load", "store", "lock",
            "serialise", "await", "reset" }
Empty == [key |-> "none", infs |-> <<>>]
Slots == 1..MaxQueue

Goes(t, label) == pc' = [pc EXCEPT ![t] = label]
Holds(s, i) == \E j \in 1..Len(slots[s].infs) : slots[s].infs[j] = i
Queued == { i \in 1..made : \E s \in Slots : Holds(s, i) }

Init ==
  /\ n \in Limits
  /\ slots = [s \in Slots |-> Empty]
  /\ inf_cnt = 1 /\ inf_mutex = "nobody"
  /\ pc = [t \in Threads |-> "idle"]
  /\ own = [t \in Threads |-> [inf |-> 0, model |-> "none"]]
  /\ at = [t \in Threads |-> 0]
  /\ message = [t \in Threads |-> Empty]
  /\ counted = [t \in Threads |-> 0]
  /\ made = 0 /\ kept = {}
  /\ times = [i \in 1..MaxInferences |-> 0]
  /\ overlapped = FALSE /\ mixed = FALSE

-----------------------------------------------------------------------------
(* A call *)

\* Inferences are numbered as they are handed in.
Call(t) ==
  /\ pc[t] = "idle" /\ made < MaxInferences
  /\ Goes(t, "format")
  /\ made' = made + 1
  /\ \E m \in Models : own' = [own EXCEPT ![t] = [inf |-> made', model |-> m]]
  /\ overlapped' = (overlapped \/ \E u \in Threads : pc[u] # "idle")
  /\ UNCHANGED <<batchVars, at, message, counted, kept, times, mixed>>

\* ProcessFormatMeta asks the sensor for its name and model.
Format(t) ==
  /\ pc[t] = "format"
  /\ \/ Goes(t, IF n = 1 THEN "single" ELSE "append")
     \/ May("formatFails") /\ Goes(t, "idle")
  /\ UNCHANGED <<batchVars, own, at, message, counted, pastVars>>

\* A single inference is sent at once; a mutex it has not locked is unlocked.
SendSingle(t) ==
  /\ pc[t] = "single"
  /\ kept' = kept \cup {own[t].inf}
  /\ times' = [times EXCEPT ![own[t].inf] = @ + 1]
  /\ inf_mutex' = "nobody"
  /\ Goes(t, "idle")
  /\ UNCHANGED <<n, slots, inf_cnt, own, at, message, counted, made, overlapped, mixed>>

\* The first slot that is free or has the model.
Target(m) ==
  { s \in Slots : /\ slots[s] = Empty \/ slots[s].key = m
                  /\ \A r \in 1..s - 1 : slots[r] # Empty /\ slots[r].key # m }

\* MUTANT: inf_mutex is not taken.
SendDataAppendUnlocked(t) ==
  /\ pc[t] = "append"
  /\ \E s \in Target(own[t].model) :
       slots' = [slots EXCEPT ![s] = [key |-> own[t].model, infs |-> Append(@.infs, own[t].inf)]]
  /\ kept' = kept \cup {own[t].inf}
  /\ Goes(t, "check")
  /\ UNCHANGED <<n, inf_cnt, inf_mutex, own, at, message, counted, made, times, overlapped, mixed>>

SendDataAppendOutputTensor(t) ==
  /\ pc[t] = "append" /\ inf_mutex = "nobody"
  /\ \E s \in Target(own[t].model) :
       slots' = [slots EXCEPT ![s] = [key |-> own[t].model, infs |-> Append(@.infs, own[t].inf)]]
  /\ kept' = kept \cup {own[t].inf}
  /\ Goes(t, "check")
  /\ UNCHANGED <<n, inf_cnt, inf_mutex, own, at, message, counted, made, times, overlapped, mixed>>

\* With every slot taken by another model the inference is refused.
AppendQueueFull(t) ==
  /\ pc[t] = "append" /\ inf_mutex = "nobody"
  /\ Target(own[t].model) = {}
  /\ Goes(t, "idle")
  /\ UNCHANGED <<batchVars, own, at, message, counted, pastVars>>

\* MUTANT: the batch is one inference longer.
CheckInclusive(t) ==
  /\ pc[t] = "check"
  /\ Goes(t, IF inf_cnt <= n THEN "load" ELSE "lock")
  /\ UNCHANGED <<batchVars, own, at, message, counted, pastVars>>

Check(t) ==
  /\ pc[t] = "check"
  /\ Goes(t, IF inf_cnt < n THEN "load" ELSE "lock")
  /\ UNCHANGED <<batchVars, own, at, message, counted, pastVars>>

\* inf_cnt++ and Enqueued: a load and a store.
LoadCount(t) ==
  /\ pc[t] = "load"
  /\ counted' = [counted EXCEPT ![t] = inf_cnt]
  /\ Goes(t, "store")
  /\ UNCHANGED <<batchVars, own, at, message, pastVars>>

StoreCount(t) ==
  /\ pc[t] = "store"
  /\ inf_cnt' = counted[t] + 1
  /\ counted' = [counted EXCEPT ![t] = 0]
  /\ Goes(t, "idle")
  /\ UNCHANGED <<n, slots, inf_mutex, own, at, message, pastVars>>

-----------------------------------------------------------------------------
(* The call that completes a batch *)

Lock(t) ==
  /\ pc[t] = "lock" /\ inf_mutex = "nobody"
  /\ inf_mutex' = t
  /\ at' = [at EXCEPT ![t] = 1]
  /\ Goes(t, "serialise")
  /\ UNCHANGED <<n, slots, inf_cnt, own, message, counted, pastVars>>

BatchEnds(t) == \A s \in Slots : s = at[t] => slots[s] = Empty

Serialise(t) ==
  /\ pc[t] = "serialise" /\ ~BatchEnds(t)
  /\ message' = [message EXCEPT ![t] = slots[at[t]]]
  /\ Goes(t, "await")
  /\ UNCHANGED <<batchVars, own, at, counted, pastVars>>

\* MUTANT: an entry whose message was not accepted stays in its slot.
AwaitKeepsFailed(t) ==
  /\ pc[t] = "await"
  /\ times' = [i \in DOMAIN times |->
                 times[i] + (IF \E j \in 1..Len(message[t].infs) : message[t].infs[j] = i THEN 1 ELSE 0)]
  /\ counted' = [counted EXCEPT ![t] = @ + Len(message[t].infs)]
  /\ \/ slots' = [slots EXCEPT ![at[t]] = Empty]
     \/ UNCHANGED slots
  /\ message' = [message EXCEPT ![t] = Empty]
  /\ at' = [at EXCEPT ![t] = @ + 1]
  /\ Goes(t, "serialise")
  /\ UNCHANGED <<n, inf_cnt, inf_mutex, own, made, kept, overlapped, mixed>>

\* Sent, settled and freed, whatever the result.
Await(t) ==
  /\ pc[t] = "await"
  /\ times' = [i \in DOMAIN times |->
                 times[i] + (IF \E j \in 1..Len(message[t].infs) : message[t].infs[j] = i THEN 1 ELSE 0)]
  /\ counted' = [counted EXCEPT ![t] = @ + Len(message[t].infs)]
  /\ slots' = [slots EXCEPT ![at[t]] = Empty]
  /\ message' = [message EXCEPT ![t] = Empty]
  /\ at' = [at EXCEPT ![t] = @ + 1]
  /\ Goes(t, "serialise")
  /\ UNCHANGED <<n, inf_cnt, inf_mutex, own, made, kept, overlapped, mixed>>

Unlock(t) ==
  /\ pc[t] = "serialise" /\ BatchEnds(t)
  /\ inf_mutex' = "nobody"
  /\ at' = [at EXCEPT ![t] = 0]
  /\ Goes(t, "reset")
  /\ UNCHANGED <<n, slots, inf_cnt, own, message, counted, pastVars>>

Reset(t) ==
  /\ pc[t] = "reset"
  /\ inf_cnt' = 1
  /\ counted' = [counted EXCEPT ![t] = 0]
  /\ mixed' = FALSE
  /\ Goes(t, "idle")
  /\ UNCHANGED <<n, slots, inf_mutex, own, at, message, made, kept, times, overlapped>>

-----------------------------------------------------------------------------
(* Settings *)

\* Neither the queue nor the count is touched.
SetInferencePerMessage ==
  /\ \A t \in Threads : pc[t] = "idle"
  /\ \E limit \in Limits : n' = limit
  /\ mixed' = (mixed \/ Queued # {})
  /\ UNCHANGED <<slots, inf_cnt, inf_mutex, callVars, made, kept, times, overlapped>>

-----------------------------------------------------------------------------

CallStep(t) ==
  \/ Format(t) \/ SendSingle(t)
  \/ SendDataAppendOutputTensor(t) \/ AppendQueueFull(t)
  \/ Check(t) \/ LoadCount(t) \/ StoreCount(t)
  \/ Lock(t) \/ Serialise(t) \/ Await(t) \/ Unlock(t) \/ Reset(t)

Next ==
  \/ \E t \in Threads : Call(t) \/ CallStep(t)
  \/ SetInferencePerMessage

Spec == Init /\ [][Next]_vars

-----------------------------------------------------------------------------
(* Properties *)

(* Whatever the interleaving of callers, an inference the library has      *)
(* taken is in one entry of the queue or was sent in one message, never in *)
(* both, twice or nowhere; one it has refused is in neither. A message     *)
(* being sent is still in the queue.                                       *)
NothingLost ==
  \A i \in 1..made :
    LET entries == { p \in Slots \X (1..made) :
                       p[2] <= Len(slots[p[1]].infs) /\ slots[p[1]].infs[p[2]] = i }
    IN Cardinality(entries) + times[i] = IF i \in kept THEN 1 ELSE 0

(* The count and the queue go together as long as calls do not overlap,    *)
(* also over refused inferences, messages that fail and changed settings.  *)
CountMatchesQueue ==
  ~overlapped /\ (\A t \in Threads : pc[t] = "idle") => inf_cnt = Cardinality(Queued) + 1

(* A batch has number_of_inference_per_message inferences, unless calls    *)
(* overlapped or the setting changed while some were queued.               *)
BatchIsWhole ==
  \A t \in Threads : pc[t] = "reset" /\ ~overlapped /\ ~mixed => counted[t] = n

\* The slot of a model's entry, and the inferences that wait in it.
Has(q, s, m) == q[s] # Empty /\ q[s].key = m
WaitingIn(q, m) ==
  IF \E s \in Slots : Has(q, s, m) THEN q[CHOOSE s \in Slots : Has(q, s, m)].infs ELSE <<>>

Queues == INSTANCE BatchQueue WITH
  queue <- [m \in Models |-> WaitingIn(slots, m)],
  delivered <- { i \in 1..MaxInferences : times[i] # 0 },
  Inferences <- 1..MaxInferences

(* Slots that are found by searching for a model or a free place, filled   *)
(* and emptied under one mutex, are one queue per model: in order, sent    *)
(* whole and once, whichever threads call and whatever n is meanwhile.     *)
KeepsQueues == Queues!QueueSpec
=============================================================================
