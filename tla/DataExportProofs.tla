-------------------------- MODULE DataExportProofs --------------------------
(***************************************************************************)
(* Proofs about DataExport. FutureOK says of each future how the stage of  *)
(* its caller, its own fields, the map and the agent go together; it is    *)
(* inductive, and the safety properties of DataExport follow from it.      *)
(***************************************************************************)
EXTENDS DataExport, TLAPS

SlotsOK == slots \in [Slots -> Futures \cup {None}]

\* No future has two entries in the map.
Unique == \A r, s \in Slots : slots[r] = slots[s] /\ slots[r] # None => r = s

Accepted == {"held", "waiting", "woken", "abandoned"}

FutureOK(f) ==
  /\ InMap(f) <=> f \in inflight \/ stage[f] \in {"submitting", "rejected"}
  /\ f \in inflight => delivering # f
  /\ Underway(f) => stage[f] \in Accepted /\ result[f] = "Enqueued"
  /\ stage[f] \in Accepted /\ ~is_processed[f] => Underway(f)
  /\ stage[f] = "registering" => result[f] = "Uninitialized"
  /\ stage[f] \in {"submitting", "waiting"} => result[f] = "Enqueued"
  /\ stage[f] \in {"rejected", "answered"} => is_processed[f]
  /\ stage[f] = "abandoned" => ~is_processed[f]
  /\ stage[f] # "free" => (is_processed[f] <=> result[f] \in Verdicts)
  /\ stage[f] # "free" => (is_cleanup_requested[f] <=> stage[f] = "abandoned")
  /\ stage[f] \in {"registering", "submitting"} \/ Underway(f) =>
       data[f][Block(f)] = "valid"

\* The inductive invariant.
IInv == TypeOK /\ Unique /\ \A f \in Futures : FutureOK(f)

-----------------------------------------------------------------------------
(* The map: what setting and popping a key do to what is in it. *)

(* map_set adds its key and nothing else. *)
LEMMA MapSet ==
  ASSUME SlotsOK, Unique, NEW k \in Futures, ~InMap(k), map_set(k)
  PROVE  /\ SlotsOK' /\ Unique'
         /\ \A g \in Futures : InMap(g)' <=> InMap(g) \/ g = k
<1>1. PICK s \in Slots : slots[s] = None /\ slots' = [slots EXCEPT ![s] = k]
  BY DEF map_set, FirstSlot
<1>2. k # None
  BY FuturesAssumption
<1>3. SlotsOK'
  BY <1>1 DEF SlotsOK
<1>4. \A r \in Slots : slots'[r] = IF r = s THEN k ELSE slots[r]
  BY <1>1 DEF SlotsOK
<1>5. Unique'
  BY <1>2, <1>4 DEF Unique, InMap
<1>6. \A g \in Futures : InMap(g)' <=> InMap(g) \/ g = k
  BY <1>1, <1>4, FuturesAssumption DEF InMap
<1> QED
  BY <1>3, <1>5, <1>6

(* map_pop takes its key out and nothing else. *)
LEMMA MapPop ==
  ASSUME SlotsOK, Unique, NEW k \in Futures, map_pop(k)
  PROVE  /\ SlotsOK' /\ Unique'
         /\ \A g \in Futures : InMap(g)' <=> InMap(g) /\ g # k
<1>1. CASE ~InMap(k) /\ UNCHANGED slots
  BY <1>1 DEF SlotsOK, Unique, InMap
<1>2. CASE \E s \in Slots : FirstSlot(k, s) /\ slots' = [slots EXCEPT ![s] = None]
  <2>1. PICK s \in Slots : slots[s] = k /\ slots' = [slots EXCEPT ![s] = None]
    BY <1>2 DEF FirstSlot
  <2>2. k # None
    BY FuturesAssumption
  <2>3. SlotsOK'
    BY <2>1 DEF SlotsOK
  <2>4. \A r \in Slots : slots'[r] = IF r = s THEN None ELSE slots[r]
    BY <2>1 DEF SlotsOK
  <2>5. Unique'
    BY <2>4 DEF Unique
  <2>6. \A g \in Futures : InMap(g)' <=> InMap(g) /\ g # k
    BY <2>1, <2>2, <2>4, FuturesAssumption DEF InMap, Unique
  <2> QED
    BY <2>3, <2>5, <2>6
<1> QED
  BY <1>1, <1>2 DEF map_pop

(* A step that leaves slots alone leaves what is in the map alone. *)
LEMMA MapUnchanged ==
  ASSUME SlotsOK, Unique, UNCHANGED slots
  PROVE  SlotsOK' /\ Unique' /\ \A g \in Futures : InMap(g)' <=> InMap(g)
BY DEF SlotsOK, Unique, InMap

-----------------------------------------------------------------------------
(* A step that changes nothing of a future, its entry in the map and its   *)
(* operation keeps what is said of it.                                     *)
LEMMA Untouched ==
  ASSUME NEW g \in Futures, FutureOK(g), InMap(g)' <=> InMap(g),
         stage'[g] = stage[g], encoded'[g] = encoded[g], data'[g] = data[g],
         result'[g] = result[g], is_processed'[g] = is_processed[g],
         is_cleanup_requested'[g] = is_cleanup_requested[g],
         g \in inflight' <=> g \in inflight,
         delivering' = g <=> delivering = g
  PROVE  FutureOK(g)'
BY DEF FutureOK, Underway, Block

-----------------------------------------------------------------------------
(* One lemma for each action: what it does to its own future, and that it  *)
(* touches no other.                                                       *)

LEMMA SendReturnsNullStep ==
  ASSUME IInv, NEW c \in Callers, NEW f \in Futures, SendReturnsNull(c, f)
  PROVE  IInv'
<1> USE DEF IInv
<1>1. PICK t \in DataTypes, e \in BOOLEAN,
           input, buffer \in {None, "valid", "freed"} : Sends(c, f, t, e, input, buffer)
  BY DEF SendReturnsNull, DataTypes
<1>2. UNCHANGED <<stage, result, is_processed, is_cleanup_requested, slots,
                 inflight, delivering>>
  BY DEF SendReturnsNull, futureVars, agentVars
<1>3. TypeOK'
  BY <1>1, <1>2 DEF TypeOK, Sends, Blocks
<1>4. SlotsOK' /\ Unique' /\ \A g \in Futures : InMap(g)' <=> InMap(g)
  BY <1>2, MapUnchanged DEF TypeOK, SlotsOK
<1>5. FutureOK(f)'
  BY <1>1, <1>2, <1>4 DEF FutureOK, Sends, Underway, Accepted
<1>6. ASSUME NEW g \in Futures \ {f} PROVE FutureOK(g)'
  BY <1>1, <1>2, <1>4, Untouched DEF TypeOK, Sends
<1> QED
  BY <1>3, <1>4, <1>5, <1>6

LEMMA SendBeginsStep ==
  ASSUME IInv, NEW c \in Callers, NEW f \in Futures, SendBegins(c, f)
  PROVE  IInv'
<1> USE DEF IInv
<1>1. PICK t \in DataTypes, e \in BOOLEAN, buffer \in {None, "valid"} :
        /\ Sends(c, f, t, e, "valid", buffer)
        /\ e => buffer = "valid"
  BY DEF SendBegins, DataTypes
<1>2. UNCHANGED <<slots, inflight, delivering>>
  BY DEF SendBegins, agentVars
<1>3. TypeOK'
  BY <1>1, <1>2 DEF TypeOK, Sends, SendBegins, Blocks, Stages, InCall
<1>4. SlotsOK' /\ Unique' /\ \A g \in Futures : InMap(g)' <=> InMap(g)
  BY <1>2, MapUnchanged DEF TypeOK, SlotsOK
<1>5. (data[f][Block(f)])' = "valid"
  BY <1>1 DEF TypeOK, Sends, Blocks, Block
<1>6. stage[f] = "free" /\ ~InMap(f) /\ ~Underway(f)
  BY <1>1 DEF Sends, FutureOK, Underway, Accepted
<1>7. FutureOK(f)'
  BY <1>1, <1>2, <1>4, <1>5, <1>6
    DEF FutureOK, SendBegins, Sends, TypeOK, Underway, Accepted, Verdicts
<1>8. ASSUME NEW g \in Futures \ {f} PROVE FutureOK(g)'
  BY <1>1, <1>2, <1>4, Untouched DEF TypeOK, Sends, SendBegins
<1> QED
  BY <1>3, <1>4, <1>7, <1>8

LEMMA RegisterStep ==
  ASSUME IInv, NEW f \in Futures, Register(f) \/ RegisterMapFull(f)
  PROVE  IInv'
<1> USE DEF IInv, sendVars, agentVars
<1>1. CASE Register(f)
  <2>1. SlotsOK /\ ~InMap(f) /\ map_set(f)
    BY <1>1 DEF TypeOK, SlotsOK, FutureOK, Register, Underway, Accepted
  <2>2. SlotsOK' /\ Unique' /\ \A g \in Futures : InMap(g)' <=> InMap(g) \/ g = f
    BY <2>1, MapSet
  <2>3. TypeOK'
    BY <1>1, <2>2 DEF TypeOK, SlotsOK, Register, Stages, InCall
  <2>4. FutureOK(f)'
    BY <1>1, <2>2
      DEF FutureOK, Register, TypeOK, Underway, Accepted, Verdicts, Block
  <2>5. ASSUME NEW g \in Futures \ {f} PROVE FutureOK(g)'
    BY <1>1, <2>2, Untouched DEF TypeOK, Register
  <2> QED
    BY <2>2, <2>3, <2>4, <2>5
<1>2. CASE RegisterMapFull(f)
  <2>1. SlotsOK' /\ Unique' /\ \A g \in Futures : InMap(g)' <=> InMap(g)
    BY <1>2, MapUnchanged DEF TypeOK, SlotsOK, RegisterMapFull
  <2>2. TypeOK'
    BY <1>2 DEF TypeOK, RegisterMapFull, Stages, InCall, Verdicts
  <2>3. FutureOK(f)'
    BY <1>2, <2>1
      DEF FutureOK, RegisterMapFull, TypeOK, Underway, Accepted, Verdicts
  <2>4. ASSUME NEW g \in Futures \ {f} PROVE FutureOK(g)'
    BY <1>2, <2>1, Untouched DEF TypeOK, RegisterMapFull
  <2> QED
    BY <2>1, <2>2, <2>3, <2>4
<1> QED
  BY <1>1, <1>2

LEMMA SubmitStep ==
  ASSUME IInv, NEW f \in Futures, Submit(f) \/ SubmitRejected(f)
  PROVE  IInv'
<1> USE DEF IInv, sendVars, futureVars, agentVars
<1>1. SlotsOK' /\ Unique' /\ \A g \in Futures : InMap(g)' <=> InMap(g)
  BY MapUnchanged DEF TypeOK, SlotsOK, Submit, SubmitRejected
<1>2. TypeOK'
  BY DEF TypeOK, Submit, SubmitRejected, Stages, InCall, Verdicts
<1>3. FutureOK(f)'
  BY <1>1
    DEF FutureOK, Submit, SubmitRejected, TypeOK, Underway, Accepted, Verdicts,
        Block
<1>4. ASSUME NEW g \in Futures \ {f} PROVE FutureOK(g)'
  BY <1>1, Untouched DEF TypeOK, Submit, SubmitRejected
<1> QED
  BY <1>1, <1>2, <1>3, <1>4

\* The blocks of an export stay blocks, whatever is freed.
LEMMA FreedType ==
  ASSUME NEW held \in [Blocks -> {None, "valid", "freed", "freedTwice"}], NEW blocks
  PROVE  Freed(held, blocks) \in [Blocks -> {None, "valid", "freed", "freedTwice"}]
BY DEF Freed

LEMMA WithdrawStep ==
  ASSUME IInv, NEW f \in Futures, Withdraw(f)
  PROVE  IInv'
<1> USE DEF IInv, sendVars, futureVars, agentVars
<1>1. SlotsOK' /\ Unique' /\ \A g \in Futures : InMap(g)' <=> InMap(g) /\ g # f
  BY MapPop DEF TypeOK, SlotsOK, Withdraw
<1>2. TypeOK'
  BY <1>1, FreedType DEF TypeOK, SlotsOK, Withdraw, Release, Stages, InCall
<1>3. FutureOK(f)'
  BY <1>1 DEF FutureOK, Withdraw, TypeOK, Underway, Accepted, Verdicts
<1>4. ASSUME NEW g \in Futures \ {f} PROVE FutureOK(g)'
  BY <1>1, Untouched DEF TypeOK, Withdraw, Release
<1> QED
  BY <1>1, <1>2, <1>3, <1>4

LEMMA AwaitStep ==
  ASSUME IInv, NEW f \in Futures, Await(f) \/ SpuriousWakeup(f) \/ AwaitWakes(f)
  PROVE  IInv'
<1> USE DEF IInv, StageFrame, sendVars, futureVars, agentVars
<1>1. /\ StageFrame /\ stage[f] \in {"held", "waiting", "woken"}
      /\ stage' = [stage EXCEPT ![f] = stage'[f]]
      /\ \/ stage'[f] = "waiting" /\ result[f] = "Enqueued"
         \/ stage'[f] = "answered" /\ result[f] # "Enqueued"
         \/ stage'[f] = "woken"
  BY DEF TypeOK, Await, SpuriousWakeup, AwaitWakes
<1>2. SlotsOK' /\ Unique' /\ \A g \in Futures : InMap(g)' <=> InMap(g)
  BY <1>1, MapUnchanged DEF TypeOK, SlotsOK
<1>3. TypeOK'
  BY <1>1 DEF TypeOK, Stages, InCall
<1>4. FutureOK(f)'
  BY <1>1, <1>2 DEF FutureOK, TypeOK, Underway, Accepted, Verdicts, Block
<1>5. ASSUME NEW g \in Futures \ {f} PROVE FutureOK(g)'
  BY <1>1, <1>2, Untouched DEF TypeOK
<1> QED
  BY <1>2, <1>3, <1>4, <1>5

LEMMA CleanupStep ==
  ASSUME IInv, NEW f \in Futures, Cleanup(f)
  PROVE  IInv'
<1> USE DEF IInv, sendVars, agentVars
<1>1. SlotsOK' /\ Unique' /\ \A g \in Futures : InMap(g)' <=> InMap(g)
  BY MapUnchanged DEF TypeOK, SlotsOK, Cleanup
<1>2. PICK byLibrary, byCaller :
        /\ data' = [data EXCEPT ![f] = Freed(Freed(@, byLibrary), byCaller)]
        /\ ~is_processed[f] => byLibrary = {}
        /\ byCaller # {} => stage[f] = "answered"
  BY DEF Cleanup
<1>3. Freed(Freed(data[f], byLibrary), byCaller)
        \in [Blocks -> {None, "valid", "freed", "freedTwice"}]
  BY FreedType DEF TypeOK
<1>4. TypeOK'
  BY <1>2, <1>3 DEF TypeOK, Cleanup, Stages
<1>5. ASSUME ~is_processed[f] PROVE data'[f] = data[f]
  <2>1. byLibrary = {} /\ byCaller = {}
    BY <1>2, <1>5 DEF FutureOK, Cleanup
  <2>2. Freed(Freed(data[f], {}), {}) = data[f]
    BY DEF Freed, TypeOK
  <2> QED
    BY <1>2, <2>1, <2>2 DEF TypeOK
<1>6. FutureOK(f)'
  BY <1>1, <1>5 DEF FutureOK, Cleanup, TypeOK, Underway, Accepted, Verdicts, Block
<1>7. ASSUME NEW g \in Futures \ {f} PROVE FutureOK(g)'
  BY <1>1, <1>2, Untouched DEF TypeOK, Cleanup
<1> QED
  BY <1>1, <1>4, <1>6, <1>7

LEMMA CallbackPopStep ==
  ASSUME IInv, NEW f \in Futures, CallbackPop(f)
  PROVE  IInv'
<1> USE DEF IInv, sendVars, futureVars
<1>1. SlotsOK' /\ Unique' /\ \A g \in Futures : InMap(g)' <=> InMap(g) /\ g # f
  BY MapPop DEF TypeOK, SlotsOK, CallbackPop
<1>2. delivering' = f /\ delivering = None /\ inflight' = inflight \ {f} /\ f \in inflight
  BY DEF CallbackPop, FutureOK
<1>3. TypeOK'
  BY <1>1, <1>2 DEF TypeOK, SlotsOK, CallbackPop
<1>4. FutureOK(f)'
  BY <1>1, <1>2 DEF FutureOK, CallbackPop, Underway, Accepted, Block
<1>5. ASSUME NEW g \in Futures \ {f} PROVE FutureOK(g)'
  BY <1>1, <1>2, FuturesAssumption, Untouched DEF CallbackPop
<1> QED
  BY <1>1, <1>3, <1>4, <1>5

LEMMA CallbackSettlesStep ==
  ASSUME IInv, NEW f \in Futures, CallbackSettles(f)
  PROVE  IInv'
<1> USE DEF IInv, sendVars, Release
<1>1. SlotsOK' /\ Unique' /\ \A g \in Futures : InMap(g)' <=> InMap(g)
  BY MapUnchanged DEF TypeOK, SlotsOK, CallbackSettles
<1>2. f \notin inflight /\ stage[f] \in Accepted /\ result'[f] \in Verdicts
  BY DEF CallbackSettles, FutureOK, Underway, TypeOK
<1>3. TypeOK'
  BY FreedType DEF TypeOK, CallbackSettles, Stages, InCall
<1>4. FutureOK(f)'
  BY <1>1, <1>2, FuturesAssumption
    DEF FutureOK, CallbackSettles, TypeOK, Underway, Accepted, Verdicts
<1>5. ASSUME NEW g \in Futures \ {f} PROVE FutureOK(g)'
  BY <1>1, FuturesAssumption, Untouched DEF TypeOK, CallbackSettles
<1> QED
  BY <1>1, <1>3, <1>4, <1>5

-----------------------------------------------------------------------------
(* The invariant and the theorems *)

LEMMA Start == Init => IInv
<1> SUFFICES ASSUME Init PROVE IInv
  OBVIOUS
<1>1. TypeOK
  BY DEF Init, TypeOK, Stages, Blocks
<1>2. Unique /\ \A f \in Futures : ~InMap(f)
  BY FuturesAssumption DEF Init, Unique, InMap
<1>3. ASSUME NEW f \in Futures PROVE FutureOK(f)
  BY <1>2, FuturesAssumption DEF Init, FutureOK, Underway, Accepted
<1> QED
  BY <1>1, <1>2, <1>3 DEF IInv

LEMMA Preserved == IInv /\ [Next]_vars => IInv'
<1> SUFFICES ASSUME IInv, [Next]_vars PROVE IInv'
  OBVIOUS
<1>1. ASSUME NEW f \in Futures, CallerStep(f) PROVE IInv'
  BY <1>1, SendReturnsNullStep, SendBeginsStep, RegisterStep, SubmitStep,
     WithdrawStep, AwaitStep, CleanupStep
     DEF CallerStep, SendStep
<1>2. ASSUME NEW f \in Futures, CallbackStep(f) PROVE IInv'
  BY <1>2, CallbackPopStep, CallbackSettlesStep DEF CallbackStep
<1>3. CASE UNCHANGED vars
  <2> USE <1>3 DEF IInv, vars, sendVars, futureVars, agentVars
  <2>1. SlotsOK' /\ Unique' /\ \A g \in Futures : InMap(g)' <=> InMap(g)
    BY MapUnchanged DEF TypeOK, SlotsOK
  <2>2. TypeOK'
    BY DEF TypeOK
  <2>3. ASSUME NEW g \in Futures PROVE FutureOK(g)'
    BY <2>1, Untouched
  <2> QED
    BY <2>1, <2>2, <2>3
<1> QED
  BY <1>1, <1>2, <1>3 DEF Next, PumpIdle

\* The inductive invariant holds in every reachable state.
THEOREM Invariance == Spec => []IInv
  BY Start, Preserved, PTL DEF Spec

(* Every variable keeps its type, so that SendData's callers only ever see *)
(* results of the enumeration and the map never outgrows its slots.        *)
THEOREM TypeCorrect == Spec => []TypeOK
<1>1. IInv => TypeOK
  BY DEF IInv
<1> QED
  BY <1>1, Invariance, PTL

(* blob_io_cb and the callbacks never find a future that was freed, however *)
(* DataExportCleanup and the completion of the operation interleave.        *)
THEOREM FutureSafe == Spec => []FutureOutlivesTransfer
<1>1. IInv => FutureOutlivesTransfer
  BY DEF IInv, FutureOutlivesTransfer, FutureOK, Accepted, Verdicts
<1> QED
  BY <1>1, Invariance, PTL

(* The buffer that blob_io_cb copies from has not been freed, neither by   *)
(* DataExportCleanupOrUnlock nor by a caller that awaited its future.      *)
THEOREM DataSafe == Spec => []DataOutlivesTransfer
<1>1. IInv => DataOutlivesTransfer
  BY DEF IInv, TypeOK, DataOutlivesTransfer, FutureOK, Underway
<1> QED
  BY <1>1, Invariance, PTL

(* DataExportHasPendingOperations is false only when no operation is under *)
(* way and nobody waits for one: CoolingDown may go on.                    *)
THEOREM DrainedSound == Spec => []DrainedMeansDone
<1>1. ASSUME IInv, map_is_empty, delivering = None
      PROVE  inflight = {} /\ \A f \in Futures : stage[f] # "waiting"
  <2>1. \A f \in Futures : ~InMap(f) /\ delivering # f
    BY <1>1, FuturesAssumption DEF map_is_empty, InMap
  <2>2. \A f \in Futures : f \notin inflight
    BY <1>1, <2>1 DEF IInv, FutureOK
  <2>3. ASSUME NEW f \in Futures, stage[f] = "waiting" PROVE FALSE
    BY <1>1, <2>1, <2>2, <2>3 DEF IInv, FutureOK, Underway, Accepted, Verdicts
  <2> QED
    BY <1>1, <2>2, <2>3 DEF IInv, TypeOK
<1>2. IInv => DrainedMeansDone
  BY <1>1 DEF DrainedMeansDone
<1> QED
  BY <1>2, Invariance, PTL

(* Every entry of the map stands for one operation that is still open, so  *)
(* that no entry is left behind for CoolingDown to wait for.               *)
THEOREM PendingSound == Spec => []PendingIsReal
<1>1. ASSUME IInv, NEW s \in Slots, slots[s] # None
      PROVE  /\ slots[s] \in inflight \/ stage[slots[s]] \in {"submitting", "rejected"}
             /\ \A r \in Slots \ {s} : slots[r] # slots[s]
  <2>1. slots[s] \in Futures /\ InMap(slots[s])
    BY <1>1 DEF IInv, TypeOK, InMap
  <2> QED
    BY <1>1, <2>1 DEF IInv, FutureOK, Unique
<1>2. IInv => PendingIsReal
  BY <1>1 DEF PendingIsReal
<1> QED
  BY <1>2, Invariance, PTL

-----------------------------------------------------------------------------
(* What was sent is freed once. This needs that encoding does not fail,    *)
(* that there is memory for the future, and that no encoded operation is   *)
(* refused: the code keeps it in none of these cases.                      *)

ReleaseOK(f) ==
  /\ type[f] # "Raw" => ~encoded[f]
  /\ stage[f] = "rejected" => ~encoded[f]
  /\ stage[f] # "free" => data[f][Block(f)] = "valid"
  /\ stage[f] = "free" /\ type[f] = "Raw" => data[f][Block(f)] = "freed"
  /\ \A b \in Blocks : data[f][b] # "freedTwice"

ReleaseInv == \A f \in Futures : ReleaseOK(f)

\* Only the sender, Withdraw, Cleanup and the callback change the data, each that
\* of its own future.
LEMMA OthersRelease ==
  ASSUME NEW g \in Futures, ReleaseOK(g), stage'[g] = stage[g], type'[g] = type[g],
         encoded'[g] = encoded[g], data'[g] = data[g]
  PROVE  ReleaseOK(g)'
BY DEF ReleaseOK, Block

LEMMA SendRelease ==
  ASSUME Env \cap {"encodeFails", "oom", "rejectEncoded"} = {}, IInv, ReleaseInv,
         NEW c \in Callers, NEW f \in Futures, SendReturnsNull(c, f) \/ SendBegins(c, f)
  PROVE  ReleaseInv'
<1> USE DEF IInv, TypeOK, ReleaseInv
<1>1. ReleaseOK(f)'
  BY DEF SendReturnsNull, SendBegins, Sends, May, ReleaseOK, Block, Blocks, DataTypes, None
<1>2. ASSUME NEW g \in Futures \ {f} PROVE ReleaseOK(g)'
  BY <1>2, OthersRelease DEF SendReturnsNull, SendBegins, Sends
<1> QED
  BY <1>1, <1>2

\* A block that is freed once is freed.
LEMMA FreeOnce ==
  ASSUME NEW held \in [Blocks -> {None, "valid", "freed", "freedTwice"}], NEW b \in Blocks,
         held[b] = "valid", \A d \in Blocks : held[d] # "freedTwice"
  PROVE  /\ Freed(held, {b})[b] = "freed"
         /\ \A d \in Blocks : Freed(held, {b})[d] # "freedTwice"
         /\ Freed(held, {}) = held
         /\ Freed(Freed(held, {b}), {}) = Freed(held, {b})
BY DEF Freed

LEMMA CallRelease ==
  ASSUME Env \cap {"encodeFails", "oom", "rejectEncoded"} = {}, IInv, ReleaseInv,
         NEW f \in Futures,
         \/ SendStep(f) \/ Await(f) \/ SpuriousWakeup(f) \/ AwaitWakes(f) \/ CallbackPop(f)
  PROVE  ReleaseInv'
<1> USE DEF IInv, TypeOK, ReleaseInv
<1>1. CASE Withdraw(f)
  <2>1. ~encoded[f] /\ stage[f] = "rejected" /\ stage'[f] = "held"
    BY <1>1 DEF Withdraw, ReleaseOK
  <2>2. data'[f] = data[f]
    BY <1>1, <2>1 DEF Withdraw, Release, Freed
  <2>3. ReleaseOK(f)'
    BY <1>1, <2>1, <2>2 DEF Withdraw, sendVars, ReleaseOK, Block
  <2>4. ASSUME NEW g \in Futures \ {f} PROVE ReleaseOK(g)'
    BY <1>1, OthersRelease DEF Withdraw, Release, sendVars
  <2> QED
    BY <2>3, <2>4
<1>2. CASE SubmitRejected(f)
  <2>1. ReleaseOK(f)'
    BY <1>2 DEF SubmitRejected, May, sendVars, ReleaseOK, Block
  <2>2. ASSUME NEW g \in Futures \ {f} PROVE ReleaseOK(g)'
    BY <1>2, OthersRelease DEF SubmitRejected, sendVars
  <2> QED
    BY <2>1, <2>2
<1>3. CASE \/ Register(f) \/ RegisterMapFull(f) \/ Submit(f)
           \/ Await(f) \/ SpuriousWakeup(f) \/ AwaitWakes(f)
  <2>1. /\ UNCHANGED <<type, encoded, data>>
        /\ stage[f] # "free" /\ stage'[f] \notin {"free", "rejected"}
        /\ \A g \in Futures \ {f} : stage'[g] = stage[g]
    BY <1>3
      DEF Register, RegisterMapFull, Submit, Await, SpuriousWakeup, AwaitWakes,
          StageFrame, sendVars
  <2>2. ReleaseOK(f)'
    BY <2>1 DEF ReleaseOK, Block
  <2>3. ASSUME NEW g \in Futures \ {f} PROVE ReleaseOK(g)'
    BY <2>1, OthersRelease
  <2> QED
    BY <2>2, <2>3
<1>4. CASE CallbackPop(f)
  BY <1>4, OthersRelease DEF CallbackPop, sendVars
<1> QED
  BY <1>1, <1>2, <1>3, <1>4 DEF SendStep

LEMMA EndRelease ==
  ASSUME IInv, ReleaseInv, NEW f \in Futures, Cleanup(f) \/ CallbackSettles(f)
  PROVE  ReleaseInv'
<1> USE DEF IInv, TypeOK, ReleaseInv
<1>1. /\ UNCHANGED <<type, encoded>> /\ stage[f] # "free"
      /\ \A g \in Futures \ {f} : UNCHANGED <<stage[g], data[g]>>
  BY DEF Cleanup, CallbackSettles, Release, sendVars, FutureOK, Underway, Accepted
<1>2. /\ data[f][Block(f)] = "valid" /\ Block(f) \in Blocks
      /\ \A d \in Blocks : data[f][d] # "freedTwice"
  BY <1>1 DEF ReleaseOK, Block, Blocks
<1> DEFINE once == Freed(data[f], {Block(f)})
<1>3. /\ once[Block(f)] = "freed" /\ \A d \in Blocks : once[d] # "freedTwice"
      /\ Freed(data[f], {}) = data[f] /\ Freed(once, {}) = once
  BY <1>2, FreeOnce
<1>4. \/ stage'[f] \notin {"free", "rejected"} /\ data'[f] = data[f]
      \/ stage'[f] = "free" /\ type[f] # "Raw" /\ data'[f] \in {data[f], once}
      \/ stage'[f] = "free" /\ data'[f] = once
  <2> HIDE DEF once
  <2>1. CASE CallbackSettles(f)
    <3>1. stage[f] \in Accepted
      BY <2>1 DEF CallbackSettles, FutureOK, Underway
    <3>2. data'[f] = Freed(data[f], IF is_cleanup_requested[f] THEN SentData(f) ELSE {})
      BY <2>1 DEF CallbackSettles, Release
    <3>3. SentData(f) = IF type[f] = "Raw" THEN {Block(f)} ELSE {}
      BY DEF SentData
    <3>4. stage'[f] = IF is_cleanup_requested[f] THEN "free"
                      ELSE IF stage[f] = "waiting" THEN "woken" ELSE stage[f]
      BY <2>1 DEF CallbackSettles
    <3> QED
      BY <1>3, <3>1, <3>2, <3>3, <3>4 DEF Accepted, once
  <2>2. CASE Cleanup(f)
    <3>1. PICK byLibrary, byCaller :
            /\ data'[f] = Freed(Freed(data[f], byLibrary), byCaller)
            /\ byLibrary = IF is_processed[f] THEN SentData(f) ELSE {}
            /\ byCaller = IF stage[f] = "answered" /\ type[f] = "Metadata"
                            THEN {"input"} ELSE {}
      BY <2>2 DEF Cleanup
    <3>2. stage'[f] = IF is_processed[f] THEN "free" ELSE "abandoned"
      BY <2>2 DEF Cleanup
    <3>3. SentData(f) = IF type[f] = "Raw" THEN {Block(f)} ELSE {}
      BY DEF SentData
    <3>4. CASE ~is_processed[f]
      <4>1. byLibrary = {} /\ byCaller = {}
        BY <3>1, <3>4 DEF FutureOK
      <4> QED
        BY <1>3, <3>1, <3>2, <3>4, <4>1
    <3>5. CASE is_processed[f] /\ type[f] = "Raw"
      <4>1. byLibrary = {Block(f)} /\ byCaller = {}
        BY <3>1, <3>3, <3>5
      <4> QED
        BY <1>3, <3>1, <3>2, <3>5, <4>1 DEF once
    <3>6. CASE is_processed[f] /\ type[f] # "Raw"
      <4>1. Block(f) = "input"
        BY <3>6 DEF ReleaseOK, Block
      <4>2. byLibrary = {} /\ byCaller \in {{}, {Block(f)}}
        BY <3>1, <3>3, <3>6, <4>1
      <4> QED
        BY <1>3, <3>1, <3>2, <3>6, <4>2 DEF once
    <3> QED
      BY <3>4, <3>5, <3>6
  <2> QED
    BY <2>1, <2>2
<1>5. ReleaseOK(f)'
  <2>1. Block(f)' = Block(f)
    BY <1>1 DEF Block
  <2>2. type'[f] = type[f] /\ encoded'[f] = encoded[f] /\ (type[f] # "Raw" => ~encoded[f])
    BY <1>1 DEF ReleaseOK
  <2> HIDE DEF once
  <2> QED
    BY <1>2, <1>3, <1>4, <2>1, <2>2 DEF ReleaseOK
<1>6. ASSUME NEW g \in Futures \ {f} PROVE ReleaseOK(g)'
  BY <1>1, OthersRelease
<1> QED
  BY <1>5, <1>6

(* DataExportCleanupOrUnlock frees what was sent exactly once, whether the *)
(* port is disabled, the map full, or a plain operation refused.           *)
THEOREM ReleasedOnce ==
  ASSUME Env \cap {"encodeFails", "oom", "rejectEncoded"} = {}
  PROVE  Spec => []SentDataReleased
<1>1. Init => ReleaseInv
  <2> SUFFICES ASSUME Init, NEW f \in Futures PROVE ReleaseOK(f)
    BY DEF ReleaseInv
  <2>1. stage[f] = "free" /\ type[f] = "none" /\ ~encoded[f]
    BY DEF Init, None
  <2>2. \A b \in Blocks : data[f][b] = "none"
    BY DEF Init, None
  <2> QED
    BY <2>1, <2>2 DEF ReleaseOK
<1>2. IInv /\ ReleaseInv /\ [Next]_vars => ReleaseInv'
  <2> SUFFICES ASSUME IInv, ReleaseInv, [Next]_vars PROVE ReleaseInv'
    OBVIOUS
  <2>1. CASE UNCHANGED vars
    BY <2>1, OthersRelease DEF vars, sendVars, ReleaseInv
  <2> QED
    BY <2>1, SendRelease, CallRelease, EndRelease
      DEF Next, CallerStep, SendStep, CallbackStep, PumpIdle
<1>3. IInv /\ ReleaseInv => SentDataReleased
  BY DEF ReleaseInv, ReleaseOK, SentDataReleased
<1> QED
  BY <1>1, <1>2, <1>3, Invariance, PTL DEF Spec

-----------------------------------------------------------------------------
(* Data export implements its contract *)

\* What a step does to one future is what it does to the contract.
LEMMA OneFuture ==
  ASSUME NEW f \in Futures,
         \A g \in Futures \ {f} : /\ stage'[g] = stage[g]
                                 /\ is_processed'[g] = is_processed[g]
  PROVE  /\ Op' = [Op EXCEPT ![f] = Op'[f]]
         /\ Held' = IF f \in Held' THEN Held \cup {f} ELSE Held \ {f}
         /\ Answered' = IF f \in Answered' THEN Answered \cup {f} ELSE Answered \ {f}
BY DEF Op, Held, Answered

LEMMA ContractStep ==
  IInv /\ [Next]_vars => [Contract!ContractNext]_(Contract!contractVars)
<1> SUFFICES ASSUME IInv, [Next]_vars
             PROVE  [Contract!ContractNext]_(Contract!contractVars)
  OBVIOUS
<1> USE DEF Contract!contractVars, Contract!ContractNext
<1>1. ASSUME NEW f \in Futures, NEW c \in Callers, SendBegins(c, f)
      PROVE  Contract!Send(f)
  BY <1>1, OneFuture
    DEF IInv, TypeOK, SendBegins, Sends, Op, Held, Answered, Contract!Send
<1>2. ASSUME NEW f \in Futures, RegisterMapFull(f) \/ SubmitRejected(f)
      PROVE  Contract!Settle(f)
  <2>1. stage[f] \in {"registering", "submitting"} /\ ~is_processed[f]
    BY <1>2 DEF IInv, FutureOK, RegisterMapFull, SubmitRejected, Verdicts
  <2>2. stage'[f] \in {"rejected", "held"} /\ is_processed'[f]
    BY <1>2 DEF IInv, TypeOK, RegisterMapFull, SubmitRejected
  <2>3. Op[f] = "open" /\ Op'[f] = "settled" /\ f \in Held /\ f \in Held'
        /\ f \notin Answered /\ f \notin Answered'
    BY <2>1, <2>2 DEF Op, Held, Answered
  <2>4. \A g \in Futures \ {f} : UNCHANGED <<stage[g], is_processed[g]>>
    BY <1>2 DEF IInv, TypeOK, RegisterMapFull, SubmitRejected
  <2> QED
    BY <2>3, <2>4, OneFuture DEF Contract!Settle
<1>3. ASSUME NEW f \in Futures, CallbackSettles(f)
      PROVE  Contract!Settle(f)
  <2>1. stage[f] \in Accepted /\ ~is_processed[f]
        /\ (is_cleanup_requested[f] <=> stage[f] = "abandoned")
    BY <1>3 DEF IInv, FutureOK, Underway, Accepted, CallbackSettles, Verdicts
  <2>2. is_processed'[f]
        /\ stage'[f] = IF is_cleanup_requested[f] THEN "free"
                       ELSE IF stage[f] = "waiting" THEN "woken" ELSE stage[f]
    BY <1>3 DEF IInv, TypeOK, CallbackSettles
  <2>3. /\ Op[f] = "open"
        /\ Op'[f] = IF f \in Held THEN "settled" ELSE "none"
        /\ f \in Held <=> f \in Held'
        /\ f \notin Answered /\ f \notin Answered'
    BY <2>1, <2>2 DEF Op, Held, Answered, Accepted
  <2>4. \A g \in Futures \ {f} : UNCHANGED <<stage[g], is_processed[g]>>
    BY <1>3 DEF IInv, TypeOK, CallbackSettles
  <2> QED
    BY <2>3, <2>4, OneFuture DEF Contract!Settle
<1>4. ASSUME NEW f \in Futures, Await(f) \/ AwaitWakes(f), stage'[f] = "answered"
      PROVE  Contract!Answer(f)
  BY <1>4, OneFuture
    DEF IInv, TypeOK, FutureOK, Underway, Accepted, Await, AwaitWakes, StageFrame,
        futureVars, Verdicts, Op, Held, Answered, Contract!Answer
<1>5. ASSUME NEW f \in Futures, Cleanup(f)
      PROVE  Contract!LetGo(f)
  BY <1>5, OneFuture, SMTT(30)
    DEF IInv, TypeOK, Cleanup, Op, Held, Answered, Contract!LetGo
<1>6. ASSUME NEW f \in Futures,
             \/ \E c \in Callers : SendReturnsNull(c, f)
             \/ Register(f) \/ Submit(f) \/ Withdraw(f) \/ SpuriousWakeup(f)
             \/ (Await(f) \/ AwaitWakes(f)) /\ stage'[f] # "answered"
             \/ CallbackPop(f)
      PROVE  UNCHANGED <<Op, Held, Answered>>
  <2>1. CASE (\E c \in Callers : SendReturnsNull(c, f)) \/ CallbackPop(f)
    <3>1. UNCHANGED <<stage, is_processed>>
      BY <2>1 DEF SendReturnsNull, CallbackPop, futureVars
    <3> QED
      BY <3>1 DEF Op, Held, Answered
  <2>2. CASE \/ Register(f) \/ Submit(f) \/ Withdraw(f) \/ SpuriousWakeup(f)
             \/ (Await(f) \/ AwaitWakes(f)) /\ stage'[f] # "answered"
    <3> DEFINE Before == {"registering", "submitting", "rejected", "held", "waiting", "woken"}
    <3>1. stage \in [Futures -> Stages] /\ UNCHANGED is_processed /\ stage[f] \in Before
      BY <2>2
        DEF IInv, TypeOK, Register, Submit, Withdraw, SpuriousWakeup, Await,
            AwaitWakes, StageFrame, futureVars
    <3>2. \E l \in Before : stage' = [stage EXCEPT ![f] = l]
      BY <2>2, <3>1
        DEF Register, Submit, Withdraw, SpuriousWakeup, Await, AwaitWakes
    <3> QED
      BY <3>1, <3>2 DEF Op, Held, Answered
  <2> QED
    BY <1>6, <2>1, <2>2
<1>7. CASE UNCHANGED vars
  BY <1>7 DEF vars, futureVars, Op, Held, Answered
<1> QED
  BY <1>1, <1>2, <1>3, <1>4, <1>5, <1>6, <1>7
    DEF Next, CallerStep, SendStep, CallbackStep, PumpIdle

(* An operation settles once, Await tells only settled results, and the    *)
(* future is freed by the later of the callback and DataExportCleanup.     *)
THEOREM ContractRefinement == Spec => KeepsContract
<1>1. Init => Contract!ContractInit
  BY DEF Init, Op, Held, Answered, Contract!ContractInit
<1> QED
  BY <1>1, Invariance, ContractStep, PTL DEF Spec, KeepsContract, Contract!ContractSpec
=============================================================================
