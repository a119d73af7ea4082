--------------------------- MODULE SendBatchProofs ---------------------------
(***************************************************************************)
(* Proofs about SendBatch, for any callers, models, settings, size of the  *)
(* queue and number of calls.                                              *)
(*                                                                         *)
(* inf_mutex keeps the queue as it is while a batch is sent (LockInv), so  *)
(* no inference gets lost (EntryInv) although the setting, the mutex that  *)
(* is unlocked by a thread that has not locked it, and the count are       *)
(* shared: a single inference is never sent beside a batch (ModeInv). That *)
(* the loop empties the queue needs its entries to be the first ones       *)
(* (PrefixInv), and the count then goes with it, call by call (CountInv,   *)
(* WholeInv).                                                              *)
(***************************************************************************)
EXTENDS SendBatch, FiniteSetTheorems, TLAPS

Sending == {"serialise", "await"}
Owning == {"format", "single", "append"}
Batching == {"append", "check", "load", "store", "lock", "serialise", "await", "reset"}
Entries == [key : Models \cup {"none"}, infs : Seq(Nat)]

TypeInv ==
  /\ n \in Limits
  /\ slots \in [Slots -> Entries]
  /\ inf_cnt \in Nat /\ inf_mutex \in Threads \cup {"nobody"}
  /\ pc \in [Threads -> Labels]
  /\ own \in [Threads -> [inf : Nat, model : Models \cup {"none"}]]
  /\ at \in [Threads -> Nat]
  /\ message \in [Threads -> Entries]
  /\ counted \in [Threads -> Nat]
  /\ made \in 0..MaxInferences /\ kept \subseteq 1..made
  /\ times \in [1..MaxInferences -> Nat]
  /\ overlapped \in BOOLEAN /\ mixed \in BOOLEAN

\* A single inference is never sent beside a batch.
ModeInv ==
  \A t \in Threads : /\ pc[t] = "single" => n = 1
                     /\ pc[t] \in Batching => n # 1

LockInv ==
  /\ \A t \in Threads : inf_mutex = t <=> pc[t] \in Sending
  /\ \A t \in Threads : pc[t] = "await" => at[t] \in Slots /\ message[t] = slots[at[t]]

At(s, j) == slots[s].infs[j]
Places(s) == 1..Len(slots[s].infs)

EntryInv ==
  /\ \A s, r \in Slots : \A j \in Places(s), k \in Places(r) :
       At(s, j) = At(r, k) => s = r /\ j = k
  /\ \A s \in Slots : \A j \in Places(s) : At(s, j) \in kept /\ times[At(s, j)] = 0
  /\ \A i \in 1..MaxInferences :
       /\ times[i] \in {0, 1} /\ (times[i] = 1 => i \in kept)
       /\ i \in kept /\ times[i] = 0 => \E s \in Slots : \E j \in Places(s) : At(s, j) = i

\* What a call was made with is its own.
OwnInv ==
  \A t \in Threads : pc[t] \in Owning =>
    /\ own[t].inf \in (1..made) \ kept
    /\ \A u \in Threads : pc[u] \in Owning /\ own[u].inf = own[t].inf => u = t

\* The entries are the first slots, or those from the loop's index on.
FirstFrom(k) ==
  \A s \in Slots : /\ s < k => slots[s] = Empty
                   /\ slots[s] # Empty => \A r \in k..s - 1 : slots[r] # Empty

PrefixInv ==
  /\ inf_mutex = "nobody" => FirstFrom(1)
  /\ \A t \in Threads : pc[t] \in Sending => at[t] >= 1 /\ FirstFrom(at[t])

Solo == \A t, u \in Threads : pc[t] # "idle" /\ pc[u] # "idle" => t = u
Queue == Cardinality(Queued)

CountInv ==
  /\ \A t \in Threads :
       pc[t] \notin {"store", "serialise", "await", "reset"} => counted[t] = 0
  /\ ~overlapped =>
       /\ Solo
       /\ (\A t \in Threads : pc[t] = "idle") => inf_cnt = Queue + 1
       /\ \A t \in Threads :
            /\ pc[t] \in Owning => inf_cnt = Queue + 1
            /\ pc[t] \in {"check", "load", "store"} => inf_cnt = Queue
            /\ pc[t] = "store" => counted[t] = Queue
            /\ pc[t] = "reset" => Queued = {}

WholeInv ==
  ~overlapped /\ ~mixed =>
    /\ inf_cnt <= n
    /\ \A t \in Threads :
         /\ pc[t] \in {"load", "store"} => inf_cnt < n
         /\ pc[t] = "lock" => Queue = n
         /\ pc[t] \in Sending \cup {"reset"} => counted[t] + Queue = n

IInv == /\ TypeInv /\ ModeInv /\ LockInv /\ EntryInv /\ OwnInv /\ PrefixInv
        /\ CountInv /\ WholeInv

-----------------------------------------------------------------------------
(* The queue *)

\* Finitely many inferences are queued.
LEMMA QueuedFinite ==
  ASSUME TypeInv
  PROVE  IsFiniteSet(Queued) /\ Queue \in Nat
<1>1. IsFiniteSet(1..made)
  BY FS_Interval DEF TypeInv
<1>2. Queued \in SUBSET (1..made)
  BY DEF Queued
<1> QED
  BY <1>1, <1>2, FS_Subset, FS_CardinalityType DEF Queue

\* What is in an entry is queued.
LEMMA QueuedIs ==
  ASSUME TypeInv, EntryInv
  PROVE  \A i : i \in Queued <=> \E s \in Slots : \E j \in Places(s) : At(s, j) = i
<1>1. \A s \in Slots : \A j \in Places(s) : At(s, j) \in 1..made
  BY DEF TypeInv, EntryInv
<1>2. \A i : i \in Queued <=> i \in 1..made /\ \E s \in Slots : \E j \in Places(s) : At(s, j) = i
  BY DEF Queued, Holds, Places, At
<1> QED
  BY <1>1, <1>2

\* An entry holds something if it is not empty.
LEMMA EmptyHoldsNothing ==
  ASSUME NEW s \in Slots, slots[s] = Empty
  PROVE  Places(s) = {}
BY DEF Empty, Places

\* Appending adds the inference at the end of the entry it is for.
LEMMA AppendEffect ==
  ASSUME TypeInv, NEW t \in Threads, SendDataAppendOutputTensor(t)
  PROVE  /\ slots' \in [Slots -> Entries]
         /\ \E s \in Slots, last \in Nat \ {0} :
              /\ last \notin Places(s)
              /\ slots'[s] # Empty /\ \A r \in Slots \ {s} : slots'[r] = slots[r]
              /\ \A r \in 1..s - 1 : slots[r] # Empty
              /\ Places(s)' = Places(s) \cup {last} /\ At(s, last)' = own[t].inf
              /\ \A j \in Places(s) : At(s, j)' = At(s, j)
              /\ \A r \in Slots \ {s} : Places(r)' = Places(r) /\ \A j : At(r, j)' = At(r, j)
<1> DEFINE x == own[t].inf
<1>1. PICK s \in Target(own[t].model) :
        slots' = [slots EXCEPT ![s] = [key |-> own[t].model, infs |-> Append(@.infs, x)]]
  BY DEF SendDataAppendOutputTensor
<1>2. s \in Slots /\ \A r \in 1..s - 1 : slots[r] # Empty
  BY DEF Target
<1> DEFINE q == slots[s].infs
<1>3. q \in Seq(Nat) /\ x \in Nat /\ own[t].model \in Models \cup {"none"}
  BY <1>2 DEF TypeInv, Entries
<1>4. slots'[s] = [key |-> own[t].model, infs |-> Append(q, x)]
  BY <1>1, <1>2 DEF TypeInv
<1>5. \A r \in Slots \ {s} : slots'[r] = slots[r]
  BY <1>1 DEF TypeInv
<1> PICK last \in Nat \ {0} : last = Len(q) + 1
  BY <1>3
<1>6. /\ Append(q, x) \in Seq(Nat) /\ Len(Append(q, x)) = last
      /\ Append(q, x)[last] = x /\ \A j \in 1..Len(q) : Append(q, x)[j] = q[j]
  BY <1>3
<1>7. slots' \in [Slots -> Entries]
  BY <1>1, <1>2, <1>3, <1>6 DEF TypeInv, Entries
<1>8. last \notin Places(s) /\ Places(s)' = Places(s) \cup {last}
  BY <1>3, <1>4, <1>6 DEF Places
<1>9. At(s, last)' = x /\ \A j \in Places(s) : At(s, j)' = At(s, j)
  BY <1>4, <1>6 DEF At, Places
<1>10. slots'[s] # Empty
  <2>1. slots'[s].infs # <<>>
    BY <1>3, <1>4, <1>6
  <2> QED
    BY <2>1 DEF Empty
<1>11. \A r \in Slots \ {s} : Places(r)' = Places(r) /\ \A j : At(r, j)' = At(r, j)
  BY <1>5 DEF Places, At
<1> QED
  BY <1>2, <1>5, <1>6, <1>7, <1>8, <1>9, <1>10, <1>11

\* A message that is settled empties its entry, whose inferences were sent.
LEMMA AwaitEffect ==
  ASSUME TypeInv, LockInv, NEW t \in Threads, Await(t)
  PROVE  /\ slots' \in [Slots -> Entries] /\ times' \in [1..MaxInferences -> Nat]
         /\ \E s \in Slots :
              /\ s = at[t] /\ Len(slots[s].infs) \in Nat
              /\ slots'[s] = Empty /\ \A r \in Slots \ {s} : slots'[r] = slots[r]
              /\ Places(s)' = {}
              /\ \A r \in Slots \ {s} : Places(r)' = Places(r) /\ \A j : At(r, j)' = At(r, j)
              /\ \A i \in 1..MaxInferences :
                   times'[i] = times[i] + (IF \E j \in Places(s) : At(s, j) = i THEN 1 ELSE 0)
              /\ counted' = [counted EXCEPT ![t] = @ + Len(slots[s].infs)]
<1>1. PICK s \in Slots : s = at[t]
  BY DEF Await, LockInv
<1>2. message[t] = slots[s]
  BY <1>1 DEF Await, LockInv
<1>3. slots' = [slots EXCEPT ![s] = Empty] /\ Empty \in Entries
  BY <1>1 DEF Await, Empty, Entries
<1>4. slots' \in [Slots -> Entries] /\ slots'[s] = Empty
      /\ \A r \in Slots \ {s} : slots'[r] = slots[r]
  BY <1>3 DEF TypeInv
<1>5. Len(slots[s].infs) \in Nat
  BY DEF TypeInv, Entries
<1>6. /\ times' \in [1..MaxInferences -> Nat]
      /\ \A i \in 1..MaxInferences :
           times'[i] = times[i] + (IF \E j \in Places(s) : At(s, j) = i THEN 1 ELSE 0)
  <2>1. times' = [i \in 1..MaxInferences |->
                   times[i] + (IF \E j \in Places(s) : At(s, j) = i THEN 1 ELSE 0)]
    BY <1>2 DEF TypeInv, Await, Places, At
  <2>2. \A i \in 1..MaxInferences : times[i] \in Nat
    BY DEF TypeInv
  <2> QED
    BY <2>1, <2>2
<1>7. counted' = [counted EXCEPT ![t] = @ + Len(slots[s].infs)]
  BY <1>2 DEF Await
<1>8. Places(s)' = {}
  BY <1>4 DEF Places, Empty
<1>9. \A r \in Slots \ {s} : Places(r)' = Places(r) /\ \A j : At(r, j)' = At(r, j)
  BY <1>4 DEF Places, At
<1> QED
  BY <1>1, <1>4, <1>5, <1>6, <1>7, <1>8, <1>9

\* As QueuedIs, after a step.
LEMMA QueuedIsNext ==
  ASSUME TypeInv', EntryInv'
  PROVE  \A i : i \in Queued' <=> \E s \in Slots : \E j \in Places(s)' : At(s, j)' = i
<1>1. \A s \in Slots : \A j \in Places(s)' : At(s, j)' \in 1..made'
  BY DEF TypeInv, EntryInv
<1>2. \A i : i \in Queued' <=> i \in 1..made' /\ \E s \in Slots : \E j \in Places(s)' : At(s, j)' = i
  BY DEF Queued, Holds, Places, At
<1> QED
  BY <1>1, <1>2

\* A step that leaves the slots alone leaves what is queued.
LEMMA QueuedKept ==
  ASSUME TypeInv, EntryInv, TypeInv', EntryInv', UNCHANGED slots
  PROVE  Queued' = Queued /\ Queue' = Queue
<1>1. \A s \in Slots : Places(s)' = Places(s) /\ \A j : At(s, j)' = At(s, j)
  BY DEF Places, At
<1>2. Queued' = Queued
  BY <1>1, QueuedIs, QueuedIsNext
<1> QED
  BY <1>2 DEF Queue

\* An inference that is appended is new in the queue.
LEMMA QueueAppend ==
  ASSUME TypeInv, EntryInv, OwnInv, TypeInv', EntryInv', NEW t \in Threads,
         SendDataAppendOutputTensor(t)
  PROVE  Queue' = Queue + 1
<1>1. PICK x : x = own[t].inf
  OBVIOUS
<1>2. x \notin kept
  BY <1>1 DEF SendDataAppendOutputTensor, OwnInv, Owning
<1>3. PICK s \in Slots, last \in Nat \ {0} :
        /\ Places(s)' = Places(s) \cup {last} /\ At(s, last)' = x
        /\ \A j \in Places(s) : At(s, j)' = At(s, j)
        /\ \A r \in Slots \ {s} : Places(r)' = Places(r) /\ \A j : At(r, j)' = At(r, j)
  BY <1>1, AppendEffect
<1>4. x \notin Queued
  BY <1>2, QueuedIs DEF EntryInv
<1>5. \A i : i \in Queued' <=> i \in Queued \/ i = x
  BY <1>3, QueuedIs, QueuedIsNext
<1>6. Queued' = Queued \cup {x}
  BY <1>5
<1> QED
  BY <1>4, <1>6, QueuedFinite, FS_AddElement DEF Queue

\* A message takes as many inferences out of the queue as are counted for it.
LEMMA QueueAwait ==
  ASSUME TypeInv, LockInv, EntryInv, TypeInv', EntryInv', NEW t \in Threads, Await(t)
  PROVE  \E k \in Nat : Queue' = Queue - k /\ counted' = [counted EXCEPT ![t] = @ + k]
<1>1. PICK s \in Slots :
        /\ Len(slots[s].infs) \in Nat /\ Places(s)' = {}
        /\ \A r \in Slots \ {s} : Places(r)' = Places(r) /\ \A j : At(r, j)' = At(r, j)
        /\ counted' = [counted EXCEPT ![t] = @ + Len(slots[s].infs)]
  BY AwaitEffect
<1> DEFINE sent == { At(s, j) : j \in Places(s) }  f == [j \in Places(s) |-> At(s, j)]
<1>2. f \in Bijection(Places(s), sent)
  <2>1. f \in Injection(Places(s), sent)
    BY DEF EntryInv, Injection, IsInjective
  <2>2. f \in Surjection(Places(s), sent)
    BY DEF Surjection
  <2> QED
    BY <2>1, <2>2 DEF Bijection
<1>3. IsFiniteSet(Places(s)) /\ Cardinality(Places(s)) = Len(slots[s].infs)
  BY <1>1, FS_Interval DEF Places
<1>4. IsFiniteSet(sent) /\ Cardinality(sent) = Len(slots[s].infs)
  BY <1>2, <1>3, FS_Bijection DEF ExistsBijection
<1>5. \A i : i \in sent <=> \E j \in Places(s) : At(s, j) = i
  OBVIOUS
<1> HIDE DEF sent, f
<1>6. sent \subseteq Queued
  BY <1>5, QueuedIs
<1>7. \A i : i \in Queued' <=> i \in Queued /\ i \notin sent
  BY <1>1, <1>5, QueuedIs, QueuedIsNext DEF EntryInv
<1>8. Queued' = Queued \ sent /\ Queued \cap sent = sent
  BY <1>6, <1>7
<1>9. Cardinality(Queued \ sent) = Cardinality(Queued) - Cardinality(Queued \cap sent)
  BY QueuedFinite, FS_Difference
<1>10. Queue' = Queue - Len(slots[s].infs)
  BY <1>4, <1>8, <1>9 DEF Queue
<1> QED
  BY <1>1, <1>10

\* Where the loop of a batch ends every slot is empty.
LEMMA SlotsEmptied ==
  ASSUME TypeInv, PrefixInv, NEW t \in Threads, Unlock(t)
  PROVE  \A s \in Slots : slots[s] = Empty
<1>1. at[t] \in Nat /\ at[t] >= 1 /\ FirstFrom(at[t])
  BY DEF TypeInv, PrefixInv, Unlock, Sending
<1>2. \A s \in Slots : s = at[t] => slots[s] = Empty
  BY DEF Unlock, BatchEnds
<1>3. \A s \in Slots : s \in Nat /\ (s > at[t] => at[t] \in Slots)
  BY <1>1, BoundsAssumption DEF Slots
<1>4. ASSUME NEW s \in Slots
      PROVE  slots[s] = Empty
  <2>1. CASE s < at[t]
    BY <1>1, <2>1 DEF FirstFrom
  <2>2. CASE s > at[t]
    <3>1. at[t] \in at[t]..s - 1
      BY <1>1, <1>3, <2>2
    <3> QED
      BY <1>1, <1>2, <1>3, <2>2, <3>1 DEF FirstFrom
  <2> QED
    BY <1>1, <1>2, <1>3, <2>1, <2>2
<1> QED
  BY <1>4

\* So nothing is queued any more.
LEMMA BatchEmptied ==
  ASSUME TypeInv, EntryInv, PrefixInv, NEW t \in Threads, Unlock(t)
  PROVE  Queued = {}
<1>1. \A s \in Slots : Places(s) = {}
  BY SlotsEmptied, EmptyHoldsNothing
<1> QED
  BY <1>1, QueuedIs

-----------------------------------------------------------------------------
(* Every step keeps each part of the invariant. *)

\* Every variable keeps its type.
LEMMA TypeStep ==
  ASSUME TypeInv, LockInv, OwnInv, Next
  PROVE  TypeInv'
<1> USE ThreadsAssumption DEF TypeInv, Labels, batchVars, callVars, pastVars
<1>1. ASSUME NEW t \in Threads, Call(t)
      PROVE  TypeInv'
  <2>1. PICK m \in Models : own' = [own EXCEPT ![t] = [inf |-> made', model |-> m]]
    BY <1>1 DEF Call
  <2>2. made' \in 0..MaxInferences /\ kept' \subseteq 1..made' /\ made' \in Nat
    BY <1>1, BoundsAssumption DEF Call
  <2> QED
    BY <1>1, <2>1, <2>2 DEF Call, Goes
<1>2. ASSUME NEW t \in Threads, Format(t)
      PROVE  TypeInv'
  BY <1>2 DEF Format, Goes
<1>3. ASSUME NEW t \in Threads, SendSingle(t)
      PROVE  TypeInv'
  <2>1. own[t].inf \in 1..made /\ own[t].inf \in 1..MaxInferences
    BY <1>3, BoundsAssumption DEF SendSingle, OwnInv, Owning
  <2>2. times' \in [1..MaxInferences -> Nat]
    BY <1>3, <2>1 DEF SendSingle
  <2>3. kept' \subseteq 1..made'
    BY <1>3, <2>1 DEF SendSingle
  <2> QED
    BY <1>3, <2>2, <2>3 DEF SendSingle, Goes
<1>4. ASSUME NEW t \in Threads, SendDataAppendOutputTensor(t)
      PROVE  TypeInv'
  <2>1. own[t].inf \in 1..made
    BY <1>4 DEF SendDataAppendOutputTensor, OwnInv, Owning
  <2>2. slots' \in [Slots -> Entries]
    BY <1>4, AppendEffect
  <2> QED
    BY <1>4, <2>1, <2>2 DEF SendDataAppendOutputTensor, Goes
<1>5. ASSUME NEW t \in Threads, AppendQueueFull(t)
      PROVE  TypeInv'
  BY <1>5 DEF AppendQueueFull, Goes
<1>6. ASSUME NEW t \in Threads, Check(t)
      PROVE  TypeInv'
  BY <1>6 DEF Check, Goes
<1>7. ASSUME NEW t \in Threads, LoadCount(t)
      PROVE  TypeInv'
  BY <1>7 DEF LoadCount, Goes
<1>8. ASSUME NEW t \in Threads, StoreCount(t)
      PROVE  TypeInv'
  BY <1>8 DEF StoreCount, Goes
<1>9. ASSUME NEW t \in Threads, Lock(t)
      PROVE  TypeInv'
  BY <1>9 DEF Lock, Goes
<1>10. ASSUME NEW t \in Threads, Serialise(t)
      PROVE  TypeInv'
  <2>1. at[t] \in Slots
    BY <1>10 DEF Serialise, BatchEnds
  <2> QED
    BY <1>10, <2>1 DEF Serialise, Goes
<1>11. ASSUME NEW t \in Threads, Await(t)
      PROVE  TypeInv'
  <2>1. PICK k \in Nat : counted' = [counted EXCEPT ![t] = @ + k]
    BY <1>11, AwaitEffect
  <2>4. slots' \in [Slots -> Entries] /\ times' \in [1..MaxInferences -> Nat]
    BY <1>11, AwaitEffect
  <2>2. Empty \in Entries
    BY DEF Empty, Entries
  <2> HIDE DEF TypeInv
  <2>5. counted' \in [Threads -> Nat]
    BY <2>1 DEF TypeInv
  <2>6. at' \in [Threads -> Nat] /\ message' \in [Threads -> Entries]
    BY <1>11, <2>2 DEF Await, TypeInv
  <2>3. counted' \in [Threads -> Nat] /\ at' \in [Threads -> Nat] /\ message' \in [Threads -> Entries]
    BY <2>5, <2>6
  <2> QED
    BY <1>11, <2>3, <2>4 DEF Await, Goes, TypeInv
<1>12. ASSUME NEW t \in Threads, Unlock(t)
      PROVE  TypeInv'
  BY <1>12 DEF Unlock, Goes
<1>13. ASSUME NEW t \in Threads, Reset(t)
      PROVE  TypeInv'
  BY <1>13 DEF Reset, Goes
<1>14. CASE SetInferencePerMessage
  BY <1>14 DEF SetInferencePerMessage
<1> QED
  BY <1>1, <1>2, <1>3, <1>4, <1>5, <1>6, <1>7, <1>8, <1>9, <1>10, <1>11, <1>12, <1>13, <1>14
    DEF Next, CallStep

\* The setting changes between calls only.
LEMMA ModeStep ==
  ASSUME TypeInv, ModeInv, Next
  PROVE  ModeInv'
<1> USE DEF TypeInv, ModeInv, Batching, batchVars, callVars, pastVars
<1>1. ASSUME NEW t \in Threads, Call(t)
      PROVE  ModeInv'
  BY <1>1 DEF Call, Goes
<1>2. ASSUME NEW t \in Threads, Format(t)
      PROVE  ModeInv'
  BY <1>2 DEF Format, Goes
<1>3. ASSUME NEW t \in Threads, SendSingle(t)
      PROVE  ModeInv'
  BY <1>3 DEF SendSingle, Goes
<1>4. ASSUME NEW t \in Threads, SendDataAppendOutputTensor(t)
      PROVE  ModeInv'
  BY <1>4 DEF SendDataAppendOutputTensor, Goes
<1>5. ASSUME NEW t \in Threads, AppendQueueFull(t)
      PROVE  ModeInv'
  BY <1>5 DEF AppendQueueFull, Goes
<1>6. ASSUME NEW t \in Threads, Check(t)
      PROVE  ModeInv'
  BY <1>6 DEF Check, Goes
<1>7. ASSUME NEW t \in Threads, LoadCount(t)
      PROVE  ModeInv'
  BY <1>7 DEF LoadCount, Goes
<1>8. ASSUME NEW t \in Threads, StoreCount(t)
      PROVE  ModeInv'
  BY <1>8 DEF StoreCount, Goes
<1>9. ASSUME NEW t \in Threads, Lock(t)
      PROVE  ModeInv'
  BY <1>9 DEF Lock, Goes
<1>10. ASSUME NEW t \in Threads, Serialise(t)
      PROVE  ModeInv'
  BY <1>10 DEF Serialise, Goes
<1>11. ASSUME NEW t \in Threads, Await(t)
      PROVE  ModeInv'
  BY <1>11 DEF Await, Goes
<1>12. ASSUME NEW t \in Threads, Unlock(t)
      PROVE  ModeInv'
  BY <1>12 DEF Unlock, Goes
<1>13. ASSUME NEW t \in Threads, Reset(t)
      PROVE  ModeInv'
  BY <1>13 DEF Reset, Goes
<1>14. CASE SetInferencePerMessage
  BY <1>14 DEF SetInferencePerMessage
<1> QED
  BY <1>1, <1>2, <1>3, <1>4, <1>5, <1>6, <1>7, <1>8, <1>9, <1>10, <1>11, <1>12, <1>13, <1>14
    DEF Next, CallStep

\* Whoever sends a batch holds the mutex, and nobody else touches the queue.
LEMMA LockStep ==
  ASSUME TypeInv, ModeInv, LockInv, Next
  PROVE  LockInv'
<1> USE ThreadsAssumption DEF TypeInv, ModeInv, Batching, LockInv, Sending, batchVars, callVars, pastVars
<1>1. ASSUME NEW t \in Threads, Call(t)
      PROVE  LockInv'
  BY <1>1 DEF Call, Goes
<1>2. ASSUME NEW t \in Threads, Format(t)
      PROVE  LockInv'
  BY <1>2 DEF Format, Goes
<1>3. ASSUME NEW t \in Threads, SendSingle(t)
      PROVE  LockInv'
  BY <1>3 DEF SendSingle, Goes
<1>4. ASSUME NEW t \in Threads, SendDataAppendOutputTensor(t)
      PROVE  LockInv'
  BY <1>4 DEF SendDataAppendOutputTensor, Goes
<1>5. ASSUME NEW t \in Threads, AppendQueueFull(t)
      PROVE  LockInv'
  BY <1>5 DEF AppendQueueFull, Goes
<1>6. ASSUME NEW t \in Threads, Check(t)
      PROVE  LockInv'
  BY <1>6 DEF Check, Goes
<1>7. ASSUME NEW t \in Threads, LoadCount(t)
      PROVE  LockInv'
  BY <1>7 DEF LoadCount, Goes
<1>8. ASSUME NEW t \in Threads, StoreCount(t)
      PROVE  LockInv'
  BY <1>8 DEF StoreCount, Goes
<1>9. ASSUME NEW t \in Threads, Lock(t)
      PROVE  LockInv'
  BY <1>9 DEF Lock, Goes
<1>10. ASSUME NEW t \in Threads, Serialise(t)
      PROVE  LockInv'
  BY <1>10 DEF Serialise, Goes, BatchEnds
<1>11. ASSUME NEW t \in Threads, Await(t)
      PROVE  LockInv'
  BY <1>11 DEF Await, Goes
<1>12. ASSUME NEW t \in Threads, Unlock(t)
      PROVE  LockInv'
  BY <1>12 DEF Unlock, Goes
<1>13. ASSUME NEW t \in Threads, Reset(t)
      PROVE  LockInv'
  BY <1>13 DEF Reset, Goes
<1>14. CASE SetInferencePerMessage
  BY <1>14 DEF SetInferencePerMessage
<1> QED
  BY <1>1, <1>2, <1>3, <1>4, <1>5, <1>6, <1>7, <1>8, <1>9, <1>10, <1>11, <1>12, <1>13, <1>14
    DEF Next, CallStep

\* What a call was made with stays its own until the library takes it.
LEMMA OwnStep ==
  ASSUME TypeInv, OwnInv, Next
  PROVE  OwnInv'
<1> USE DEF TypeInv, OwnInv, Owning, batchVars, callVars, pastVars
<1>1. ASSUME NEW t \in Threads, Call(t)
      PROVE  OwnInv'
  BY <1>1 DEF Call, Goes
<1>2. ASSUME NEW t \in Threads, Format(t)
      PROVE  OwnInv'
  BY <1>2 DEF Format, Goes
<1>3. ASSUME NEW t \in Threads, SendSingle(t)
      PROVE  OwnInv'
  BY <1>3 DEF SendSingle, Goes
<1>4. ASSUME NEW t \in Threads, SendDataAppendOutputTensor(t)
      PROVE  OwnInv'
  BY <1>4 DEF SendDataAppendOutputTensor, Goes
<1>5. ASSUME NEW t \in Threads, AppendQueueFull(t)
      PROVE  OwnInv'
  BY <1>5 DEF AppendQueueFull, Goes
<1>6. ASSUME NEW t \in Threads, Check(t)
      PROVE  OwnInv'
  BY <1>6 DEF Check, Goes
<1>7. ASSUME NEW t \in Threads, LoadCount(t)
      PROVE  OwnInv'
  BY <1>7 DEF LoadCount, Goes
<1>8. ASSUME NEW t \in Threads, StoreCount(t)
      PROVE  OwnInv'
  BY <1>8 DEF StoreCount, Goes
<1>9. ASSUME NEW t \in Threads, Lock(t)
      PROVE  OwnInv'
  BY <1>9 DEF Lock, Goes
<1>10. ASSUME NEW t \in Threads, Serialise(t)
      PROVE  OwnInv'
  BY <1>10 DEF Serialise, Goes
<1>11. ASSUME NEW t \in Threads, Await(t)
      PROVE  OwnInv'
  BY <1>11 DEF Await, Goes
<1>12. ASSUME NEW t \in Threads, Unlock(t)
      PROVE  OwnInv'
  BY <1>12 DEF Unlock, Goes
<1>13. ASSUME NEW t \in Threads, Reset(t)
      PROVE  OwnInv'
  BY <1>13 DEF Reset, Goes
<1>14. CASE SetInferencePerMessage
  BY <1>14 DEF SetInferencePerMessage
<1> QED
  BY <1>1, <1>2, <1>3, <1>4, <1>5, <1>6, <1>7, <1>8, <1>9, <1>10, <1>11, <1>12, <1>13, <1>14
    DEF Next, CallStep

\* No inference is lost or doubled.
LEMMA EntryStep ==
  ASSUME TypeInv, LockInv, OwnInv, EntryInv, Next
  PROVE  EntryInv'
<1> USE DEF batchVars, callVars, pastVars
<1>1. ASSUME NEW t \in Threads, Call(t)
      PROVE  EntryInv'
  BY <1>1 DEF Call, EntryInv, Places, At
<1>2. ASSUME NEW t \in Threads, Format(t)
      PROVE  EntryInv'
  BY <1>2 DEF Format, EntryInv, Places, At
<1>3. ASSUME NEW t \in Threads, SendSingle(t)
      PROVE  EntryInv'
  <2> DEFINE x == own[t].inf
  <2>1. x \in 1..made /\ x \notin kept /\ x \in 1..MaxInferences
    BY <1>3, BoundsAssumption DEF SendSingle, OwnInv, Owning, TypeInv
  <2>2. kept' = kept \cup {x} /\ UNCHANGED slots
    BY <1>3 DEF SendSingle
  <2>3. times[x] = 0 /\ times'[x] = 1 /\ \A i \in (1..MaxInferences) \ {x} : times'[i] = times[i]
    BY <1>3, <2>1 DEF SendSingle, EntryInv, TypeInv
  <2>4. \A s \in Slots : Places(s)' = Places(s) /\ \A j : At(s, j)' = At(s, j)
    BY <2>2 DEF Places, At
  <2>5. \A s \in Slots : \A j \in Places(s) : At(s, j) \in kept /\ At(s, j) \in 1..MaxInferences
    <3>1. kept \subseteq 1..MaxInferences
      BY BoundsAssumption DEF TypeInv
    <3> QED
      BY <3>1 DEF EntryInv
  <2> HIDE DEF x
  <2> QED
    BY <2>1, <2>2, <2>3, <2>4, <2>5 DEF EntryInv
<1>4. ASSUME NEW t \in Threads, SendDataAppendOutputTensor(t)
      PROVE  EntryInv'
  <2> DEFINE x == own[t].inf
  <2>1. x \in 1..made /\ x \notin kept /\ x \in 1..MaxInferences
    BY <1>4, BoundsAssumption DEF SendDataAppendOutputTensor, OwnInv, Owning, TypeInv
  <2>2. kept' = kept \cup {x} /\ UNCHANGED times
    BY <1>4 DEF SendDataAppendOutputTensor
  <2>3. PICK s \in Slots, last \in Nat \ {0} :
          /\ last \notin Places(s)
          /\ Places(s)' = Places(s) \cup {last} /\ At(s, last)' = x
          /\ \A j \in Places(s) : At(s, j)' = At(s, j)
          /\ \A r \in Slots \ {s} : Places(r)' = Places(r) /\ \A j : At(r, j)' = At(r, j)
    BY <1>4, AppendEffect
  <2>4. times[x] = 0
    BY <2>1 DEF EntryInv
  <2> HIDE DEF x
  <2>5. \A r \in Slots : \A j \in Places(r)' :
          \/ j \in Places(r) /\ At(r, j)' = At(r, j)
          \/ r = s /\ j = last /\ At(r, j)' = x
    BY <2>3
  <2>6. \A r \in Slots : \A j \in Places(r) : At(r, j) # x /\ j \in Places(r)' /\ At(r, j)' = At(r, j)
    BY <2>1, <2>3 DEF EntryInv
  <2>7. \A r, q \in Slots : \A j \in Places(r)', k \in Places(q)' :
          At(r, j)' = At(q, k)' => r = q /\ j = k
    BY <2>5, <2>6 DEF EntryInv
  <2>8. \A r \in Slots : \A j \in Places(r)' : At(r, j)' \in kept' /\ times'[At(r, j)'] = 0
    BY <2>2, <2>4, <2>5 DEF EntryInv
  <2>9. \A i \in 1..MaxInferences :
          /\ times'[i] \in {0, 1} /\ (times'[i] = 1 => i \in kept')
          /\ i \in kept' /\ times'[i] = 0 => \E r \in Slots : \E j \in Places(r)' : At(r, j)' = i
    BY <2>2, <2>3, <2>6 DEF EntryInv
  <2> QED
    BY <2>7, <2>8, <2>9 DEF EntryInv
<1>5. ASSUME NEW t \in Threads, AppendQueueFull(t)
      PROVE  EntryInv'
  BY <1>5 DEF AppendQueueFull, EntryInv, Places, At
<1>6. ASSUME NEW t \in Threads, Check(t)
      PROVE  EntryInv'
  BY <1>6 DEF Check, EntryInv, Places, At
<1>7. ASSUME NEW t \in Threads, LoadCount(t)
      PROVE  EntryInv'
  BY <1>7 DEF LoadCount, EntryInv, Places, At
<1>8. ASSUME NEW t \in Threads, StoreCount(t)
      PROVE  EntryInv'
  BY <1>8 DEF StoreCount, EntryInv, Places, At
<1>9. ASSUME NEW t \in Threads, Lock(t)
      PROVE  EntryInv'
  BY <1>9 DEF Lock, EntryInv, Places, At
<1>10. ASSUME NEW t \in Threads, Serialise(t)
      PROVE  EntryInv'
  BY <1>10 DEF Serialise, EntryInv, Places, At
<1>11. ASSUME NEW t \in Threads, Await(t)
      PROVE  EntryInv'
  <2>1. PICK s \in Slots :
          /\ Places(s)' = {}
          /\ \A r \in Slots \ {s} : Places(r)' = Places(r) /\ \A j : At(r, j)' = At(r, j)
          /\ \A i \in 1..MaxInferences :
               times'[i] = times[i] + (IF \E j \in Places(s) : At(s, j) = i THEN 1 ELSE 0)
    BY <1>11, AwaitEffect, ZenonT(30)
  <2>2. kept' = kept
    BY <1>11 DEF Await
  <2>3. \A r \in Slots : \A j \in Places(r) : At(r, j) \in 1..MaxInferences
    <3>1. kept \subseteq 1..MaxInferences
      BY BoundsAssumption DEF TypeInv
    <3> QED
      BY <3>1 DEF EntryInv
  <2>4. \A r \in Slots : \A j \in Places(r)' : r # s /\ j \in Places(r) /\ At(r, j)' = At(r, j)
    BY <2>1
  <2>5. \A r, q \in Slots : \A j \in Places(r)', k \in Places(q)' :
          At(r, j)' = At(q, k)' => r = q /\ j = k
    BY <2>4 DEF EntryInv
  <2>6. \A i \in 1..MaxInferences :
          /\ (\E j \in Places(s) : At(s, j) = i) => i \in kept /\ times[i] = 0 /\ times'[i] = 1
          /\ ~(\E j \in Places(s) : At(s, j) = i) => times'[i] = times[i]
    BY <2>1 DEF EntryInv
  <2>7. \A r \in Slots : \A j \in Places(r)' : At(r, j)' \in kept' /\ times'[At(r, j)'] = 0
    BY <2>1, <2>2, <2>3, <2>4, <2>6 DEF EntryInv
  <2>8. \A i \in 1..MaxInferences :
          /\ times'[i] \in {0, 1} /\ (times'[i] = 1 => i \in kept')
          /\ i \in kept' /\ times'[i] = 0 => \E r \in Slots : \E j \in Places(r)' : At(r, j)' = i
    BY <2>1, <2>2, <2>6 DEF EntryInv
  <2> QED
    BY <2>5, <2>7, <2>8 DEF EntryInv
<1>12. ASSUME NEW t \in Threads, Unlock(t)
      PROVE  EntryInv'
  BY <1>12 DEF Unlock, EntryInv, Places, At
<1>13. ASSUME NEW t \in Threads, Reset(t)
      PROVE  EntryInv'
  BY <1>13 DEF Reset, EntryInv, Places, At
<1>14. CASE SetInferencePerMessage
  BY <1>14 DEF SetInferencePerMessage, EntryInv, Places, At
<1> QED
  BY <1>1, <1>2, <1>3, <1>4, <1>5, <1>6, <1>7, <1>8, <1>9, <1>10, <1>11, <1>12, <1>13, <1>14
    DEF Next, CallStep

\* The entries stay the first ones, behind the index of a batch.
LEMMA PrefixStep ==
  ASSUME TypeInv, ModeInv, LockInv, PrefixInv, Next
  PROVE  PrefixInv'
<1> USE ThreadsAssumption, BoundsAssumption DEF TypeInv, LockInv, Sending, PrefixInv, FirstFrom, Slots, batchVars, callVars, pastVars
<1>1. ASSUME NEW t \in Threads, Call(t)
      PROVE  PrefixInv'
  BY <1>1 DEF Call, Goes
<1>2. ASSUME NEW t \in Threads, Format(t)
      PROVE  PrefixInv'
  BY <1>2 DEF Format, Goes
<1>3. ASSUME NEW t \in Threads, SendSingle(t)
      PROVE  PrefixInv'
  <2>1. inf_mutex = "nobody"
    BY <1>3 DEF SendSingle, ModeInv, Batching
  <2> QED
    BY <1>3, <2>1 DEF SendSingle, Goes
<1>4. ASSUME NEW t \in Threads, SendDataAppendOutputTensor(t)
      PROVE  PrefixInv'
  <2>1. PICK s \in Slots :
          /\ slots'[s] # Empty /\ \A r \in Slots \ {s} : slots'[r] = slots[r]
          /\ \A r \in 1..s - 1 : slots[r] # Empty
    BY <1>4, AppendEffect
  <2>2. FirstFrom(1)
    BY <1>4 DEF SendDataAppendOutputTensor
  <2>3. ASSUME NEW q \in Slots, slots'[q] # Empty, NEW r \in 1..q - 1
        PROVE  slots'[r] # Empty
    BY <2>1, <2>2, <2>3
  <2>4. FirstFrom(1)'
    BY <2>3
  <2>5. \A u \in Threads : pc'[u] \notin Sending
    BY <1>4 DEF SendDataAppendOutputTensor, Goes
  <2> QED
    BY <2>4, <2>5
<1>5. ASSUME NEW t \in Threads, AppendQueueFull(t)
      PROVE  PrefixInv'
  BY <1>5 DEF AppendQueueFull, Goes
<1>6. ASSUME NEW t \in Threads, Check(t)
      PROVE  PrefixInv'
  BY <1>6 DEF Check, Goes
<1>7. ASSUME NEW t \in Threads, LoadCount(t)
      PROVE  PrefixInv'
  BY <1>7 DEF LoadCount, Goes
<1>8. ASSUME NEW t \in Threads, StoreCount(t)
      PROVE  PrefixInv'
  BY <1>8 DEF StoreCount, Goes
<1>9. ASSUME NEW t \in Threads, Lock(t)
      PROVE  PrefixInv'
  BY <1>9 DEF Lock, Goes
<1>10. ASSUME NEW t \in Threads, Serialise(t)
      PROVE  PrefixInv'
  BY <1>10 DEF Serialise, Goes
<1>11. ASSUME NEW t \in Threads, Await(t)
      PROVE  PrefixInv'
  <2>1. PICK s \in Slots : /\ s = at[t] /\ slots'[s] = Empty
                           /\ \A r \in Slots \ {s} : slots'[r] = slots[r]
    BY <1>11, AwaitEffect, ZenonT(30)
  <2>2. FirstFrom(s) /\ inf_mutex = t
    BY <1>11, <2>1 DEF Await
  <2>3. ASSUME NEW q \in Slots
        PROVE  /\ q < s + 1 => slots'[q] = Empty
               /\ slots'[q] # Empty => \A r \in s + 1..q - 1 : slots'[r] # Empty
    <3> HIDE DEF TypeInv, LockInv, PrefixInv
    <3>1. CASE q <= s
      <4>1. q # s => slots'[q] = slots[q] /\ q < s
        BY <2>1, <3>1
      <4>2. slots'[q] = Empty
        BY <2>1, <2>2, <4>1
      <4> QED
        BY <3>1, <4>2
    <3>2. CASE q > s
      <4>1. slots'[q] = slots[q] /\ \A r \in s + 1..q - 1 : slots'[r] = slots[r]
        BY <2>1, <3>2
      <4> QED
        BY <2>2, <3>2, <4>1
    <3> QED
      BY <3>1, <3>2
  <2>4. at'[t] = s + 1 /\ UNCHANGED inf_mutex
    BY <1>11, <2>1 DEF Await
  <2>5. \A u \in Threads : pc'[u] \in Sending => u = t
    BY <1>11, <2>2 DEF Await, Goes
  <2> QED
    BY <2>2, <2>3, <2>4, <2>5
<1>12. ASSUME NEW t \in Threads, Unlock(t)
      PROVE  PrefixInv'
  <2>1. \A s \in Slots : slots'[s] = Empty
    BY <1>12, SlotsEmptied DEF Unlock
  <2>2. \A u \in Threads : pc'[u] \notin Sending
    BY <1>12 DEF Unlock, Goes
  <2> QED
    BY <2>1, <2>2
<1>13. ASSUME NEW t \in Threads, Reset(t)
      PROVE  PrefixInv'
  BY <1>13 DEF Reset, Goes
<1>14. CASE SetInferencePerMessage
  BY <1>14 DEF SetInferencePerMessage
<1> QED
  BY <1>1, <1>2, <1>3, <1>4, <1>5, <1>6, <1>7, <1>8, <1>9, <1>10, <1>11, <1>12, <1>13, <1>14
    DEF Next, CallStep

\* The count goes with the queue, unless calls overlap.
LEMMA CountStep ==
  ASSUME TypeInv, ModeInv, LockInv, EntryInv, OwnInv, PrefixInv, TypeInv', EntryInv', CountInv, Next
  PROVE  CountInv'
<1> USE QueuedFinite DEF TypeInv, Labels, CountInv, Solo, Owning, batchVars, callVars, pastVars
<1>1. ASSUME NEW t \in Threads, Call(t)
      PROVE  CountInv'
  <2>1. Queued' = Queued /\ Queue' = Queue
    BY <1>1, QueuedKept DEF Call
  <2>2. ~overlapped' => ~overlapped /\ \A u \in Threads : pc[u] = "idle"
    BY <1>1 DEF Call
  <2>3. /\ pc' = [pc EXCEPT ![t] = "format"] /\ UNCHANGED <<inf_cnt, counted>>
        /\ pc[t] = "idle"
    BY <1>1 DEF Call, Goes
  <2>4. \A u \in Threads \ {t} : pc'[u] = pc[u]
    BY <2>3
  <2>5. pc'[t] = "format"
    BY <2>3
  <2>6. ASSUME ~overlapped'
        PROVE  \A u \in Threads \ {t} : pc'[u] = "idle"
    BY <2>2, <2>4, <2>6
  <2>7. ASSUME ~overlapped'
        PROVE  inf_cnt' = Queue' + 1
    BY <2>1, <2>2, <2>3, <2>7
  <2>8. \A u \in Threads : pc'[u] \notin {"store", "serialise", "await", "reset"} => counted'[u] = 0
    BY <2>3, <2>4
  <2>9. ASSUME ~overlapped'
        PROVE  /\ Solo'
               /\ (\A u \in Threads : pc'[u] = "idle") => inf_cnt' = Queue' + 1
               /\ \A u \in Threads :
                    /\ pc'[u] \in Owning => inf_cnt' = Queue' + 1
                    /\ pc'[u] \notin {"check", "load", "store", "reset"}
    <3> HIDE DEF CountInv
    <3> QED
      BY <2>5, <2>6, <2>7, <2>9
  <2> QED
    BY <2>8, <2>9
<1>2. ASSUME NEW t \in Threads, Format(t)
      PROVE  CountInv'
  <2>1. Queued' = Queued /\ Queue' = Queue
    BY <1>2, QueuedKept DEF Format
  <2>2. PICK next \in {"single", "append", "idle"} : pc' = [pc EXCEPT ![t] = next]
    BY <1>2 DEF Format, Goes
  <2>3. pc[t] = "format" /\ UNCHANGED <<inf_cnt, counted, overlapped>>
    BY <1>2 DEF Format
  <2>4. \A u \in Threads :
           pc'[u] \notin {"store", "serialise", "await", "reset"} => counted'[u] = 0
    BY <2>2, <2>3
  <2>5. ASSUME ~overlapped
        PROVE  /\ Solo' /\ ((\A u \in Threads : pc'[u] = "idle") => inf_cnt' = Queue' + 1)
               /\ \A u \in Threads : u # t => pc'[u] = "idle"
    <3>1. inf_cnt = Queue + 1 /\ \A u \in Threads : u # t => pc[u] = "idle"
      BY <2>3, <2>5
    <3> HIDE DEF CountInv
    <3> QED
      BY <2>1, <2>2, <2>3, <3>1
  <2>6. ASSUME ~overlapped
        PROVE  pc'[t] \in {"single", "append", "idle"} /\ (pc'[t] \in Owning => inf_cnt' = Queue' + 1)
    BY <2>1, <2>2, <2>3, <2>6
  <2> QED
    BY <2>3, <2>4, <2>5, <2>6
<1>3. ASSUME NEW t \in Threads, SendSingle(t)
      PROVE  CountInv'
  <2>1. Queued' = Queued /\ Queue' = Queue
    BY <1>3, QueuedKept DEF SendSingle
  <2> QED
    BY <1>3, <2>1 DEF SendSingle, Goes
<1>4. ASSUME NEW t \in Threads, SendDataAppendOutputTensor(t)
      PROVE  CountInv'
  <2>1. Queue' = Queue + 1
    BY <1>4, QueueAppend
  <2>2. /\ pc[t] = "append" /\ pc' = [pc EXCEPT ![t] = "check"]
        /\ UNCHANGED <<inf_cnt, counted, overlapped>>
    BY <1>4 DEF SendDataAppendOutputTensor, Goes
  <2>3. ASSUME ~overlapped
        PROVE  inf_cnt = Queue + 1 /\ \A u \in Threads : u # t => pc'[u] = "idle"
    BY <2>2, <2>3
  <2> QED
    BY <2>1, <2>2, <2>3
<1>5. ASSUME NEW t \in Threads, AppendQueueFull(t)
      PROVE  CountInv'
  <2>1. Queued' = Queued /\ Queue' = Queue
    BY <1>5, QueuedKept DEF AppendQueueFull
  <2> QED
    BY <1>5, <2>1 DEF AppendQueueFull, Goes
<1>6. ASSUME NEW t \in Threads, Check(t)
      PROVE  CountInv'
  <2>1. Queued' = Queued /\ Queue' = Queue
    BY <1>6, QueuedKept DEF Check
  <2> QED
    BY <1>6, <2>1 DEF Check, Goes
<1>7. ASSUME NEW t \in Threads, LoadCount(t)
      PROVE  CountInv'
  <2>1. Queued' = Queued /\ Queue' = Queue
    BY <1>7, QueuedKept DEF LoadCount
  <2> QED
    BY <1>7, <2>1 DEF LoadCount, Goes
<1>8. ASSUME NEW t \in Threads, StoreCount(t)
      PROVE  CountInv'
  <2>1. Queued' = Queued /\ Queue' = Queue
    BY <1>8, QueuedKept DEF StoreCount
  <2> QED
    BY <1>8, <2>1 DEF StoreCount, Goes
<1>9. ASSUME NEW t \in Threads, Lock(t)
      PROVE  CountInv'
  <2>1. Queued' = Queued /\ Queue' = Queue
    BY <1>9, QueuedKept DEF Lock
  <2> QED
    BY <1>9, <2>1 DEF Lock, Goes
<1>10. ASSUME NEW t \in Threads, Serialise(t)
      PROVE  CountInv'
  <2>1. Queued' = Queued /\ Queue' = Queue
    BY <1>10, QueuedKept DEF Serialise
  <2> QED
    BY <1>10, <2>1 DEF Serialise, Goes
<1>11. ASSUME NEW t \in Threads, Await(t)
      PROVE  CountInv'
  BY <1>11 DEF Await, Goes
<1>12. ASSUME NEW t \in Threads, Unlock(t)
      PROVE  CountInv'
  <2>1. Queued' = Queued /\ Queue' = Queue
    BY <1>12, QueuedKept DEF Unlock
  <2>2. Queued = {}
    BY <1>12, BatchEmptied
  <2> QED
    BY <1>12, <2>1, <2>2 DEF Unlock, Goes
<1>13. ASSUME NEW t \in Threads, Reset(t)
      PROVE  CountInv'
  <2>1. Queued' = Queued /\ Queue' = Queue
    BY <1>13, QueuedKept DEF Reset
  <2>2. Queued = {} => Queue = 0
    BY FS_EmptySet DEF Queue
  <2> QED
    BY <1>13, <2>1, <2>2 DEF Reset, Goes
<1>14. CASE SetInferencePerMessage
  <2>1. Queued' = Queued /\ Queue' = Queue
    BY <1>14, QueuedKept DEF SetInferencePerMessage
  <2> QED
    BY <1>14, <2>1 DEF SetInferencePerMessage
<1> QED
  BY <1>1, <1>2, <1>3, <1>4, <1>5, <1>6, <1>7, <1>8, <1>9, <1>10, <1>11, <1>12, <1>13, <1>14
    DEF Next, CallStep

\* A batch is as long as the setting says.
LEMMA WholeStep ==
  ASSUME TypeInv, ModeInv, LockInv, EntryInv, OwnInv, PrefixInv, TypeInv', EntryInv', CountInv, WholeInv, Next
  PROVE  WholeInv'
<1> USE QueuedFinite, LimitsAssumption DEF TypeInv, Labels, CountInv, Solo, WholeInv, Owning, Sending, batchVars, callVars, pastVars
<1>1. ASSUME NEW t \in Threads, Call(t)
      PROVE  WholeInv'
  <2>1. Queued' = Queued /\ Queue' = Queue
    BY <1>1, QueuedKept DEF Call
  <2> QED
    BY <1>1, <2>1 DEF Call, Goes
<1>2. ASSUME NEW t \in Threads, Format(t)
      PROVE  WholeInv'
  <2>1. Queued' = Queued /\ Queue' = Queue
    BY <1>2, QueuedKept DEF Format
  <2> QED
    BY <1>2, <2>1 DEF Format, Goes
<1>3. ASSUME NEW t \in Threads, SendSingle(t)
      PROVE  WholeInv'
  <2>1. Queued' = Queued /\ Queue' = Queue
    BY <1>3, QueuedKept DEF SendSingle
  <2> QED
    BY <1>3, <2>1 DEF SendSingle, Goes
<1>4. ASSUME NEW t \in Threads, SendDataAppendOutputTensor(t)
      PROVE  WholeInv'
  <2>1. Queue' = Queue + 1
    BY <1>4, QueueAppend
  <2> QED
    BY <1>4, <2>1 DEF SendDataAppendOutputTensor, Goes
<1>5. ASSUME NEW t \in Threads, AppendQueueFull(t)
      PROVE  WholeInv'
  <2>1. Queued' = Queued /\ Queue' = Queue
    BY <1>5, QueuedKept DEF AppendQueueFull
  <2> QED
    BY <1>5, <2>1 DEF AppendQueueFull, Goes
<1>6. ASSUME NEW t \in Threads, Check(t)
      PROVE  WholeInv'
  <2>1. Queued' = Queued /\ Queue' = Queue
    BY <1>6, QueuedKept DEF Check
  <2> QED
    BY <1>6, <2>1 DEF Check, Goes
<1>7. ASSUME NEW t \in Threads, LoadCount(t)
      PROVE  WholeInv'
  <2>1. Queued' = Queued /\ Queue' = Queue
    BY <1>7, QueuedKept DEF LoadCount
  <2> QED
    BY <1>7, <2>1 DEF LoadCount, Goes
<1>8. ASSUME NEW t \in Threads, StoreCount(t)
      PROVE  WholeInv'
  <2>1. /\ UNCHANGED <<n, overlapped, mixed>>
        /\ inf_cnt' = counted[t] + 1 /\ pc[t] = "store"
        /\ pc' = [pc EXCEPT ![t] = "idle"]
    BY <1>8 DEF StoreCount, Goes
  <2>2. ASSUME ~overlapped, ~mixed
        PROVE  inf_cnt' <= n /\ \A u \in Threads : pc'[u] = "idle"
    <3>1. counted[t] = inf_cnt /\ inf_cnt < n
      BY <2>1, <2>2
    <3>2. inf_cnt' <= n
      BY <2>1, <3>1
    <3>3. ASSUME NEW u \in Threads
          PROVE  pc'[u] = "idle"
      BY <2>1, <2>2
    <3> QED
      BY <3>2, <3>3
  <2> QED
    BY <2>1, <2>2
<1>9. ASSUME NEW t \in Threads, Lock(t)
      PROVE  WholeInv'
  <2>1. Queued' = Queued /\ Queue' = Queue
    BY <1>9, QueuedKept DEF Lock
  <2> QED
    BY <1>9, <2>1 DEF Lock, Goes
<1>10. ASSUME NEW t \in Threads, Serialise(t)
      PROVE  WholeInv'
  <2>1. Queued' = Queued /\ Queue' = Queue
    BY <1>10, QueuedKept DEF Serialise
  <2> QED
    BY <1>10, <2>1 DEF Serialise, Goes
<1>11. ASSUME NEW t \in Threads, Await(t)
      PROVE  WholeInv'
  <2>1. PICK k \in Nat : Queue' = Queue - k /\ counted' = [counted EXCEPT ![t] = @ + k]
    BY <1>11, QueueAwait
  <2>2. /\ counted'[t] + Queue' = counted[t] + Queue
        /\ \A u \in Threads \ {t} : counted'[u] = counted[u]
    <3>1. Queue \in Nat /\ counted \in [Threads -> Nat]
      BY QueuedFinite
    <3> HIDE DEF TypeInv, CountInv, WholeInv
    <3> QED
      BY <2>1, <3>1
  <2>3. /\ pc' = [pc EXCEPT ![t] = "serialise"] /\ pc[t] = "await"
        /\ UNCHANGED <<n, inf_cnt, overlapped, mixed>>
    BY <1>11 DEF Await, Goes
  <2> QED
    BY <2>2, <2>3
<1>12. ASSUME NEW t \in Threads, Unlock(t)
      PROVE  WholeInv'
  <2>1. Queued' = Queued /\ Queue' = Queue
    BY <1>12, QueuedKept DEF Unlock
  <2>2. Queued = {}
    BY <1>12, BatchEmptied
  <2> QED
    BY <1>12, <2>1, <2>2 DEF Unlock, Goes
<1>13. ASSUME NEW t \in Threads, Reset(t)
      PROVE  WholeInv'
  <2>1. Queued' = Queued /\ Queue' = Queue
    BY <1>13, QueuedKept DEF Reset
  <2>2. Queued = {} => Queue = 0
    BY FS_EmptySet DEF Queue
  <2>3. /\ UNCHANGED <<n, overlapped>> /\ n >= 1
        /\ inf_cnt' = 1 /\ pc[t] = "reset" /\ pc' = [pc EXCEPT ![t] = "idle"]
    BY <1>13 DEF Reset, Goes
  <2>4. ASSUME ~overlapped, NEW u \in Threads
        PROVE  pc'[u] = "idle"
    BY <2>3, <2>4
  <2> QED
    BY <2>3, <2>4
<1>14. CASE SetInferencePerMessage
  <2>1. Queued' = Queued /\ Queue' = Queue
    BY <1>14, QueuedKept DEF SetInferencePerMessage
  <2>2. Queued = {} => Queue = 0
    BY FS_EmptySet DEF Queue
  <2>5. ~overlapped' /\ ~mixed' => ~overlapped /\ Queued = {} /\ \A t \in Threads : pc[t] = "idle"
    BY <1>14 DEF SetInferencePerMessage
  <2>3. ~overlapped' /\ ~mixed' => inf_cnt = 1
    BY <2>2, <2>5
  <2>4. n' \in Nat \ {0}
    BY <1>14 DEF SetInferencePerMessage
  <2> QED
    BY <1>14, <2>3, <2>4 DEF SetInferencePerMessage
<1> QED
  BY <1>1, <1>2, <1>3, <1>4, <1>5, <1>6, <1>7, <1>8, <1>9, <1>10, <1>11, <1>12, <1>13, <1>14
    DEF Next, CallStep

-----------------------------------------------------------------------------
(* The theorems *)

\* The invariant holds at the beginning.
LEMMA InitInv == Init => IInv
<1> SUFFICES ASSUME Init PROVE IInv
  OBVIOUS
<1>1. TypeInv
  <2>1. Empty \in Entries
    BY DEF Empty, Entries
  <2>2. made \in 0..MaxInferences /\ kept \subseteq 1..made /\ times \in [1..MaxInferences -> Nat]
    BY BoundsAssumption DEF Init
  <2>3. /\ slots \in [Slots -> Entries] /\ message \in [Threads -> Entries]
        /\ own \in [Threads -> [inf : Nat, model : Models \cup {"none"}]]
    BY <2>1 DEF Init
  <2> QED
    BY <2>2, <2>3 DEF Init, TypeInv, Labels
<1>2. ModeInv /\ LockInv /\ OwnInv
  BY ThreadsAssumption DEF Init, ModeInv, LockInv, OwnInv, Batching, Sending, Owning
<1>3. \A s \in Slots : slots[s] = Empty /\ Places(s) = {}
  BY EmptyHoldsNothing DEF Init
<1>4. EntryInv
  BY <1>3 DEF Init, EntryInv
<1>5. PrefixInv
  BY <1>3 DEF Init, PrefixInv, FirstFrom, Sending
<1>6. Queued = {} /\ Queue = 0
  <2>1. Queued = {}
    BY <1>1, <1>3, <1>4, QueuedIs
  <2> QED
    BY <2>1, FS_EmptySet DEF Queue
<1>7. CountInv
  BY <1>6 DEF Init, CountInv, Solo, Owning
<1>8. WholeInv
  BY LimitsAssumption DEF Init, WholeInv, Sending
<1> QED
  BY <1>1, <1>2, <1>4, <1>5, <1>7, <1>8 DEF IInv

\* Every step keeps the invariant.
LEMMA StepInv == IInv /\ [Next]_vars => IInv'
<1>1. ASSUME IInv, Next
      PROVE  IInv'
  <2>1. TypeInv' /\ ModeInv' /\ LockInv' /\ OwnInv' /\ EntryInv' /\ PrefixInv'
    BY <1>1, TypeStep, ModeStep, LockStep, OwnStep, EntryStep, PrefixStep DEF IInv
  <2>2. CountInv' /\ WholeInv'
    BY <1>1, <2>1, CountStep, WholeStep DEF IInv
  <2> QED
    BY <2>1, <2>2 DEF IInv
<1>2. ASSUME IInv, UNCHANGED vars
      PROVE  IInv'
  <2> USE <1>2 DEF vars, batchVars, callVars, pastVars, IInv
  <2>1. TypeInv' /\ ModeInv' /\ LockInv' /\ OwnInv'
    BY DEF TypeInv, ModeInv, LockInv, OwnInv
  <2>2. EntryInv' /\ PrefixInv'
    BY DEF EntryInv, PrefixInv, Places, At, FirstFrom
  <2>3. Queued' = Queued /\ Queue' = Queue
    BY <2>1, <2>2, QueuedKept
  <2>4. CountInv' /\ WholeInv'
    BY <2>3 DEF CountInv, WholeInv, Solo
  <2> QED
    BY <2>1, <2>2, <2>4
<1> QED
  BY <1>1, <1>2

\* The inductive invariant: a queue that only its mutex holder changes.
THEOREM BatchInvariance == Spec => []IInv
BY InitInv, StepInv, PTL DEF Spec

\* An entry is not longer than the inferences there were.
LEMMA EntryBounded ==
  ASSUME TypeInv, EntryInv, NEW s \in Slots
  PROVE  Len(slots[s].infs) <= made
<1> DEFINE f == [j \in Places(s) |-> At(s, j)]
<1>1. Len(slots[s].infs) \in Nat /\ made \in Nat
  BY DEF TypeInv, Entries
<1>2. f \in Injection(Places(s), 1..made)
  <2>1. \A j \in Places(s) : At(s, j) \in 1..made
    BY DEF TypeInv, EntryInv
  <2>2. \A j, k \in Places(s) : At(s, j) = At(s, k) => j = k
    BY DEF EntryInv
  <2>3. f \in [Places(s) -> 1..made] /\ \A j \in Places(s) : f[j] = At(s, j)
    BY <2>1
  <2> HIDE DEF f
  <2> QED
    BY <2>2, <2>3 DEF Injection, IsInjective
<1> HIDE DEF f
<1>3. IsFiniteSet(1..made) /\ Cardinality(1..made) = made
  <2>1. 1 \in Int /\ made \in Int /\ (IF 1 > made THEN 0 ELSE made - 1 + 1) = made
    BY <1>1
  <2> QED
    BY <2>1, FS_Interval, SMTT(30)
<1>4. Cardinality(Places(s)) = Len(slots[s].infs)
  BY <1>1, FS_Interval DEF Places
<1> QED
  BY <1>2, <1>3, <1>4, FS_Injection

\* An inference is in one entry or was sent in one message.
THEOREM NothingIsLost == Spec => []NothingLost
<1>1. ASSUME IInv, NEW i \in 1..made
      PROVE  LET entries == { p \in Slots \X (1..made) :
                                p[2] <= Len(slots[p[1]].infs) /\ slots[p[1]].infs[p[2]] = i }
             IN  Cardinality(entries) + times[i] = IF i \in kept THEN 1 ELSE 0
  <2> DEFINE entries == { p \in Slots \X (1..made) :
                            p[2] <= Len(slots[p[1]].infs) /\ slots[p[1]].infs[p[2]] = i }
  <2>1. i \in 1..MaxInferences
    BY <1>1, BoundsAssumption DEF IInv, TypeInv
  <2>2. \A s \in Slots : Len(slots[s].infs) \in Nat /\ Len(slots[s].infs) <= made
    BY <1>1, EntryBounded DEF IInv, TypeInv, Entries
  <2>3. \A p : p \in entries <=> \E s \in Slots : \E j \in Places(s) : p = <<s, j>> /\ At(s, j) = i
    BY <1>1, <2>2 DEF IInv, TypeInv, Places, At
  <2> HIDE DEF entries
  <2>4. ASSUME i \in kept, times[i] = 0
        PROVE  Cardinality(entries) + times[i] = 1
    <3>1. PICK s \in Slots : \E j \in Places(s) : At(s, j) = i
      BY <1>1, <2>1, <2>4 DEF IInv, EntryInv
    <3>2. PICK j \in Places(s) : At(s, j) = i
      BY <3>1
    <3>3. entries = {<<s, j>>}
      BY <1>1, <2>3, <3>2 DEF IInv, EntryInv
    <3>4. Cardinality(entries) = 1
      BY <3>3, FS_Singleton
    <3> QED
      BY <2>4, <3>4
  <2>5. ASSUME ~(i \in kept /\ times[i] = 0)
        PROVE  Cardinality(entries) + times[i] = IF i \in kept THEN 1 ELSE 0
    <3>1. entries = {}
      BY <1>1, <2>3, <2>5 DEF IInv, EntryInv
    <3>2. times[i] = IF i \in kept THEN 1 ELSE 0
      BY <1>1, <2>1, <2>5 DEF IInv, EntryInv
    <3>3. Cardinality(entries) = 0
      BY <3>1, FS_EmptySet
    <3>4. times[i] \in Nat
      BY <1>1, <2>1 DEF IInv, TypeInv
    <3> QED
      BY <3>2, <3>3, <3>4
  <2> QED
    BY <2>4, <2>5 DEF entries
<1>2. IInv => NothingLost
  BY <1>1 DEF NothingLost
<1> QED
  BY <1>2, BatchInvariance, PTL

\* The count goes with the queue.
THEOREM CountMatched == Spec => []CountMatchesQueue
<1>1. IInv => CountMatchesQueue
  BY DEF IInv, CountInv, Queue, CountMatchesQueue
<1> QED
  BY <1>1, BatchInvariance, PTL

\* A batch has as many inferences as the setting says.
THEOREM BatchWhole == Spec => []BatchIsWhole
<1>1. ASSUME IInv, NEW t \in Threads, pc[t] = "reset", ~overlapped, ~mixed
      PROVE  counted[t] = n
  <2>1. Queue = 0
    BY <1>1, FS_EmptySet DEF IInv, CountInv, Queue
  <2> QED
    BY <1>1, <2>1 DEF IInv, TypeInv, WholeInv
<1>2. IInv => BatchIsWhole
  BY <1>1 DEF BatchIsWhole
<1> QED
  BY <1>2, BatchInvariance, PTL

-----------------------------------------------------------------------------
(* The refinement of BatchQueue *)

\* The entries of the queue are those of different models, and hold something.
KeysDiffer(q) ==
  /\ \A s, r \in Slots : q[s] # Empty /\ q[r] # Empty /\ q[s].key = q[r].key => s = r
  /\ \A s \in Slots : q[s] # Empty => q[s].key \in Models /\ q[s].infs # <<>>

KeyInv ==
  /\ KeysDiffer(slots)
  /\ \A t \in Threads : pc[t] \in Owning => own[t].model \in Models

\* Only an inference that is handed in and a message that is settled change the
\* slots, only they and a single inference what was sent.
LEMMA QueueFrame ==
  ASSUME TypeInv, Next
  PROVE  \/ \E t \in Threads :
              \/ SendSingle(t) \/ SendDataAppendOutputTensor(t) \/ Await(t)
         \/ UNCHANGED <<slots, times>>
<1>1. ASSUME NEW t \in Threads,
             Call(t) \/ Format(t) \/ AppendQueueFull(t) \/ Check(t) \/ LoadCount(t) \/ StoreCount(t)
      PROVE  UNCHANGED <<slots, times>>
  BY <1>1
    DEF Call, Format, AppendQueueFull, Check, LoadCount, StoreCount, batchVars, pastVars
<1>2. ASSUME NEW t \in Threads, Lock(t) \/ Serialise(t) \/ Unlock(t) \/ Reset(t)
      PROVE  UNCHANGED <<slots, times>>
  BY <1>2 DEF Lock, Serialise, Unlock, Reset, batchVars, pastVars
<1>3. CASE SetInferencePerMessage
  BY <1>3 DEF SetInferencePerMessage
<1> QED
  BY <1>1, <1>2, <1>3 DEF Next, CallStep

\* What a call was made with stays with it.
LEMMA ModelKept ==
  ASSUME TypeInv, KeyInv, Next
  PROVE  \A t \in Threads : pc'[t] \in Owning => own'[t].model \in Models
<1> USE DEF TypeInv, KeyInv, Owning, Goes
<1>1. ASSUME NEW u \in Threads, Call(u)
      PROVE  \A t \in Threads : pc'[t] \in Owning => own'[t].model \in Models
  BY <1>1 DEF Call
<1>2. ASSUME NEW u \in Threads, CallStep(u)
      PROVE  UNCHANGED own /\ \A t \in Threads : pc'[t] \in Owning => pc[t] \in Owning
  <2>1. CASE Format(u) \/ SendSingle(u) \/ SendDataAppendOutputTensor(u) \/ AppendQueueFull(u)
    BY <2>1 DEF Format, SendSingle, SendDataAppendOutputTensor, AppendQueueFull
  <2>2. CASE Check(u) \/ LoadCount(u) \/ StoreCount(u) \/ Lock(u)
    BY <2>2 DEF Check, LoadCount, StoreCount, Lock
  <2>3. CASE Serialise(u) \/ Await(u) \/ Unlock(u) \/ Reset(u)
    BY <2>3 DEF Serialise, Await, Unlock, Reset
  <2> QED
    BY <1>2, <2>1, <2>2, <2>3 DEF CallStep
<1>3. CASE SetInferencePerMessage
  BY <1>3 DEF SetInferencePerMessage, callVars
<1> QED
  BY <1>1, <1>2, <1>3 DEF Next

\* The slot an inference goes to: that of its model, or one that is free, with no
\* entry of its model anywhere.
LEMMA AppendSlot ==
  ASSUME TypeInv, PrefixInv, KeyInv, NEW t \in Threads, SendDataAppendOutputTensor(t)
  PROVE  \E s \in Slots :
           /\ \/ Has(slots, s, own[t].model)
              \/ slots[s] = Empty /\ \A r \in Slots : ~Has(slots, r, own[t].model)
           /\ slots'[s] = [key |-> own[t].model, infs |-> Append(slots[s].infs, own[t].inf)]
           /\ slots'[s].infs # <<>> /\ slots'[s] # Empty
           /\ \A r \in Slots \ {s} : slots'[r] = slots[r]
<1> DEFINE m == own[t].model  i == own[t].inf
<1>1. PICK s \in Target(m) :
        slots' = [slots EXCEPT ![s] = [key |-> m, infs |-> Append(@.infs, i)]]
  BY DEF SendDataAppendOutputTensor
<1>2. s \in Slots
  BY DEF Target
<1>3. /\ slots'[s] = [key |-> m, infs |-> Append(slots[s].infs, i)]
      /\ \A r \in Slots \ {s} : slots'[r] = slots[r]
  BY <1>1, <1>2 DEF TypeInv
<1>4. slots'[s].infs # <<>> /\ slots'[s] # Empty
  <2>1. slots[s].infs \in Seq(Nat) /\ i \in Nat
    BY <1>2 DEF TypeInv, Entries
  <2>2. Append(slots[s].infs, i) # <<>>
    BY <2>1
  <2> QED
    BY <1>3, <2>2 DEF Empty
<1>5. ASSUME slots[s] = Empty, NEW r \in Slots
      PROVE  ~Has(slots, r, m)
  <2>1. FirstFrom(1)
    BY DEF PrefixInv, SendDataAppendOutputTensor
  <2>2. CASE r < s
    <3>1. r \in 1..s - 1
      BY <1>2, <2>2, BoundsAssumption DEF Slots
    <3> QED
      BY <3>1 DEF Target, Has
  <2>3. CASE r = s
    BY <1>5, <2>3 DEF Has
  <2>4. CASE r > s
    <3>1. s \in 1..r - 1
      BY <1>2, <2>4, BoundsAssumption DEF Slots
    <3> QED
      BY <1>5, <2>1, <3>1 DEF FirstFrom, Has
  <2> QED
    BY <1>2, <2>2, <2>3, <2>4, BoundsAssumption DEF Slots
<1>6. slots[s] # Empty => Has(slots, s, m)
  BY <1>1 DEF Target, Has
<1> QED
  BY <1>2, <1>3, <1>4, <1>5, <1>6

\* Every step keeps one entry per model.
LEMMA KeyStep ==
  ASSUME TypeInv, LockInv, PrefixInv, KeyInv, [Next]_vars
  PROVE  KeyInv'
<1>1. ASSUME NEW t \in Threads, SendDataAppendOutputTensor(t)
      PROVE  KeysDiffer(slots')
  <2>1. PICK s \in Slots :
           /\ \/ Has(slots, s, own[t].model)
              \/ slots[s] = Empty /\ \A r \in Slots : ~Has(slots, r, own[t].model)
           /\ slots'[s] = [key |-> own[t].model, infs |-> Append(slots[s].infs, own[t].inf)]
           /\ slots'[s].infs # <<>> /\ slots'[s] # Empty
           /\ \A r \in Slots \ {s} : slots'[r] = slots[r]
    BY <1>1, AppendSlot
  <2>2. slots'[s].key = own[t].model /\ own[t].model \in Models
    BY <1>1, <2>1 DEF SendDataAppendOutputTensor, KeyInv, Owning
  <2>3. \A r \in Slots \ {s} : slots[r] # Empty => slots[r].key # own[t].model
    BY <2>1 DEF KeyInv, KeysDiffer, Has
  <2> QED
    BY <2>1, <2>2, <2>3 DEF KeyInv, KeysDiffer
<1>2. ASSUME NEW t \in Threads, Await(t)
      PROVE  KeysDiffer(slots')
  <2>1. PICK s \in Slots : slots'[s] = Empty /\ \A r \in Slots \ {s} : slots'[r] = slots[r]
    BY <1>2, AwaitEffect
  <2> QED
    BY <2>1 DEF KeyInv, KeysDiffer
<1>3. CASE Next
  <2>1. KeysDiffer(slots')
    <3>1. CASE UNCHANGED slots
      BY <3>1 DEF KeyInv
    <3>2. ASSUME NEW t \in Threads, SendSingle(t)
          PROVE  UNCHANGED slots
      BY <3>2 DEF SendSingle
    <3> QED
      BY <1>1, <1>2, <1>3, <3>1, <3>2, QueueFrame
  <2> QED
    BY <1>3, <2>1, ModelKept DEF KeyInv
<1>4. CASE UNCHANGED vars
  BY <1>4 DEF vars, batchVars, callVars, KeyInv
<1> QED
  BY <1>3, <1>4

\* What waits for a model is what its entry holds.
LEMMA WaitingIs ==
  ASSUME NEW q, KeysDiffer(q), NEW m
  PROVE  /\ \A s \in Slots : Has(q, s, m) => WaitingIn(q, m) = q[s].infs
         /\ (\A s \in Slots : ~Has(q, s, m)) => WaitingIn(q, m) = <<>>
         /\ WaitingIn(q, m) # <<>> <=> \E s \in Slots : Has(q, s, m)
<1>1. ASSUME NEW s \in Slots, Has(q, s, m)
      PROVE  WaitingIn(q, m) = q[s].infs /\ q[s].infs # <<>>
  <2>1. \A r \in Slots : Has(q, r, m) => r = s
    BY <1>1 DEF KeysDiffer, Has
  <2>2. (CHOOSE r \in Slots : Has(q, r, m)) = s
    BY <1>1, <2>1
  <2> QED
    BY <1>1, <2>2 DEF WaitingIn, KeysDiffer, Has
<1>2. (\A s \in Slots : ~Has(q, s, m)) => WaitingIn(q, m) = <<>>
  BY DEF WaitingIn
<1> QED
  BY <1>1, <1>2

\* A model whose entry is the same in two states has the same inferences waiting.
LEMMA WaitingSame ==
  ASSUME NEW q, NEW p, KeysDiffer(q), KeysDiffer(p), NEW m,
         \A s \in Slots : /\ Has(q, s, m) <=> Has(p, s, m)
                          /\ Has(q, s, m) => q[s] = p[s]
  PROVE  WaitingIn(q, m) = WaitingIn(p, m)
<1>1. CASE \E s \in Slots : Has(q, s, m)
  <2>1. PICK s \in Slots : Has(q, s, m) /\ Has(p, s, m) /\ q[s] = p[s]
    BY <1>1 DEF Has
  <2>2. WaitingIn(q, m) = q[s].infs /\ WaitingIn(p, m) = p[s].infs
    BY <2>1, WaitingIs
  <2> QED
    BY <2>1, <2>2
<1>2. CASE \A s \in Slots : ~Has(q, s, m)
  <2>1. \A s \in Slots : ~Has(p, s, m)
    BY <1>2 DEF Has
  <2>2. WaitingIn(q, m) = <<>> /\ WaitingIn(p, m) = <<>>
    BY <1>2, <2>1, WaitingIs
  <2> QED
    BY <2>2
<1> QED
  BY <1>1, <1>2

Waiting == [m \in Models |-> WaitingIn(slots, m)]
Delivered == { i \in 1..MaxInferences : times[i] # 0 }

\* An inference that a call has not handed over yet is nowhere.
LEMMA OwnFresh ==
  ASSUME IInv, KeyInv, NEW t \in Threads, pc[t] \in Owning
  PROVE  own[t].inf \in 1..MaxInferences /\ Queues!Fresh(own[t].inf)
<1>1. own[t].inf \in 1..made /\ own[t].inf \notin kept
  BY DEF IInv, OwnInv
<1>2. own[t].inf \in 1..MaxInferences
  BY <1>1, BoundsAssumption DEF IInv, TypeInv
<1>3. times[own[t].inf] = 0
  BY <1>1, <1>2 DEF IInv, EntryInv
<1>4. ASSUME NEW m \in Models, Queues!InQueue(m, own[t].inf)
      PROVE  FALSE
  <2>1. PICK j \in 1..Len(WaitingIn(slots, m)) : WaitingIn(slots, m)[j] = own[t].inf
    BY <1>4 DEF Queues!InQueue
  <2>2. PICK s \in Slots : WaitingIn(slots, m) = slots[s].infs
    <3>1. WaitingIn(slots, m) # <<>>
      BY <2>1
    <3> QED
      BY <3>1, WaitingIs DEF KeyInv
  <2>3. j \in Places(s) /\ At(s, j) = own[t].inf
    BY <2>1, <2>2 DEF Places, At
  <2> QED
    BY <1>1, <2>3 DEF IInv, EntryInv
<1> QED
  BY <1>2, <1>3, <1>4 DEF Queues!Fresh

\* With a free slot there are fewer models with inferences waiting than slots.
LEMMA RoomLeft ==
  ASSUME KeyInv, NEW s \in Slots, slots[s] = Empty
  PROVE  Cardinality(Queues!InUse) < MaxQueue
<1> DEFINE f == [m \in Queues!InUse |-> CHOOSE r \in Slots : Has(slots, r, m)]
           others == Slots \ {s}
<1>1. \A m \in Queues!InUse : f[m] \in others /\ Has(slots, f[m], m)
  <2>1. \A m \in Queues!InUse : \E r \in Slots : Has(slots, r, m)
    BY WaitingIs DEF KeyInv, Queues!InUse
  <2>2. \A m \in Queues!InUse : f[m] \in Slots /\ Has(slots, f[m], m)
    BY <2>1
  <2> QED
    BY <2>2 DEF Has
<1>2. f \in Injection(Queues!InUse, others)
  <2> HIDE DEF f
  <2>1. f \in [Queues!InUse -> others]
    <3>1. f = [m \in Queues!InUse |-> f[m]]
      BY DEF f
    <3> QED
      BY <1>1, <3>1
  <2>2. \A m, k \in Queues!InUse : f[m] = f[k] => m = k
    BY <1>1 DEF Has
  <2> QED
    BY <2>1, <2>2 DEF Injection, IsInjective
<1>3. IsFiniteSet(Slots) /\ Cardinality(Slots) = MaxQueue /\ MaxQueue \in Nat
  BY FS_Interval, BoundsAssumption DEF Slots
<1>4. IsFiniteSet(others) /\ Cardinality(others) = MaxQueue - 1
  BY <1>3, FS_RemoveElement
<1> HIDE DEF f, others
<1>5. Cardinality(Queues!InUse) <= MaxQueue - 1 /\ IsFiniteSet(Queues!InUse)
  BY <1>2, <1>4, FS_Injection
<1>6. Cardinality(Queues!InUse) \in Nat
  BY <1>5, FS_CardinalityType
<1> QED
  BY <1>3, <1>5, <1>6

\* The abstract queue counts as FiniteSets does.
LEMMA SameCardinality == \A S : Queues!Cardinality(S) = Cardinality(S)
BY DEF Queues!Cardinality, Cardinality

\* An inference that is handed in joins the queue of its model.
LEMMA TakeStep ==
  ASSUME IInv, KeyInv, KeyInv', NEW t \in Threads, SendDataAppendOutputTensor(t)
  PROVE  Queues!Take(own[t].model, own[t].inf) /\ own[t].model \in Models
<1> DEFINE m == own[t].model  i == own[t].inf
<1>1. m \in Models
  BY DEF KeyInv, SendDataAppendOutputTensor, Owning
<1>2. PICK s \in Slots :
        /\ \/ Has(slots, s, m)
           \/ slots[s] = Empty /\ \A r \in Slots : ~Has(slots, r, m)
        /\ slots'[s] = [key |-> m, infs |-> Append(slots[s].infs, i)]
        /\ slots'[s].infs # <<>> /\ slots'[s] # Empty
        /\ \A r \in Slots \ {s} : slots'[r] = slots[r]
  BY AppendSlot DEF IInv
<1>3. Queues!Fresh(i)
  BY OwnFresh DEF SendDataAppendOutputTensor, Owning
<1>4. m \in Queues!InUse \/ Cardinality(Queues!InUse) < MaxQueue
  <2>1. CASE Has(slots, s, m)
    BY <1>1, <2>1, WaitingIs DEF KeyInv, Queues!InUse
  <2>2. CASE slots[s] = Empty
    BY <2>2, RoomLeft
  <2> QED
    BY <1>2, <2>1, <2>2
<1>5. KeysDiffer(slots) /\ KeysDiffer(slots')
  BY DEF KeyInv
<1>6. WaitingIn(slots', m) = Append(WaitingIn(slots, m), i)
  <2>1. Has(slots', s, m)
    BY <1>2 DEF Has
  <2>2. WaitingIn(slots', m) = Append(slots[s].infs, i)
    BY <1>2, <1>5, <2>1, WaitingIs
  <2>3. WaitingIn(slots, m) = slots[s].infs
    <3>1. CASE Has(slots, s, m)
      BY <1>5, <3>1, WaitingIs
    <3>2. CASE slots[s] = Empty /\ \A r \in Slots : ~Has(slots, r, m)
      BY <1>5, <3>2, WaitingIs DEF Empty
    <3> QED
      BY <1>2, <3>1, <3>2
  <2> QED
    BY <2>2, <2>3
<1>7. ASSUME NEW k \in Models, k # m
      PROVE  WaitingIn(slots', k) = WaitingIn(slots, k)
  <2>1. ~Has(slots', s, k) /\ ~Has(slots, s, k)
    BY <1>2, <1>7 DEF Has
  <2>2. \A r \in Slots : /\ Has(slots', r, k) <=> Has(slots, r, k)
                         /\ Has(slots', r, k) => slots'[r] = slots[r]
    BY <1>2, <2>1 DEF Has
  <2> QED
    BY <1>5, <2>2, WaitingSame
<1> HIDE DEF m, i
<1>8. [k \in Models |-> WaitingIn(slots', k)]
        = [[k \in Models |-> WaitingIn(slots, k)] EXCEPT ![m] = Append(@, i)]
  BY <1>1, <1>6, <1>7
<1>9. UNCHANGED times
  BY DEF SendDataAppendOutputTensor
<1> QED
  BY <1>1, <1>3, <1>4, <1>8, <1>9, SameCardinality DEF Queues!Take, m, i

\* A message that is settled delivers the whole queue of its model; the entry may
\* be empty for all that is said here, and then nothing happens.
LEMMA DeliverStep ==
  ASSUME IInv, KeyInv, KeyInv', NEW t \in Threads, Await(t)
  PROVE  \/ \E m \in Models : Queues!DeliverQueue(m)
         \/ UNCHANGED Queues!queueVars
<1>1. PICK s \in Slots :
        /\ slots'[s] = Empty /\ \A r \in Slots \ {s} : slots'[r] = slots[r]
        /\ \A i \in 1..MaxInferences :
             times'[i] = times[i] + (IF \E j \in Places(s) : At(s, j) = i THEN 1 ELSE 0)
  BY AwaitEffect, ZenonT(30) DEF IInv
<1>2. \A i \in 1..MaxInferences : times[i] \in Nat
  BY DEF IInv, TypeInv
<1>3. KeysDiffer(slots) /\ KeysDiffer(slots')
  BY DEF KeyInv
<1>4. ASSUME NEW k, slots[s] # Empty => k # slots[s].key
      PROVE  WaitingIn(slots', k) = WaitingIn(slots, k)
  <2>1. \A r \in Slots : /\ Has(slots', r, k) <=> Has(slots, r, k)
                         /\ Has(slots', r, k) => slots'[r] = slots[r]
    BY <1>1, <1>4 DEF Has
  <2> QED
    BY <1>3, <2>1, WaitingSame
<1>5. \A i : i \in Delivered' <=> \/ i \in Delivered
                                  \/ i \in 1..MaxInferences /\ \E j \in Places(s) : At(s, j) = i
  BY <1>1, <1>2 DEF Delivered
<1>6. CASE slots[s] = Empty
  <2>1. Delivered' = Delivered
    BY <1>5, <1>6, EmptyHoldsNothing
  <2>2. Waiting' = Waiting
    BY <1>4, <1>6 DEF Waiting
  <2> QED
    BY <2>1, <2>2 DEF Queues!queueVars, Waiting, Delivered
<1>7. CASE slots[s] # Empty
  <2>0. slots[s].key \in Models
    BY <1>3, <1>7 DEF KeysDiffer
  <2> PICK m \in Models : m = slots[s].key
    BY <2>0
  <2>1. Has(slots, s, m)
    BY <1>7 DEF Has
  <2>2. WaitingIn(slots, m) = slots[s].infs /\ m \in Queues!InUse
    BY <1>3, <2>1, WaitingIs DEF Queues!InUse
  <2>3. WaitingIn(slots', m) = <<>>
    <3>1. \A r \in Slots : ~Has(slots', r, m)
      BY <1>1, <1>3, <1>7 DEF KeysDiffer, Has
    <3> QED
      BY <1>3, <3>1, WaitingIs
  <2>4. \A i : (\E j \in Places(s) : At(s, j) = i) <=> Queues!InQueue(m, i)
    BY <2>1, <2>2 DEF Queues!InQueue, Places, At
  <2>5. Delivered' = Delivered \cup { i \in 1..MaxInferences : Queues!InQueue(m, i) }
    BY <1>5, <2>4
  <2>6. \A k \in Models \ {m} : WaitingIn(slots', k) = WaitingIn(slots, k)
    BY <1>4
  <2>7. Waiting' = [Waiting EXCEPT ![m] = <<>>]
    BY <2>1, <2>3, <2>6 DEF Waiting
  <2>8. Queues!DeliverQueue(m)
    BY <2>2, <2>5, <2>7 DEF Queues!DeliverQueue, Waiting, Delivered
  <2> QED
    BY <2>8
<1> QED
  BY <1>6, <1>7

\* A single inference is delivered alone.
LEMMA AloneStep ==
  ASSUME IInv, KeyInv, NEW t \in Threads, SendSingle(t)
  PROVE  \E i \in 1..MaxInferences : Queues!DeliverAlone(i)
<1>1. own[t].inf \in 1..MaxInferences /\ Queues!Fresh(own[t].inf)
  BY OwnFresh DEF SendSingle, Owning
<1>2. PICK i \in 1..MaxInferences : i = own[t].inf
  BY <1>1
<1>3. times' = [times EXCEPT ![i] = @ + 1] /\ UNCHANGED slots
  BY <1>2 DEF SendSingle
<1>4. times[i] \in Nat /\ times \in [1..MaxInferences -> Nat]
  BY DEF IInv, TypeInv
<1>5. Delivered' = Delivered \cup {i}
  BY <1>3, <1>4 DEF Delivered
<1>6. Queues!DeliverAlone(i)
  BY <1>1, <1>2, <1>3, <1>5 DEF Queues!DeliverAlone, Delivered
<1> QED
  BY <1>6

\* SendDataSyncMeta keeps one queue per model, in order, and sends it whole and
\* once, for any callers and settings.
THEOREM QueueRefinement == Spec => KeepsQueues
<1>1. Init => KeyInv /\ Queues!QueueInit
  <2>1. ASSUME Init
        PROVE  KeyInv /\ Queues!QueueInit
    <3>1. \A s \in Slots : slots[s] = Empty
      BY <2>1 DEF Init
    <3>2. KeyInv
      BY <2>1, <3>1 DEF Init, KeyInv, KeysDiffer, Owning
    <3>3. \A m \in Models : WaitingIn(slots, m) = <<>>
      BY <3>1 DEF WaitingIn, Has
    <3>4. Delivered = {}
      BY <2>1 DEF Init, Delivered
    <3> QED
      BY <3>2, <3>3, <3>4 DEF Queues!QueueInit, Delivered
  <2> QED
    BY <2>1
<1>2. IInv /\ KeyInv /\ [Next]_vars => KeyInv'
  BY KeyStep DEF IInv
<1>3. IInv /\ KeyInv /\ KeyInv' /\ [Next]_vars => [Queues!QueueNext]_(Queues!queueVars)
  <2>1. ASSUME IInv, KeyInv, KeyInv', Next
        PROVE  [Queues!QueueNext]_(Queues!queueVars)
    <3>1. CASE UNCHANGED <<slots, times>>
      BY <3>1 DEF Queues!queueVars
    <3>2. ASSUME NEW t \in Threads, SendSingle(t)
          PROVE  Queues!QueueNext
      BY <2>1, <3>2, AloneStep, Zenon DEF Queues!QueueNext
    <3>3. ASSUME NEW t \in Threads, SendDataAppendOutputTensor(t)
          PROVE  Queues!QueueNext
      <4>1. own[t].inf \in 1..MaxInferences
        BY <2>1, <3>3, OwnFresh DEF SendDataAppendOutputTensor, Owning
      <4> QED
        BY <2>1, <3>3, <4>1, TakeStep, Zenon DEF Queues!QueueNext
    <3>4. ASSUME NEW t \in Threads, Await(t)
          PROVE  [Queues!QueueNext]_(Queues!queueVars)
      BY <2>1, <3>4, DeliverStep, Zenon DEF Queues!QueueNext
    <3> QED
      BY <2>1, <3>1, <3>2, <3>3, <3>4, QueueFrame DEF IInv
  <2>2. ASSUME UNCHANGED vars
        PROVE  UNCHANGED Queues!queueVars
    BY <2>2 DEF vars, batchVars, pastVars, Queues!queueVars
  <2> QED
    BY <2>1, <2>2
<1> QED
  BY <1>1, <1>2, <1>3, BatchInvariance, PTL DEF Spec, KeepsQueues, Queues!QueueSpec
=============================================================================
