-------------------------- MODULE ReceiveDataProofs --------------------------
(***************************************************************************)
(* Proofs about ReceiveData, for any addresses, any size of the map, any   *)
(* number of retries and calls, and every environment.                     *)
(*                                                                         *)
(* The future of the download under way is the only one there is           *)
(* (FutureInv), and as long as none was deserted the agent knows no other  *)
(* operation than the one that is waited for (OperationInv). What is in    *)
(* the map is a matter of counting (MapInv): an address may be used again  *)
(* while an old entry or an old operation still has it, so entries and     *)
(* operations cannot be paired, but there are as many of the one as of the *)
(* other.                                                                  *)
(***************************************************************************)
EXTENDS ReceiveData, FiniteSetTheorems, TLAPS

Waiting == {"wait", "expired"}
Resting == {"idle", "draining"}

FutureInv ==
  /\ cur # None <=> pc \in Waiting \cup {"submit"}
  /\ cur # None => heap[cur] # None
  /\ \A a \in Addresses : heap[a] # None => a = cur

OperationInv ==
  ~deserted =>
    /\ pc = "submit" => heap[cur] = "Enqueued"
    /\ \A op \in ops :
         /\ pc \in Waiting /\ op.address = cur /\ heap[cur] = "Enqueued"
         /\ op.call = calls /\ op.try = tries

VerifiedInv ==
  ~deserted /\ pc \in Resting /\ outcome = "Success" => file = "verified"

RetryInv ==
  /\ pc \in Resting => retry = 0 /\ tries <= MaxRetry + 1
  /\ pc \in {"begin", "submit"} => tries <= retry
  /\ pc \in Waiting \cup {"check"} => tries <= retry + 1

\* The entries and the operations of an address, and the one not yet offered.
SlotsOf(a) == { s \in Slots : slots[s] = a }
OpsOf(a) == { op \in ops : op.address = a }
Offered(a) == IF pc = "submit" /\ cur = a THEN 1 ELSE 0

\* Operations differ, since a call counts its tries.
PastInv ==
  /\ IsFiniteSet(ops)
  /\ \A op \in ops : op.call < calls \/ (op.call = calls /\ op.try <= tries)

MapInv ==
  \A a \in Addresses :
    /\ Cardinality(OpsOf(a)) + Offered(a) <= Cardinality(SlotsOf(a))
    /\ ~leaked => Cardinality(OpsOf(a)) + Offered(a) = Cardinality(SlotsOf(a))

Called == pc \in InCall => calls > 0

IInv ==
  TypeOK /\ Called /\ FutureInv /\ OperationInv /\ VerifiedInv /\ RetryInv /\ PastInv /\ MapInv

-----------------------------------------------------------------------------
(* Counting the map *)

\* There are finitely many entries of any key.
LEMMA SlotsFinite ==
  ASSUME NEW a
  PROVE  IsFiniteSet(SlotsOf(a)) /\ Cardinality(SlotsOf(a)) \in Nat
<1>1. IsFiniteSet(Slots)
  BY FS_Interval, BoundAssumption DEF Slots
<1>2. SlotsOf(a) \in SUBSET Slots
  BY DEF SlotsOf
<1> QED
  BY <1>1, <1>2, FS_Subset, FS_CardinalityType

\* map_set adds one entry of its key and leaves the others.
LEMMA SlotSet ==
  ASSUME TypeOK, NEW k \in Addresses \cup {Export}, map_set(k)
  PROVE  /\ slots' \in [Slots -> Addresses \cup {None, Export}]
         /\ \A a \in Addresses :
              Cardinality(SlotsOf(a))' = Cardinality(SlotsOf(a)) + (IF a = k THEN 1 ELSE 0)
<1>1. PICK s \in Slots : slots[s] = None /\ slots' = [slots EXCEPT ![s] = k]
  BY DEF map_set, FirstSlot
<1>2. slots' \in [Slots -> Addresses \cup {None, Export}]
  BY <1>1 DEF TypeOK
<1>3. ASSUME NEW a \in Addresses
      PROVE  Cardinality(SlotsOf(a))' = Cardinality(SlotsOf(a)) + (IF a = k THEN 1 ELSE 0)
  <2>1. a # None
    BY AddressAssumption
  <2>2. CASE a = k
    <3>1. SlotsOf(a)' = SlotsOf(a) \cup {s} /\ s \notin SlotsOf(a)
      BY <1>1, <2>1, <2>2 DEF SlotsOf, TypeOK
    <3> QED
      BY <2>2, <3>1, SlotsFinite, FS_AddElement
  <2>3. CASE a # k
    <3>1. SlotsOf(a)' = SlotsOf(a)
      BY <1>1, <2>1, <2>3 DEF SlotsOf, TypeOK
    <3> QED
      BY <2>3, <3>1, SlotsFinite
  <2> QED
    BY <2>2, <2>3
<1> QED
  BY <1>2, <1>3

\* map_pop takes one entry of its key, if there is one, and leaves the others.
LEMMA SlotPop ==
  ASSUME TypeOK, NEW k \in Addresses \cup {Export}, map_pop(k)
  PROVE  /\ slots' \in [Slots -> Addresses \cup {None, Export}]
         /\ \A a \in Addresses :
              Cardinality(SlotsOf(a))' =
                Cardinality(SlotsOf(a)) - (IF a = k /\ InMap(k) THEN 1 ELSE 0)
<1>1. CASE ~InMap(k) /\ UNCHANGED slots
  <2>1. \A a \in Addresses : SlotsOf(a)' = SlotsOf(a)
    BY <1>1 DEF SlotsOf
  <2> QED
    BY <1>1, <2>1, SlotsFinite DEF TypeOK
<1>2. CASE \E s \in Slots : FirstSlot(k, s) /\ slots' = [slots EXCEPT ![s] = None]
  <2>1. PICK s \in Slots : slots[s] = k /\ slots' = [slots EXCEPT ![s] = None]
    BY <1>2 DEF FirstSlot
  <2>2. InMap(k)
    BY <2>1 DEF InMap
  <2>3. slots' \in [Slots -> Addresses \cup {None, Export}]
    BY <2>1 DEF TypeOK
  <2>4. ASSUME NEW a \in Addresses
        PROVE  Cardinality(SlotsOf(a))' = Cardinality(SlotsOf(a)) - (IF a = k THEN 1 ELSE 0)
    <3>1. a # None
      BY AddressAssumption
    <3>2. CASE a = k
      <4>1. SlotsOf(a)' = SlotsOf(a) \ {s} /\ s \in SlotsOf(a)
        BY <2>1, <3>1, <3>2 DEF SlotsOf, TypeOK
      <4> QED
        <5>1. IsFiniteSet(SlotsOf(a)) /\ Cardinality(SlotsOf(a)) \in Nat
          BY SlotsFinite
        <5>2. Cardinality(SlotsOf(a) \ {s}) = Cardinality(SlotsOf(a)) - 1
          BY <4>1, <5>1, FS_RemoveElement
        <5> QED
          BY <3>2, <4>1, <5>2
    <3>3. CASE a # k
      <4>1. SlotsOf(a)' = SlotsOf(a)
        BY <2>1, <3>1, <3>3 DEF SlotsOf, TypeOK
      <4> QED
        BY <3>3, <4>1, SlotsFinite
    <3> QED
      BY <3>2, <3>3
  <2> QED
    BY <2>2, <2>3, <2>4
<1> QED
  BY <1>1, <1>2 DEF map_pop

\* There are finitely many operations at an address.
LEMMA OpsFinite ==
  ASSUME IsFiniteSet(ops), NEW a
  PROVE  IsFiniteSet(OpsOf(a)) /\ Cardinality(OpsOf(a)) \in Nat
<1>1. OpsOf(a) \in SUBSET ops
  BY DEF OpsOf
<1> QED
  BY <1>1, FS_Subset, FS_CardinalityType

-----------------------------------------------------------------------------
(* Every step keeps each part of the invariant. *)

\* Every variable keeps its type.
LEMMA TypeStep ==
  ASSUME TypeOK, Called, FutureInv, Next
  PROVE  TypeOK'
<1> USE AddressAssumption, BoundAssumption DEF TypeOK, Labels, Results, Files, callVars, mapVars, pastVars, vars, Returns, InCall, Waiting, FutureInv
<1>1. CASE Call
  BY <1>1 DEF Call
<1>2. CASE NoWorkspace
  BY <1>2 DEF NoWorkspace
<1>3. CASE HashIsCorrect
  BY <1>3 DEF HashIsCorrect
<1>4. CASE MapFull
  BY <1>4 DEF MapFull, FileRemoved
<1>5. CASE Register
  <2>1. PICK a \in Addresses : /\ cur' = a /\ heap' = [heap EXCEPT ![a] = "Enqueued"]
                               /\ map_set(a)
    BY <1>5 DEF Register
  <2>2. slots' \in [Slots -> Addresses \cup {None, Export}]
    BY <2>1, SlotSet
  <2> QED
    BY <1>5, <2>1, <2>2 DEF Register, FileRemoved
<1>6. CASE Accepted
  <2>1. Operation \in [address : Addresses, call : 1..MaxCalls, try : Nat]
    BY <1>6 DEF Accepted, Operation, Called
  <2> QED
    BY <1>6, <2>1 DEF Accepted
<1>7. CASE Refused
  BY <1>7 DEF Refused
<1>8. CASE AwaitReturns
  BY <1>8 DEF AwaitReturns
<1>9. CASE TimerExpires
  BY <1>9 DEF TimerExpires
<1>10. CASE WaitAgain
  BY <1>10 DEF WaitAgain
<1>11. CASE AwaitSeesExit
  BY <1>11 DEF AwaitSeesExit
<1>12. CASE Verified
  BY <1>12 DEF Verified
<1>13. CASE NotVerified
  BY <1>13 DEF NotVerified, TooOften
<1>14. ASSUME NEW op \in ops, Callback(op)
      PROVE  TypeOK'
  <2>1. op.address \in Addresses
    OBVIOUS
  <2>2. slots' \in [Slots -> Addresses \cup {None, Export}]
    BY <1>14, <2>1, SlotPop DEF Callback
  <2> QED
    BY <1>14, <2>1, <2>2 DEF Callback, Settled
<1>15. CASE AgentWrites
  BY <1>15 DEF AgentWrites
<1>16. CASE ExportBegins
  <2>1. slots' \in [Slots -> Addresses \cup {None, Export}]
    BY <1>16, SlotSet DEF ExportBegins
  <2> QED
    BY <1>16, <2>1 DEF ExportBegins
<1>17. CASE ExportEnds
  <2>1. slots' \in [Slots -> Addresses \cup {None, Export}]
    BY <1>17, SlotPop DEF ExportEnds
  <2> QED
    BY <1>17, <2>1 DEF ExportEnds
<1>18. CASE Drain
  BY <1>18 DEF Drain
<1>19. CASE Drained
  BY <1>19 DEF Drained
<1>20. CASE PumpIdle
  BY <1>20 DEF PumpIdle
<1> QED
  BY <1>1, <1>2, <1>3, <1>4, <1>5, <1>6, <1>7, <1>8, <1>9, <1>10, <1>11, <1>12, <1>13, <1>14, <1>15, <1>16, <1>17, <1>18, <1>19, <1>20
    DEF Next, CallStep, AgentStep

\* A call has a number, and the future it waits for is the only one.
LEMMA FutureStep ==
  ASSUME TypeOK, Called, FutureInv, Next
  PROVE  Called' /\ FutureInv'
<1> USE AddressAssumption, BoundAssumption DEF TypeOK, Labels, Results, callVars, mapVars, pastVars, vars, Returns, Called, InCall, Waiting, FutureInv
<1>1. CASE Call
  BY <1>1 DEF Call
<1>2. CASE NoWorkspace
  BY <1>2 DEF NoWorkspace
<1>3. CASE HashIsCorrect
  BY <1>3 DEF HashIsCorrect
<1>4. CASE MapFull
  BY <1>4 DEF MapFull
<1>5. CASE Register
  <2>1. PICK a \in Addresses : heap[a] = None /\ cur' = a /\ heap' = [heap EXCEPT ![a] = "Enqueued"]
    BY <1>5 DEF Register
  <2>2. pc = "begin" /\ cur = None /\ a # None /\ pc' = "submit" /\ UNCHANGED calls
    BY <1>5, <2>1 DEF Register
  <2>3. \A b \in Addresses : heap'[b] # None <=> b = a
    BY <2>1, <2>2 DEF None
  <2> QED
    BY <2>1, <2>2, <2>3
<1>6. CASE Accepted
  BY <1>6 DEF Accepted
<1>7. CASE Refused
  BY <1>7 DEF Refused
<1>8. CASE AwaitReturns
  BY <1>8 DEF AwaitReturns
<1>9. CASE TimerExpires
  BY <1>9 DEF TimerExpires
<1>10. CASE WaitAgain
  BY <1>10 DEF WaitAgain
<1>11. CASE AwaitSeesExit
  BY <1>11 DEF AwaitSeesExit
<1>12. CASE Verified
  BY <1>12 DEF Verified
<1>13. CASE NotVerified
  BY <1>13 DEF NotVerified
<1>14. ASSUME NEW op \in ops, Callback(op)
      PROVE  Called' /\ FutureInv'
  <2>1. UNCHANGED <<pc, cur, calls>>
    BY <1>14 DEF Callback
  <2>2. PICK r \in {"Success", "Denied", "Failure"} : Settled(op, r)
    BY <1>14 DEF Callback
  <2>3. \A a \in Addresses : heap'[a] # None <=> heap[a] # None
    BY <2>2 DEF Settled, None
  <2> QED
    BY <2>1, <2>3
<1>15. CASE AgentWrites
  BY <1>15 DEF AgentWrites
<1>16. CASE ExportBegins
  BY <1>16 DEF ExportBegins
<1>17. CASE ExportEnds
  BY <1>17 DEF ExportEnds
<1>18. CASE Drain
  BY <1>18 DEF Drain
<1>19. CASE Drained
  BY <1>19 DEF Drained
<1>20. CASE PumpIdle
  BY <1>20 DEF PumpIdle
<1> QED
  BY <1>1, <1>2, <1>3, <1>4, <1>5, <1>6, <1>7, <1>8, <1>9, <1>10, <1>11, <1>12, <1>13, <1>14, <1>15, <1>16, <1>17, <1>18, <1>19, <1>20
    DEF Next, CallStep, AgentStep

\* While no future was deserted the agent knows the one that is waited for.
LEMMA OperationStep ==
  ASSUME TypeOK, FutureInv, OperationInv, Next
  PROVE  OperationInv'
<1> USE AddressAssumption DEF TypeOK, Labels, callVars, mapVars, pastVars, vars, Returns, Waiting, FutureInv, OperationInv
<1>1. CASE Call
  BY <1>1 DEF Call
<1>2. CASE NoWorkspace
  BY <1>2 DEF NoWorkspace
<1>3. CASE HashIsCorrect
  BY <1>3 DEF HashIsCorrect
<1>4. CASE MapFull
  BY <1>4 DEF MapFull
<1>5. CASE Register
  BY <1>5 DEF Register
<1>6. CASE Accepted
  BY <1>6 DEF Accepted, Operation
<1>7. CASE Refused
  BY <1>7 DEF Refused
<1>8. CASE AwaitReturns
  BY <1>8 DEF AwaitReturns
<1>9. CASE TimerExpires
  BY <1>9 DEF TimerExpires
<1>10. CASE WaitAgain
  BY <1>10 DEF WaitAgain
<1>11. CASE AwaitSeesExit
  BY <1>11 DEF AwaitSeesExit
<1>12. CASE Verified
  BY <1>12 DEF Verified
<1>13. CASE NotVerified
  BY <1>13 DEF NotVerified
<1>14. ASSUME NEW op \in ops, Callback(op)
      PROVE  OperationInv'
  <2>1. ~deserted => ops' = {} /\ pc \in Waiting
    BY <1>14 DEF Callback
  <2> QED
    BY <1>14, <2>1 DEF Callback
<1>15. CASE AgentWrites
  BY <1>15 DEF AgentWrites
<1>16. CASE ExportBegins
  BY <1>16 DEF ExportBegins
<1>17. CASE ExportEnds
  BY <1>17 DEF ExportEnds
<1>18. CASE Drain
  BY <1>18 DEF Drain
<1>19. CASE Drained
  BY <1>19 DEF Drained
<1>20. CASE PumpIdle
  BY <1>20 DEF PumpIdle
<1> QED
  BY <1>1, <1>2, <1>3, <1>4, <1>5, <1>6, <1>7, <1>8, <1>9, <1>10, <1>11, <1>12, <1>13, <1>14, <1>15, <1>16, <1>17, <1>18, <1>19, <1>20
    DEF Next, CallStep, AgentStep

\* A file that was verified stays verified until the next call.
LEMMA VerifiedStep ==
  ASSUME TypeOK, OperationInv, VerifiedInv, Next
  PROVE  VerifiedInv'
<1> USE DEF TypeOK, callVars, mapVars, pastVars, vars, Returns, Waiting, Resting, OperationInv, VerifiedInv
<1>1. CASE Call
  BY <1>1 DEF Call
<1>2. CASE NoWorkspace
  BY <1>2 DEF NoWorkspace
<1>3. CASE HashIsCorrect
  BY <1>3 DEF HashIsCorrect
<1>4. CASE MapFull
  BY <1>4 DEF MapFull
<1>5. CASE Register
  BY <1>5 DEF Register
<1>6. CASE Accepted
  BY <1>6 DEF Accepted
<1>7. CASE Refused
  BY <1>7 DEF Refused
<1>8. CASE AwaitReturns
  BY <1>8 DEF AwaitReturns
<1>9. CASE TimerExpires
  BY <1>9 DEF TimerExpires
<1>10. CASE WaitAgain
  BY <1>10 DEF WaitAgain
<1>11. CASE AwaitSeesExit
  BY <1>11 DEF AwaitSeesExit
<1>12. CASE Verified
  BY <1>12 DEF Verified, HashVerified
<1>13. CASE NotVerified
  BY <1>13 DEF NotVerified
<1>14. ASSUME NEW op \in ops, Callback(op)
      PROVE  VerifiedInv'
  BY <1>14 DEF Callback
<1>15. CASE AgentWrites
  BY <1>15 DEF AgentWrites
<1>16. CASE ExportBegins
  BY <1>16 DEF ExportBegins
<1>17. CASE ExportEnds
  BY <1>17 DEF ExportEnds
<1>18. CASE Drain
  BY <1>18 DEF Drain
<1>19. CASE Drained
  BY <1>19 DEF Drained
<1>20. CASE PumpIdle
  BY <1>20 DEF PumpIdle
<1> QED
  BY <1>1, <1>2, <1>3, <1>4, <1>5, <1>6, <1>7, <1>8, <1>9, <1>10, <1>11, <1>12, <1>13, <1>14, <1>15, <1>16, <1>17, <1>18, <1>19, <1>20
    DEF Next, CallStep, AgentStep

\* Retries and submissions go together.
LEMMA RetryStep ==
  ASSUME TypeOK, RetryInv, Next
  PROVE  RetryInv'
<1> USE BoundAssumption DEF TypeOK, Labels, callVars, mapVars, pastVars, vars, Returns, Waiting, Resting, RetryInv
<1>1. CASE Call
  BY <1>1 DEF Call
<1>2. CASE NoWorkspace
  BY <1>2 DEF NoWorkspace
<1>3. CASE HashIsCorrect
  BY <1>3 DEF HashIsCorrect
<1>4. CASE MapFull
  BY <1>4 DEF MapFull
<1>5. CASE Register
  BY <1>5 DEF Register
<1>6. CASE Accepted
  BY <1>6 DEF Accepted
<1>7. CASE Refused
  BY <1>7 DEF Refused
<1>8. CASE AwaitReturns
  BY <1>8 DEF AwaitReturns
<1>9. CASE TimerExpires
  BY <1>9 DEF TimerExpires
<1>10. CASE WaitAgain
  BY <1>10 DEF WaitAgain
<1>11. CASE AwaitSeesExit
  BY <1>11 DEF AwaitSeesExit
<1>12. CASE Verified
  BY <1>12 DEF Verified
<1>13. CASE NotVerified
  BY <1>13 DEF NotVerified, TooOften
<1>14. ASSUME NEW op \in ops, Callback(op)
      PROVE  RetryInv'
  BY <1>14 DEF Callback
<1>15. CASE AgentWrites
  BY <1>15 DEF AgentWrites
<1>16. CASE ExportBegins
  BY <1>16 DEF ExportBegins
<1>17. CASE ExportEnds
  BY <1>17 DEF ExportEnds
<1>18. CASE Drain
  BY <1>18 DEF Drain
<1>19. CASE Drained
  BY <1>19 DEF Drained
<1>20. CASE PumpIdle
  BY <1>20 DEF PumpIdle
<1> QED
  BY <1>1, <1>2, <1>3, <1>4, <1>5, <1>6, <1>7, <1>8, <1>9, <1>10, <1>11, <1>12, <1>13, <1>14, <1>15, <1>16, <1>17, <1>18, <1>19, <1>20
    DEF Next, CallStep, AgentStep

\* Operations are finitely many, and of this call or of an earlier one.
LEMMA PastStep ==
  ASSUME TypeOK, PastInv, Next
  PROVE  PastInv'
<1> USE DEF TypeOK, callVars, mapVars, pastVars, vars, Returns, PastInv
<1>1. CASE Call
  BY <1>1 DEF Call
<1>2. CASE NoWorkspace
  BY <1>2 DEF NoWorkspace
<1>3. CASE HashIsCorrect
  BY <1>3 DEF HashIsCorrect
<1>4. CASE MapFull
  BY <1>4 DEF MapFull
<1>5. CASE Register
  BY <1>5 DEF Register
<1>6. CASE Accepted
  <2>1. IsFiniteSet(ops')
    BY <1>6, FS_AddElement DEF Accepted
  <2> QED
    BY <1>6, <2>1 DEF Accepted, Operation
<1>7. CASE Refused
  BY <1>7 DEF Refused
<1>8. CASE AwaitReturns
  BY <1>8 DEF AwaitReturns
<1>9. CASE TimerExpires
  BY <1>9 DEF TimerExpires
<1>10. CASE WaitAgain
  BY <1>10 DEF WaitAgain
<1>11. CASE AwaitSeesExit
  BY <1>11 DEF AwaitSeesExit
<1>12. CASE Verified
  BY <1>12 DEF Verified
<1>13. CASE NotVerified
  BY <1>13 DEF NotVerified
<1>14. ASSUME NEW op \in ops, Callback(op)
      PROVE  PastInv'
  <2>1. IsFiniteSet(ops')
    BY <1>14, FS_RemoveElement DEF Callback
  <2> QED
    BY <1>14, <2>1 DEF Callback
<1>15. CASE AgentWrites
  BY <1>15 DEF AgentWrites
<1>16. CASE ExportBegins
  BY <1>16 DEF ExportBegins
<1>17. CASE ExportEnds
  BY <1>17 DEF ExportEnds
<1>18. CASE Drain
  BY <1>18 DEF Drain
<1>19. CASE Drained
  BY <1>19 DEF Drained
<1>20. CASE PumpIdle
  BY <1>20 DEF PumpIdle
<1> QED
  BY <1>1, <1>2, <1>3, <1>4, <1>5, <1>6, <1>7, <1>8, <1>9, <1>10, <1>11, <1>12, <1>13, <1>14, <1>15, <1>16, <1>17, <1>18, <1>19, <1>20
    DEF Next, CallStep, AgentStep

\* A step that leaves slots, operations and what is offered leaves the count.
LEMMA MapUntouched ==
  ASSUME MapInv, UNCHANGED mapVars, UNCHANGED leaked,
         \A a \in Addresses : Offered(a)' = Offered(a)
  PROVE  MapInv'
BY DEF MapInv, mapVars, SlotsOf, OpsOf

\* A key that is not an address does not count.
LEMMA MapForeign ==
  ASSUME MapInv, UNCHANGED <<pc, cur, ops, leaked>>,
         \A a \in Addresses : Cardinality(SlotsOf(a))' = Cardinality(SlotsOf(a))
  PROVE  MapInv'
BY DEF MapInv, OpsOf, Offered

\* Entries and operations are counted alike.
LEMMA MapStep ==
  ASSUME TypeOK, FutureInv, PastInv, MapInv, Next
  PROVE  MapInv'
<1> USE AddressAssumption DEF TypeOK, callVars, mapVars, pastVars, vars, Returns, PastInv, MapInv, FutureInv, Waiting
<1>1. CASE Call
  <2>1. UNCHANGED <<mapVars, leaked>> /\ \A a \in Addresses : Offered(a)' = Offered(a)
    BY <1>1 DEF Call, Offered
  <2> QED
    BY <2>1, MapUntouched DEF mapVars
<1>2. CASE NoWorkspace
  <2>1. UNCHANGED <<mapVars, leaked>> /\ \A a \in Addresses : Offered(a)' = Offered(a)
    BY <1>2 DEF NoWorkspace, Offered
  <2> QED
    BY <2>1, MapUntouched DEF mapVars
<1>3. CASE HashIsCorrect
  <2>1. UNCHANGED <<mapVars, leaked>> /\ \A a \in Addresses : Offered(a)' = Offered(a)
    BY <1>3 DEF HashIsCorrect, Offered
  <2> QED
    BY <2>1, MapUntouched DEF mapVars
<1>4. CASE MapFull
  <2>1. UNCHANGED <<mapVars, leaked>> /\ \A a \in Addresses : Offered(a)' = Offered(a)
    BY <1>4 DEF MapFull, Offered
  <2> QED
    BY <2>1, MapUntouched DEF mapVars
<1>5. CASE Register
  <2>1. PICK k \in Addresses : cur' = k /\ map_set(k)
    BY <1>5 DEF Register
  <2>2. ASSUME NEW a \in Addresses
        PROVE  /\ Cardinality(SlotsOf(a))' = Cardinality(SlotsOf(a)) + (IF a = k THEN 1 ELSE 0)
               /\ Cardinality(OpsOf(a))' = Cardinality(OpsOf(a))
               /\ Offered(a) = 0 /\ Offered(a)' = IF a = k THEN 1 ELSE 0
    BY <1>5, <2>1, SlotSet DEF Register, OpsOf, Offered
  <2> QED
    BY <1>5, <2>2, SlotsFinite, OpsFinite DEF Register
<1>6. CASE Accepted
  <2>1. Operation \notin ops /\ Operation.address = cur
    BY <1>6 DEF Accepted, Operation, PastInv
  <2>2. ASSUME NEW a \in Addresses
        PROVE  /\ Cardinality(OpsOf(a))' = Cardinality(OpsOf(a)) + (IF a = cur THEN 1 ELSE 0)
               /\ SlotsOf(a)' = SlotsOf(a)
               /\ Offered(a) = (IF a = cur THEN 1 ELSE 0) /\ Offered(a)' = 0
    <3>1. CASE a = cur
      <4>1. OpsOf(a)' = OpsOf(a) \cup {Operation} /\ Operation \notin OpsOf(a)
        BY <1>6, <2>1, <3>1 DEF Accepted, OpsOf
      <4>2. Cardinality(OpsOf(a))' = Cardinality(OpsOf(a)) + 1
        BY <4>1, OpsFinite, FS_AddElement
      <4> QED
        BY <1>6, <3>1, <4>2 DEF Accepted, SlotsOf, Offered
    <3>2. CASE a # cur
      <4>1. OpsOf(a)' = OpsOf(a)
        BY <1>6, <2>1, <3>2 DEF Accepted, OpsOf
      <4> QED
        BY <1>6, <3>2, <4>1, OpsFinite DEF Accepted, SlotsOf, Offered
    <3> QED
      BY <3>1, <3>2
  <2>3. ASSUME NEW a \in Addresses
        PROVE  /\ Cardinality(OpsOf(a))' + Offered(a)' = Cardinality(OpsOf(a)) + Offered(a)
               /\ Cardinality(SlotsOf(a))' = Cardinality(SlotsOf(a))
    BY <2>2, OpsFinite
  <2> QED
    BY <1>6, <2>3 DEF Accepted, pastVars
<1>7. CASE Refused
  <2>1. leaked' /\ UNCHANGED mapVars /\ \A a \in Addresses : Offered(a)' = 0 /\ Offered(a) \in {0, 1}
    BY <1>7 DEF Refused, Offered
  <2>2. ASSUME NEW a \in Addresses
        PROVE  Cardinality(OpsOf(a)) <= Cardinality(SlotsOf(a))
    BY <2>1, OpsFinite, SlotsFinite
  <2>3. ASSUME NEW a \in Addresses
        PROVE  Cardinality(OpsOf(a))' + Offered(a)' <= Cardinality(SlotsOf(a))'
    <3>1. OpsOf(a)' = OpsOf(a) /\ SlotsOf(a)' = SlotsOf(a) /\ Offered(a)' = 0
      BY <2>1 DEF OpsOf, SlotsOf
    <3> QED
      BY <2>2, <3>1, OpsFinite
  <2> QED
    BY <2>1, <2>3
<1>8. CASE AwaitReturns
  <2>1. UNCHANGED <<mapVars, leaked>> /\ \A a \in Addresses : Offered(a)' = Offered(a)
    BY <1>8 DEF AwaitReturns, Offered
  <2> QED
    BY <2>1, MapUntouched DEF mapVars
<1>9. CASE TimerExpires
  <2>1. UNCHANGED <<mapVars, leaked>> /\ \A a \in Addresses : Offered(a)' = Offered(a)
    BY <1>9 DEF TimerExpires, Offered
  <2> QED
    BY <2>1, MapUntouched DEF mapVars
<1>10. CASE WaitAgain
  <2>1. UNCHANGED <<mapVars, leaked>> /\ \A a \in Addresses : Offered(a)' = Offered(a)
    BY <1>10 DEF WaitAgain, Offered
  <2> QED
    BY <2>1, MapUntouched DEF mapVars
<1>11. CASE AwaitSeesExit
  <2>1. UNCHANGED <<mapVars, leaked>> /\ \A a \in Addresses : Offered(a)' = Offered(a)
    BY <1>11 DEF AwaitSeesExit, Offered
  <2> QED
    BY <2>1, MapUntouched DEF mapVars
<1>12. CASE Verified
  <2>1. UNCHANGED <<mapVars, leaked>> /\ \A a \in Addresses : Offered(a)' = Offered(a)
    BY <1>12 DEF Verified, Offered
  <2> QED
    BY <2>1, MapUntouched DEF mapVars
<1>13. CASE NotVerified
  <2>1. UNCHANGED <<mapVars, leaked>> /\ \A a \in Addresses : Offered(a)' = Offered(a)
    BY <1>13 DEF NotVerified, Offered
  <2> QED
    BY <2>1, MapUntouched DEF mapVars
<1>14. ASSUME NEW op \in ops, Callback(op)
      PROVE  MapInv'
  <2> DEFINE k == op.address
  <2>1. k \in Addresses /\ map_pop(k) /\ UNCHANGED <<pc, cur, leaked>> /\ ops' = ops \ {op}
    BY <1>14 DEF Callback, pastVars
  <2>2. op \in OpsOf(k) /\ Cardinality(OpsOf(k)) > 0
    BY <2>1, OpsFinite, FS_EmptySet DEF OpsOf
  <2>3. InMap(k)
    <3>1. Cardinality(SlotsOf(k)) # 0
      BY <2>1, <2>2, OpsFinite, SlotsFinite DEF Offered
    <3>2. SlotsOf(k) # {}
      BY <3>1, FS_EmptySet
    <3> QED
      BY <3>2 DEF SlotsOf, InMap
  <2>4. ASSUME NEW a \in Addresses
        PROVE  Cardinality(OpsOf(a))' = Cardinality(OpsOf(a)) - (IF a = k THEN 1 ELSE 0)
    <3>1. CASE a = k
      <4>1. OpsOf(a)' = OpsOf(a) \ {op}
        BY <2>1 DEF OpsOf
      <4>2. IsFiniteSet(OpsOf(a)) /\ op \in OpsOf(a)
        BY <2>2, <3>1, OpsFinite
      <4>3. Cardinality(OpsOf(a))' = Cardinality(OpsOf(a)) - 1
        BY <4>1, <4>2, FS_RemoveElement
      <4> QED
        BY <3>1, <4>3
    <3>2. CASE a # k
      <4>1. OpsOf(a)' = OpsOf(a)
        BY <2>1, <3>2 DEF OpsOf
      <4> QED
        BY <3>2, <4>1, OpsFinite
    <3> QED
      BY <3>1, <3>2
  <2>5. \A a \in Addresses :
          Cardinality(SlotsOf(a))' = Cardinality(SlotsOf(a)) - (IF a = k THEN 1 ELSE 0)
    BY <2>1, <2>3, SlotPop
  <2>6. ASSUME NEW a \in Addresses
        PROVE  Offered(a)' = Offered(a)
    BY <2>1 DEF Offered
  <2>7. ASSUME NEW a \in Addresses
        PROVE  /\ Cardinality(OpsOf(a)) \in Nat /\ Cardinality(SlotsOf(a)) \in Nat
               /\ Offered(a) \in {0, 1}
    BY OpsFinite, SlotsFinite DEF Offered
  <2> HIDE DEF k
  <2> QED
    BY <2>1, <2>4, <2>5, <2>6, <2>7
<1>15. CASE AgentWrites
  <2>1. UNCHANGED <<mapVars, leaked>> /\ \A a \in Addresses : Offered(a)' = Offered(a)
    BY <1>15 DEF AgentWrites, Offered
  <2> QED
    BY <2>1, MapUntouched DEF mapVars
<1>16. CASE ExportBegins
  <2>1. \A a \in Addresses : Cardinality(SlotsOf(a))' = Cardinality(SlotsOf(a))
    BY <1>16, SlotSet, SlotsFinite DEF ExportBegins
  <2> QED
    BY <1>16, <2>1, MapForeign DEF ExportBegins
<1>17. CASE ExportEnds
  <2>1. \A a \in Addresses : Cardinality(SlotsOf(a))' = Cardinality(SlotsOf(a))
    BY <1>17, SlotPop, SlotsFinite DEF ExportEnds
  <2> QED
    BY <1>17, <2>1, MapForeign DEF ExportEnds
<1>18. CASE Drain
  <2>1. UNCHANGED <<mapVars, leaked>> /\ \A a \in Addresses : Offered(a)' = Offered(a)
    BY <1>18 DEF Drain, Offered
  <2> QED
    BY <2>1, MapUntouched DEF mapVars
<1>19. CASE Drained
  <2>1. UNCHANGED <<mapVars, leaked>> /\ \A a \in Addresses : Offered(a)' = Offered(a)
    BY <1>19 DEF Drained, Offered
  <2> QED
    BY <2>1, MapUntouched DEF mapVars
<1>20. CASE PumpIdle
  <2>1. UNCHANGED <<mapVars, leaked>> /\ \A a \in Addresses : Offered(a)' = Offered(a)
    BY <1>20 DEF PumpIdle, Offered
  <2> QED
    BY <2>1, MapUntouched DEF mapVars
<1> QED
  BY <1>1, <1>2, <1>3, <1>4, <1>5, <1>6, <1>7, <1>8, <1>9, <1>10, <1>11, <1>12, <1>13, <1>14, <1>15, <1>16, <1>17, <1>18, <1>19, <1>20
    DEF Next, CallStep, AgentStep

-----------------------------------------------------------------------------
(* The theorems *)

\* The invariant holds at the beginning.
LEMMA InitInv == Init => IInv
<1> SUFFICES ASSUME Init PROVE IInv
  OBVIOUS
<1> USE AddressAssumption, BoundAssumption DEF Init
<1>1. TypeOK
  <2>1. heap \in [Addresses -> Results \cup {None}] /\ slots \in [Slots -> Addresses \cup {None, Export}]
    OBVIOUS
  <2>2. calls \in 0..MaxCalls /\ retry \in 0..MaxRetry /\ tries \in Nat
    OBVIOUS
  <2> QED
    BY <2>1, <2>2 DEF TypeOK, Labels, Results, Files
<1>2. Called /\ FutureInv /\ OperationInv /\ VerifiedInv /\ RetryInv
  BY DEF Called, InCall, FutureInv, OperationInv, VerifiedInv, RetryInv, Waiting, Resting
<1>3. PastInv
  BY FS_EmptySet DEF PastInv
<1>4. ASSUME NEW a \in Addresses
      PROVE  /\ Cardinality(OpsOf(a)) = 0 /\ Cardinality(SlotsOf(a)) = 0
             /\ Offered(a) = 0
  <2>1. OpsOf(a) = {} /\ SlotsOf(a) = {} /\ Offered(a) = 0
    BY DEF OpsOf, SlotsOf, Offered
  <2> QED
    BY <2>1, FS_EmptySet
<1>5. MapInv
  <2>1. ASSUME NEW a \in Addresses
        PROVE  Cardinality(OpsOf(a)) + Offered(a) = 0 /\ Cardinality(SlotsOf(a)) = 0
    BY <1>4
  <2>2. ASSUME NEW a \in Addresses
        PROVE  /\ Cardinality(OpsOf(a)) + Offered(a) <= Cardinality(SlotsOf(a))
               /\ Cardinality(OpsOf(a)) + Offered(a) = Cardinality(SlotsOf(a))
    BY <2>1
  <2> QED
    BY <2>2 DEF MapInv
<1> QED
  BY <1>1, <1>2, <1>3, <1>5 DEF IInv

\* Every step keeps the invariant.
LEMMA StepInv == IInv /\ [Next]_vars => IInv'
<1>1. ASSUME IInv, Next
      PROVE  IInv'
  BY <1>1, TypeStep, FutureStep, OperationStep, VerifiedStep, RetryStep, PastStep, MapStep DEF IInv
<1>2. ASSUME IInv, UNCHANGED vars
      PROVE  IInv'
  <2> USE <1>2 DEF vars, callVars, mapVars, pastVars, IInv
  <2>1. TypeOK' /\ Called' /\ FutureInv'
    BY DEF TypeOK, Called, FutureInv
  <2>2. OperationInv' /\ VerifiedInv' /\ RetryInv' /\ PastInv'
    BY DEF OperationInv, VerifiedInv, RetryInv, PastInv
  <2>3. MapInv'
    BY MapUntouched DEF Offered
  <2> QED
    BY <2>1, <2>2, <2>3
<1> QED
  BY <1>1, <1>2

\* The inductive invariant: one future, one operation, and a map that counts.
THEOREM DownloadInvariance == Spec => []IInv
BY InitInv, StepInv, PTL DEF Spec

\* The agent writes its answer to the future that is waited for.
THEOREM FutureKept == Spec => []FutureOutlivesDownload
<1>1. IInv => FutureOutlivesDownload
  BY DEF IInv, OperationInv, Waiting, FutureOutlivesDownload
<1> QED
  BY <1>1, DownloadInvariance, PTL

\* After a success the verified file is on the disk.
THEOREM SuccessVerified == Spec => []SuccessMeansVerified
<1>1. IInv => SuccessMeansVerified
  BY DEF IInv, OperationInv, VerifiedInv, Waiting, Resting, SuccessMeansVerified
<1> QED
  BY <1>1, DownloadInvariance, PTL

\* A call never submits more than the retries and one, and leaves none behind.
THEOREM RetriesBounded == Spec => []RetriesAreBounded
<1>1. IInv => RetriesAreBounded
  BY BoundAssumption DEF IInv, TypeOK, Labels, RetryInv, Waiting, Resting, RetriesAreBounded
<1> QED
  BY <1>1, DownloadInvariance, PTL

\* Each download in the map is one the agent still has to answer, also when
\* futures were deserted and their addresses used again.
THEOREM PendingSound == Spec => []PendingIsReal
<1>1. ASSUME IInv, ~leaked, NEW s \in Slots, slots[s] \in Addresses
      PROVE  (slots[s] = cur /\ pc = "submit") \/ \E op \in ops : op.address = slots[s]
  <2> DEFINE a == slots[s]
  <2>1. Cardinality(OpsOf(a)) + Offered(a) = Cardinality(SlotsOf(a)) /\ IsFiniteSet(ops)
    BY <1>1 DEF IInv, MapInv, PastInv
  <2>2. Cardinality(SlotsOf(a)) # 0
    BY SlotsFinite, FS_EmptySet DEF SlotsOf
  <2>3. CASE Offered(a) # 0
    BY <2>3 DEF Offered
  <2>4. CASE Offered(a) = 0
    <3>1. OpsOf(a) # {}
      BY <2>1, <2>2, <2>4, OpsFinite, FS_EmptySet
    <3> QED
      BY <3>1 DEF OpsOf
  <2> QED
    BY <2>3, <2>4
<1>2. IInv => PendingIsReal
  BY <1>1 DEF PendingIsReal
<1> QED
  BY <1>2, DownloadInvariance, PTL

\* An empty map means that no download is under way, also after refused
\* operations and deserted futures.
THEOREM DrainedSound == Spec => []DrainedMeansDone
<1>1. ASSUME IInv, map_is_empty
      PROVE  ops = {} /\ pc # "submit"
  <2>1. ASSUME NEW a \in Addresses
        PROVE  OpsOf(a) = {} /\ Offered(a) = 0
    <3>1. SlotsOf(a) = {}
      BY <1>1, AddressAssumption DEF map_is_empty, SlotsOf
    <3>2. Cardinality(OpsOf(a)) + Offered(a) <= 0 /\ IsFiniteSet(ops)
      BY <1>1, <3>1, FS_EmptySet DEF IInv, MapInv, PastInv
    <3>3. Cardinality(OpsOf(a)) \in Nat /\ Offered(a) \in {0, 1} /\ IsFiniteSet(OpsOf(a))
      BY <3>2, OpsFinite DEF Offered
    <3>4. Cardinality(OpsOf(a)) = 0 /\ Offered(a) = 0
      BY <3>2, <3>3
    <3> QED
      BY <3>3, <3>4, FS_EmptySet
  <2>2. ops = {}
    BY <1>1, <2>1 DEF IInv, TypeOK, OpsOf
  <2>3. pc # "submit"
    BY <1>1, <2>1 DEF IInv, TypeOK, FutureInv, Offered
  <2> QED
    BY <2>2, <2>3
<1>2. IInv => DrainedMeansDone
  BY <1>1 DEF DrainedMeansDone
<1> QED
  BY <1>2, DownloadInvariance, PTL

-----------------------------------------------------------------------------
(* The refinement of DownloadContract *)

\* A step of the call is a step of the contract or takes none.
LEMMA ContractCall ==
  ASSUME IInv, Call \/ CallStep
  PROVE  [Contract!DownloadNext]_(Contract!downloadVars)
<1> USE DEF IInv, TypeOK, Called, FutureInv, Waiting, callVars, mapVars, pastVars, Returns,
            InCall, Transferring, Contract!downloadVars, Contract!DownloadNext
<1>1. CASE Call
  <2>1. Contract!Ask
    BY <1>1 DEF Call, Files, Contract!Ask, Contract!Files
  <2> QED
    BY <2>1
<1>2. CASE NoWorkspace \/ MapFull
  <2>1. Contract!Fail
    BY <1>2 DEF NoWorkspace, MapFull, FileRemoved, Contract!Fail, Contract!Failures
  <2> QED
    BY <2>1
<1>3. CASE Register
  <2>1. \/ Contract!Discard
        \/ UNCHANGED Contract!downloadVars
    BY <1>3 DEF Register, FileRemoved, Contract!Discard
  <2> QED
    BY <2>1
<1>4. CASE Accepted
  <2>1. tries <= MaxRetry
    BY <1>4, BoundAssumption DEF Accepted, RetryInv
  <2>2. heap[cur] # "Enqueued" => deserted
    BY <1>4 DEF Accepted, OperationInv
  <2>3. CASE heap[cur] = "Enqueued"
    BY <1>4, <2>1, <2>3 DEF Accepted, Contract!Begin
  <2>4. CASE heap[cur] # "Enqueued"
    BY <1>4, <2>1, <2>2, <2>4 DEF Accepted, Contract!Begin
  <2> QED
    BY <2>3, <2>4
<1>5. CASE Refused
  <2>1. Contract!Fail
    BY <1>5 DEF Refused, Contract!Fail, Contract!Failures
  <2> QED
    BY <2>1
<1>6. CASE AwaitReturns
  <2>1. CASE pc = "wait" /\ heap[cur] = "Success"
    <3>1. UNCHANGED Contract!downloadVars
      BY <1>6, <2>1 DEF AwaitReturns
    <3> QED
      BY <3>1
  <2>2. CASE ~(pc = "wait" /\ heap[cur] = "Success")
    <3>1. heap[cur] \in Results \ {"Enqueued"} /\ pc \in {"wait", "expired"}
      BY <1>6 DEF AwaitReturns
    <3>2. pc' = "idle" /\ outcome' \in Contract!Failures
      BY <1>6, <2>2, <3>1 DEF AwaitReturns, Results, Contract!Failures
    <3>3. Contract!Fail
      BY <1>6, <3>1, <3>2 DEF AwaitReturns, Contract!Fail
    <3> QED
      BY <3>3
  <2> QED
    BY <2>1, <2>2
<1>7. CASE AwaitSeesExit
  <2>1. Contract!Desert
    BY <1>7 DEF AwaitSeesExit, Contract!Desert
  <2> QED
    BY <2>1
<1>8. CASE Verified
  <2>1. Contract!Succeed
    BY <1>8 DEF Verified, HashVerified, Contract!Succeed
  <2> QED
    BY <2>1
<1>9. CASE NotVerified
  <2>1. CASE TooOften(retry + 1)
    <3>1. Contract!Fail
      BY <1>9, <2>1 DEF NotVerified, Contract!Fail, Contract!Failures
    <3> QED
      BY <3>1
  <2>2. CASE ~TooOften(retry + 1)
    BY <1>9, <2>2 DEF NotVerified
  <2> QED
    BY <2>1, <2>2
<1>10. CASE HashIsCorrect \/ TimerExpires \/ WaitAgain
  BY <1>10 DEF HashIsCorrect, TimerExpires, WaitAgain
<1> QED
  BY <1>1, <1>2, <1>3, <1>4, <1>5, <1>6, <1>7, <1>8, <1>9, <1>10 DEF CallStep

\* The agent settles the transfer, or writes to a file of a transfer that it has
\* been given and that has not been settled, or that has been left behind.
LEMMA ContractAgent ==
  ASSUME IInv, NEW op \in ops, Callback(op)
  PROVE  Contract!Settle \/ Contract!Write
<1> USE DEF IInv, TypeOK, Called, FutureInv, Waiting, callVars, mapVars, pastVars, Transferring
<1>1. UNCHANGED <<pc, cur, outcome, tries, deserted>> /\ file \in Files /\ file' \in Contract!Files
  BY DEF Callback, pastVars, Files, Contract!Files
<1>2. Transferring \/ deserted
  BY DEF OperationInv
<1>3. PICK r \in {"Success", "Denied", "Failure"} : Settled(op, r)
  BY DEF Callback
<1>4. Transferring' => Transferring
  BY <1>1, <1>3 DEF Settled
<1>5. CASE Transferring /\ ~Transferring'
  BY <1>1, <1>5 DEF Contract!Settle
<1>6. CASE Transferring' = Transferring
  BY <1>1, <1>2, <1>6 DEF Contract!Write
<1> QED
  BY <1>4, <1>5, <1>6

\* Every step of the specification is a step of the contract or takes none.
LEMMA ContractStep ==
  IInv /\ [Next]_vars => [Contract!DownloadNext]_(Contract!downloadVars)
<1> SUFFICES ASSUME IInv, [Next]_vars
             PROVE  [Contract!DownloadNext]_(Contract!downloadVars)
  OBVIOUS
<1>1. CASE Call \/ CallStep
  BY <1>1, ContractCall
<1>2. ASSUME NEW op \in ops, Callback(op)
      PROVE  Contract!DownloadNext
  BY <1>2, ContractAgent DEF Contract!DownloadNext
<1>3. CASE AgentWrites
  <2>1. Transferring \/ deserted
    BY <1>3 DEF AgentWrites, IInv, TypeOK, OperationInv, Waiting, Transferring
  <2>2. Contract!Write
    BY <1>3, <2>1 DEF AgentWrites, callVars, mapVars, pastVars, Transferring, Contract!Write, Contract!Files
  <2> QED
    BY <2>2 DEF Contract!DownloadNext
<1>4. CASE ExportEnds \/ ExportBegins \/ PumpIdle \/ UNCHANGED vars
  BY <1>4
    DEF ExportEnds, ExportBegins, PumpIdle, vars, callVars, mapVars, pastVars, Transferring,
        Contract!downloadVars
<1>5. CASE Drain \/ Drained
  BY <1>5
    DEF Drain, Drained, callVars, mapVars, pastVars, Transferring, InCall,
        Contract!downloadVars
<1> QED
  BY <1>1, <1>2, <1>3, <1>4, <1>5 DEF Next, AgentStep

\* EdgeAppLibReceiveData keeps what it promises, whatever the agent answers,
\* refuses or leaves undone: bounded transfers, an answer after the last of them,
\* success only with the verified file, and no change to it afterwards.
THEOREM ContractRefinement == Spec => KeepsContract
<1>1. Init => Contract!DownloadInit
  BY DEF Init, InCall, Transferring, Files, Contract!DownloadInit, Contract!Files
<1> QED
  BY <1>1, DownloadInvariance, ContractStep, PTL DEF Spec, KeepsContract, Contract!DownloadSpec
=============================================================================
