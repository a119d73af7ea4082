----------------------------- MODULE BatchQueue -----------------------------
(***************************************************************************)
(* What the queue of inferences in libs/send_data is for: inferences that  *)
(* are not sent at once wait in a bounded number of queues, one per model; *)
(* an inference joins the end of its model's queue, goes out alone, or is  *)
(* refused; a queue goes out whole, in one message, and nothing twice.     *)
(*                                                                         *)
(* SendBatch is the array of slots that is searched, filled and emptied by *)
(* several threads.                                                        *)
(***************************************************************************)
EXTENDS Naturals, Sequences, FiniteSets

CONSTANTS Models, MaxQueue, Inferences

VARIABLES
  queue,     \* the inferences of each model that wait, in order
  delivered  \* those that have been put into a message

queueVars == <<queue, delivered>>

QueueInit == queue = [m \in Models |-> <<>>] /\ delivered = {}

InQueue(m, i) == \E j \in 1..Len(queue[m]) : queue[m][j] = i
Fresh(i) == i \notin delivered /\ \A m \in Models : ~InQueue(m, i)
InUse == { m \in Models : queue[m] # <<>> }

Take(m, i) ==
  /\ Fresh(i)
  /\ m \in InUse \/ Cardinality(InUse) < MaxQueue
  /\ queue' = [queue EXCEPT ![m] = Append(@, i)]
  /\ UNCHANGED delivered

DeliverQueue(m) ==
  /\ m \in InUse
  /\ delivered' = delivered \cup { i \in Inferences : InQueue(m, i) }
  /\ queue' = [queue EXCEPT ![m] = <<>>]

DeliverAlone(i) ==
  /\ Fresh(i)
  /\ delivered' = delivered \cup {i}
  /\ UNCHANGED queue

QueueNext ==
  \/ \E m \in Models : DeliverQueue(m) \/ \E i \in Inferences : Take(m, i)
  \/ \E i \in Inferences : DeliverAlone(i)

QueueSpec == QueueInit /\ [][QueueNext]_queueVars
=============================================================================
