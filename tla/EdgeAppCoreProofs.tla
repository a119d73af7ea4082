-------------------------- MODULE EdgeAppCoreProofs --------------------------
(***************************************************************************)
(* Proofs about EdgeAppCore, for any number of models, frames and blocks.  *)
(* The inductive invariant has four parts: where the application is        *)
(* (Program), who owns the frame (FrameInv), who owns each block (HeapInv) *)
(* and how far the models are loaded or unloaded (SensorInv).              *)
(* What the count is once it has gone wrong has an invariant of its own    *)
(* (CountedInv).                                                           *)
(***************************************************************************)
EXTENDS EdgeAppCore, FiniteSetTheorems, TLAPS

\* onIterate has a frame.
WithFrame == { "detect", "getInput", "sendInput", "processModel", "assign", "getOutput", "recognise" }
InIterate == WithFrame \cup {"process", "return"}

\* The event function a statement belongs to is the one that is called.
Program ==
  /\ pc \in {"load", "restart"} => phase = "created" /\ ~busy
  /\ pc \in InIterate => phase = "started" /\ busy
  /\ pc = "unload" => phase # "destroyed" /\ ~busy
  /\ pc = "out" => ~busy
  /\ pc \in {"out", "restart"} => i = 0
  /\ pc \in {"processModel", "assign", "getOutput", "recognise"} => i \in CpuModels

FrameInv ==
  /\ pc \notin WithFrame \cup {"return"} => frame = "none" /\ ~owns
  /\ pc \in WithFrame => frame # "none" /\ owns
  /\ pc # "assign" => result = "none" /\ ~result_owns
  /\ pc = "assign" => result = frame /\ result_owns
  /\ held = Owned(frame, owns)

Pointed(b) == b \in {input, output} \/ \E m \in CpuModels : temp[m] = b

HeapInv ==
  /\ corrupt \subseteq {"GetInputImx500", "GetOutput"}
  /\ pc # "sendInput" => input = "none"
  /\ pc # "recognise" => output = "none"
  /\ pc = "recognise" => output \in Blocks
  /\ \A b \in Blocks : b \in live <=> Pointed(b)
  /\ \A m, k \in CpuModels : temp[m] = temp[k] /\ temp[m] \in Blocks => m = k
  /\ \A m \in CpuModels : temp[m] \in Blocks => temp[m] \notin {input, output}
  /\ phase # "started" => \A m \in CpuModels : temp[m] \notin Blocks \/ pc = "unload"
  /\ pc = "unload" => \A m \in CpuModels : m < i => temp[m] \notin Blocks

-----------------------------------------------------------------------------
(* The models *)

\* No model is loaded and the sensor does nothing.
Rest ==
  /\ graph = {} /\ ~loaded /\ model_count = 0 /\ ~pending
  /\ stream = "none" /\ started = {} /\ open = abandoned

\* The sensor is in use by the context, and by nobody else.
Streaming == stream # "none" /\ stream \notin abandoned /\ started \subseteq {stream} /\ open = abandoned \cup {stream}

LoadedUpTo(k) ==
  IF k = 0 THEN Rest
  ELSE /\ Streaming
       /\ loaded /\ targeted /\ ~pending
       /\ graph = 1..k - 1 /\ model_count = k

\* Of the first k models those before i have been unloaded.
Unloading(k) ==
  IF k <= i THEN Rest
  ELSE /\ Streaming
       /\ ~loaded /\ targeted /\ pending
       /\ graph = i..k - 1 /\ model_count = k - i

SensorInv ==
  missed = 0 =>
    /\ phase = "new" => ~targeted
    /\ phase \in {"new", "created"} /\ (pc = "out" \/ (pc = "unload" /\ i = 0)) => Rest
    /\ pc = "load" => LoadedUpTo(i)
    /\ pc = "restart" => LoadedUpTo(NCpu + 1)
    /\ phase \in {"started", "startFailed"} =>
         /\ targeted
         /\ ~(pc = "unload" /\ i > 0) => \E k \in 0..NCpu + 1 : LoadedUpTo(k)
    /\ pc = "unload" /\ i > 0 => \E k \in 0..NCpu + 1 : Unloading(k)

IInv == TypeOK /\ Program /\ FrameInv /\ HeapInv /\ SensorInv

-----------------------------------------------------------------------------
(* Arithmetic of the counter *)

LEMMA ModType ==
  ASSUME NEW W \in Nat, W > 0, NEW n \in Int
  PROVE  n % W \in 0..W - 1
BY Z3

LEMMA ModSmall ==
  ASSUME NEW W \in Nat, NEW n \in Int, 0 <= n, n < W
  PROVE  n % W = n
BY Z3

-----------------------------------------------------------------------------
(* Every step keeps the types of the program's place. *)
LEMMA ProgramTypesStep ==
  ASSUME ProgramTypes, Program, Next
  PROVE  ProgramTypes'
<1> USE DEF ProgramTypes, Statements, Phases, lifecycleVars
<1>1. CASE Create
  BY <1>1, CountAssumption DEF Create, OnCreate
<1>2. CASE BeginStart
  BY <1>2, CountAssumption DEF BeginStart
<1>3. CASE LoadImx500
  BY <1>3, CountAssumption DEF LoadImx500
<1>4. CASE LoadImx500Fails
  BY <1>4, CountAssumption DEF LoadImx500Fails, StartFails, OnStart
<1>5. CASE LoadModel
  BY <1>5, CountAssumption DEF LoadModel
<1>6. CASE LoadModelFails
  BY <1>6, CountAssumption DEF LoadModelFails, StartFails, OnStart
<1>7. CASE RestartStream
  BY <1>7, CountAssumption DEF RestartStream, OnStart
<1>8. CASE BeginIterate
  BY <1>8, CountAssumption DEF BeginIterate, OnIterateBegins
<1>9. CASE ProcessImx500
  BY <1>9, CountAssumption DEF ProcessImx500
<1>10. CASE Detect
  BY <1>10, CountAssumption DEF Detect
<1>11. CASE GetInputImx500
  BY <1>11, CountAssumption DEF GetInputImx500
<1>12. CASE SendInputTensor
  BY <1>12, CountAssumption DEF SendInputTensor, NextModel
<1>13. CASE Process
  BY <1>13, CountAssumption DEF Process
<1>14. CASE Assign
  BY <1>14, CountAssumption DEF Assign
<1>15. CASE GetOutput
  BY <1>15, CountAssumption DEF GetOutput
<1>16. CASE Recognise
  BY <1>16, CountAssumption DEF Recognise, NextModel
<1>17. CASE GetInput
  BY <1>17, CountAssumption DEF GetInput
<1>18. CASE Return
  <2>1. busy' \in BOOLEAN
    BY <1>18 DEF Return
  <2>2. phase' \in Phases /\ pc' \in Statements /\ i' \in 0..NCpu
    BY <1>18, CountAssumption DEF Return, OnIterateReturns
  <2> QED
    BY <2>1, <2>2
<1>19. CASE BeginUnload
  BY <1>19, CountAssumption DEF BeginUnload
<1>20. CASE UnloadImx500
  BY <1>20, CountAssumption DEF UnloadImx500, UnloadNext, OnStop, OnDestroy
<1>21. CASE UnloadModel
  BY <1>21, CountAssumption DEF UnloadModel, UnloadNext, OnStop, OnDestroy
<1> QED
  BY <1>1, <1>2, <1>3, <1>4, <1>5, <1>6, <1>7, <1>8, <1>9, <1>10, <1>11, <1>12, <1>13, <1>14, <1>15, <1>16, <1>17, <1>18, <1>19, <1>20, <1>21 DEF Next

(* Every step keeps the types of what is known of the models. *)
LEMMA ModelTypesStep ==
  ASSUME ProgramTypes, ModelTypes, Next
  PROVE  ModelTypes'
<1> USE DEF ProgramTypes, ModelTypes, CpuModels, modelVars, pastVars
<1>1. CASE BeginStart
  BY <1>1, CountAssumption, WordAssumption, ModType DEF BeginStart
<1>2. CASE LoadImx500
  BY <1>2, CountAssumption, WordAssumption, ModType DEF LoadImx500
<1>3. CASE LoadImx500Fails
  BY <1>3, CountAssumption, WordAssumption, ModType DEF LoadImx500Fails
<1>4. CASE LoadModel
  BY <1>4, CountAssumption, WordAssumption, ModType DEF LoadModel
<1>5. CASE UnloadImx500
  <2>1. pending' \in BOOLEAN
    BY <1>5 DEF UnloadImx500, StopsIfLast
  <2>2. model_count' \in 0..Word - 1
    BY <1>5, CountAssumption, WordAssumption, ModType DEF UnloadImx500
  <2>3. targeted' \in BOOLEAN /\ loaded' \in BOOLEAN
    BY <1>5 DEF UnloadImx500
  <2>5. missed' \in Nat
    BY <1>5 DEF UnloadImx500
  <2>4. graph' \subseteq CpuModels /\ starts' \in 0..MaxStarts
    BY <1>5 DEF UnloadImx500
  <2> QED
    BY <2>1, <2>2, <2>3, <2>4, <2>5
<1>6. CASE UnloadModel
  <2>1. pending' \in BOOLEAN
    BY <1>6 DEF UnloadModel, StopsIfLast
  <2>2. model_count' \in 0..Word - 1
    BY <1>6, CountAssumption, WordAssumption, ModType DEF UnloadModel
  <2>3. targeted' \in BOOLEAN /\ loaded' \in BOOLEAN /\ missed' \in Nat
    BY <1>6 DEF UnloadModel
  <2>4. graph' \subseteq CpuModels /\ starts' \in 0..MaxStarts
    BY <1>6 DEF UnloadModel
  <2> QED
    BY <2>1, <2>2, <2>3, <2>4
<1>7. CASE UNCHANGED <<modelVars, pastVars>>
  BY <1>7
<1> QED
  BY <1>1, <1>2, <1>3, <1>4, <1>5, <1>6, <1>7 DEF Next, Create, LoadModelFails, RestartStream, BeginIterate, ProcessImx500, Detect, GetInputImx500, SendInputTensor, Process, Assign, GetOutput, Recognise, GetInput, Return, BeginUnload

(* Every step keeps the types of the sensor's streams; one that is in use is never abandoned. *)
LEMMA SensorTypesStep ==
  ASSUME SensorTypes, Next
  PROVE  SensorTypes'
<1> USE DEF SensorTypes, sensorVars, modelVars
<1>1. CASE LoadImx500
  BY <1>1, HandleAssumption DEF LoadImx500, ChecksMemory
<1>2. CASE LoadImx500Fails
  BY <1>2, HandleAssumption DEF LoadImx500Fails
<1>3. CASE RestartStream
  BY <1>3, HandleAssumption DEF RestartStream, ChecksMemory
<1>4. CASE UnloadImx500
  BY <1>4, HandleAssumption DEF UnloadImx500, StopsIfLast
<1>5. CASE UnloadModel
  BY <1>5, HandleAssumption DEF UnloadModel, StopsIfLast
<1>6. CASE UNCHANGED <<sensorVars, stream>>
  BY <1>6
<1> QED
  BY <1>1, <1>2, <1>3, <1>4, <1>5, <1>6 DEF Next, Create, BeginStart, LoadModel, LoadModelFails, BeginIterate, ProcessImx500, Detect, GetInputImx500, SendInputTensor, Process, Assign, GetOutput, Recognise, GetInput, Return, BeginUnload

(* Every step keeps the types of the frame and its owners. *)
LEMMA FrameTypesStep ==
  ASSUME FrameTypes, Next
  PROVE  FrameTypes'
<1> USE DEF FrameTypes, frameVars
<1>1. CASE ProcessImx500
  BY <1>1 DEF ProcessImx500
<1>2. CASE Process
  BY <1>2 DEF Process
<1>3. CASE Assign
  BY <1>3 DEF Assign
<1>4. CASE Return
  BY <1>4 DEF Return
<1>5. CASE UNCHANGED frameVars
  BY <1>5
<1> QED
  BY <1>1, <1>2, <1>3, <1>4, <1>5 DEF Next, Create, BeginStart, LoadImx500, LoadImx500Fails, LoadModel, LoadModelFails, RestartStream, BeginIterate, Detect, GetInputImx500, SendInputTensor, GetOutput, Recognise, GetInput, BeginUnload, UnloadImx500, UnloadModel

(* Every step keeps the types of blocks and pointers. *)
LEMMA HeapTypesStep ==
  ASSUME ProgramTypes, HeapTypes, Next
  PROVE  HeapTypes'
<1> USE DEF ProgramTypes, HeapTypes, heapVars, Nowhere, CpuModels
<1>1. CASE LoadModel
  BY <1>1 DEF LoadModel
<1>2. CASE LoadModelFails
  BY <1>2 DEF LoadModelFails
<1>3. CASE GetInputImx500
  BY <1>3 DEF GetInputImx500
<1>4. CASE SendInputTensor
  BY <1>4 DEF SendInputTensor, Frees, AppOwned
<1>5. CASE Process
  BY <1>5 DEF Process, Frees, AppOwned
<1>6. CASE GetOutput
  BY <1>6 DEF GetOutput
<1>7. CASE Recognise
  BY <1>7 DEF Recognise, Frees
<1>8. CASE GetInput
  BY <1>8 DEF GetInput
<1>9. CASE Return
  BY <1>9 DEF Return
<1>10. CASE UnloadModel
  BY <1>10 DEF UnloadModel, Frees, AppOwned
<1>11. CASE UNCHANGED heapVars
  BY <1>11
<1> QED
  BY <1>1, <1>2, <1>3, <1>4, <1>5, <1>6, <1>7, <1>8, <1>9, <1>10, <1>11 DEF Next, Create, BeginStart, LoadImx500, LoadImx500Fails, RestartStream, BeginIterate, ProcessImx500, Detect, Assign, BeginUnload, UnloadImx500

(* Every step belongs to the event function that is called. *)
LEMMA ProgramStep ==
  ASSUME ProgramTypes, Program, Next
  PROVE  Program'
<1> USE DEF ProgramTypes, Program, InIterate, WithFrame, CpuModels, Statements, lifecycleVars
<1>1. CASE Create
  BY <1>1, CountAssumption DEF Create, OnCreate
<1>2. CASE BeginStart
  BY <1>2, CountAssumption DEF BeginStart
<1>3. CASE LoadImx500
  BY <1>3, CountAssumption DEF LoadImx500
<1>4. CASE LoadImx500Fails
  BY <1>4, CountAssumption DEF LoadImx500Fails, StartFails, OnStart
<1>5. CASE LoadModel
  BY <1>5, CountAssumption DEF LoadModel
<1>6. CASE LoadModelFails
  BY <1>6, CountAssumption DEF LoadModelFails, StartFails, OnStart
<1>7. CASE RestartStream
  BY <1>7, CountAssumption DEF RestartStream, OnStart
<1>8. CASE BeginIterate
  BY <1>8, CountAssumption DEF BeginIterate, OnIterateBegins
<1>9. CASE ProcessImx500
  BY <1>9, CountAssumption DEF ProcessImx500
<1>10. CASE Detect
  BY <1>10, CountAssumption DEF Detect
<1>11. CASE GetInputImx500
  BY <1>11, CountAssumption DEF GetInputImx500
<1>12. CASE SendInputTensor
  BY <1>12, CountAssumption DEF SendInputTensor, NextModel
<1>13. CASE Process
  BY <1>13, CountAssumption DEF Process
<1>14. CASE Assign
  BY <1>14, CountAssumption DEF Assign
<1>15. CASE GetOutput
  BY <1>15, CountAssumption DEF GetOutput
<1>16. CASE Recognise
  BY <1>16, CountAssumption DEF Recognise, NextModel
<1>17. CASE GetInput
  BY <1>17, CountAssumption DEF GetInput
<1>18. CASE Return
  BY <1>18, CountAssumption DEF Return, OnIterateReturns
<1>19. CASE BeginUnload
  BY <1>19, CountAssumption DEF BeginUnload
<1>20. CASE UnloadImx500
  BY <1>20, CountAssumption DEF UnloadImx500, UnloadNext, OnStop, OnDestroy
<1>21. CASE UnloadModel
  BY <1>21, CountAssumption DEF UnloadModel, UnloadNext, OnStop, OnDestroy
<1> QED
  BY <1>1, <1>2, <1>3, <1>4, <1>5, <1>6, <1>7, <1>8, <1>9, <1>10, <1>11, <1>12, <1>13, <1>14, <1>15, <1>16, <1>17, <1>18, <1>19, <1>20, <1>21 DEF Next

(* Every step hands the frame on, takes it or gives it back. *)
LEMMA FrameStep ==
  ASSUME FrameTypes, Program, FrameInv, Next
  PROVE  FrameInv'
<1> USE DEF FrameTypes, FrameInv, WithFrame, Owned, frameVars
<1>1. CASE Create
  BY <1>1, HandleAssumption DEF Create, OnCreate
<1>2. CASE BeginStart
  BY <1>2, HandleAssumption DEF BeginStart
<1>3. CASE LoadImx500
  BY <1>3, HandleAssumption DEF LoadImx500
<1>4. CASE LoadImx500Fails
  BY <1>4, HandleAssumption DEF LoadImx500Fails, StartFails, OnStart
<1>5. CASE LoadModel
  BY <1>5, HandleAssumption DEF LoadModel
<1>6. CASE LoadModelFails
  BY <1>6, HandleAssumption DEF LoadModelFails, StartFails, OnStart
<1>7. CASE RestartStream
  BY <1>7, HandleAssumption DEF RestartStream, OnStart
<1>8. CASE BeginIterate
  BY <1>8, HandleAssumption DEF BeginIterate, OnIterateBegins
<1>9. CASE ProcessImx500
  <2>1. frame = "none" /\ ~owns /\ held = {} /\ result = "none" /\ ~result_owns
    BY <1>9 DEF ProcessImx500
  <2>2. CASE \E f \in Frames \ held : held' = held \cup {f} /\ frame' = f /\ owns' = TRUE /\ pc' = "detect"
    <3>1. PICK f \in Frames : held' = {f} /\ frame' = f /\ f # "none"
      BY <2>1, <2>2, HandleAssumption DEF Nowhere
    <3>2. owns' /\ pc' = "detect"
      BY <2>2
    <3>3. UNCHANGED <<result, result_owns>>
      BY <1>9 DEF ProcessImx500
    <3> QED
      BY <2>1, <3>1, <3>2, <3>3
  <2>3. CASE pc' = "return" /\ UNCHANGED <<held, frame, owns>>
    BY <1>9, <2>1, <2>3 DEF ProcessImx500
  <2> QED
    BY <1>9, <2>2, <2>3 DEF ProcessImx500
<1>10. CASE Detect
  BY <1>10, HandleAssumption DEF Detect
<1>11. CASE GetInputImx500
  BY <1>11, HandleAssumption DEF GetInputImx500
<1>12. CASE SendInputTensor
  BY <1>12, HandleAssumption DEF SendInputTensor, NextModel
<1>13. CASE Process
  BY <1>13, HandleAssumption DEF Process
<1>14. CASE Assign
  BY <1>14, HandleAssumption DEF Assign
<1>15. CASE GetOutput
  BY <1>15, HandleAssumption DEF GetOutput
<1>16. CASE Recognise
  BY <1>16, HandleAssumption DEF Recognise, NextModel
<1>17. CASE GetInput
  BY <1>17, HandleAssumption DEF GetInput
<1>18. CASE Return
  BY <1>18, HandleAssumption DEF Return, OnIterateReturns
<1>19. CASE BeginUnload
  BY <1>19, HandleAssumption DEF BeginUnload
<1>20. CASE UnloadImx500
  BY <1>20, HandleAssumption DEF UnloadImx500, UnloadNext, OnStop, OnDestroy
<1>21. CASE UnloadModel
  BY <1>21, HandleAssumption DEF UnloadModel, UnloadNext, OnStop, OnDestroy
<1> QED
  BY <1>1, <1>2, <1>3, <1>4, <1>5, <1>6, <1>7, <1>8, <1>9, <1>10, <1>11, <1>12, <1>13, <1>14, <1>15, <1>16, <1>17, <1>18, <1>19, <1>20, <1>21 DEF Next

-----------------------------------------------------------------------------
(* The heap *)

(* Every step that allocates or frees keeps each block with one owner. *)
LEMMA HeapStep ==
  ASSUME ProgramTypes, HeapTypes, Program, HeapInv, Next
  PROVE  HeapInv'
<1> USE DEF ProgramTypes, HeapTypes, HeapInv, Pointed, Program, CpuModels, Nowhere
<1>1. CASE LoadModel
  BY <1>1, CountAssumption, HandleAssumption DEF LoadModel, StartFails, OnStart, heapVars, lifecycleVars
<1>2. CASE LoadModelFails
  BY <1>2, CountAssumption, HandleAssumption DEF LoadModelFails, StartFails, OnStart, heapVars, lifecycleVars
<1>3. CASE GetInputImx500
  BY <1>3, CountAssumption, HandleAssumption DEF GetInputImx500, heapVars, lifecycleVars
<1>4. CASE SendInputTensor
  BY <1>4, CountAssumption, HandleAssumption DEF SendInputTensor, Frees, AppOwned, NextModel, heapVars, lifecycleVars
<1>5. CASE Process
  <2>1. /\ i \in CpuModels /\ phase = "started" /\ pc' = "assign" /\ phase' = phase
        /\ input = "none" /\ output = "none" /\ input' = input /\ output' = output
    BY <1>5 DEF Process, lifecycleVars, InIterate, WithFrame
  <2> DEFINE previous == {temp[i]} \cap Blocks
  <2>2. previous \subseteq live
    BY <2>1
  <2>3. PICK v \in Blocks \cup {"none", "sensor"} :
          /\ temp' = [temp EXCEPT ![i] = v]
          /\ v \in Blocks => v \notin live \ previous
          /\ live' = (live \ previous) \cup ({v} \cap Blocks)
    <3>1. CASE \E where \in {"none", "sensor"} : temp' = [temp EXCEPT ![i] = where] /\ live' = live \ previous
      <4>1. PICK where \in {"none", "sensor"} : temp' = [temp EXCEPT ![i] = where] /\ live' = live \ previous
        BY <3>1
      <4>2. where \notin Blocks /\ {where} \cap Blocks = {}
        BY HandleAssumption
      <4> HIDE DEF previous
      <4>3. live' = (live \ previous) \cup ({where} \cap Blocks)
        BY <4>1, <4>2
      <4> QED
        BY <4>1, <4>2, <4>3
    <3>2. CASE \E b \in Blocks \ (live \ previous) :
                 temp' = [temp EXCEPT ![i] = b] /\ live' = (live \ previous) \cup {b}
      <4>1. PICK b \in Blocks \ (live \ previous) :
              temp' = [temp EXCEPT ![i] = b] /\ live' = (live \ previous) \cup {b}
        BY <3>2
      <4>2. {b} \cap Blocks = {b}
        OBVIOUS
      <4> HIDE DEF previous
      <4> QED
        BY <4>1, <4>2
    <3> QED
      BY <1>5, <3>1, <3>2 DEF Process, Frees, AppOwned
  <2>4. corrupt' = corrupt
    BY <1>5, <2>2 DEF Process, Frees, AppOwned
  <2>5. temp'[i] = v /\ \A m \in CpuModels : m # i => temp'[m] = temp[m]
    BY <2>1, <2>3
  <2>6. \A m \in CpuModels : m # i /\ temp[m] \in Blocks => temp[m] \in live \ previous
    BY <2>1
  <2>7. \A b \in Blocks : b \in live' <=> (b = v \/ b \in live \ previous)
    BY <2>3
  <2>8. \A b \in Blocks : b \in live \ previous <=> \E m \in CpuModels : m # i /\ temp[m] = b
    BY <2>1, <2>6, HandleAssumption
  <2>9. \A b \in Blocks : b \in live' <=> Pointed(b)'
    BY <2>1, <2>5, <2>7, <2>8, HandleAssumption
  <2>10. \A m, k \in CpuModels : temp'[m] = temp'[k] /\ temp'[m] \in Blocks => m = k
    BY <2>1, <2>3, <2>5, <2>6
  <2>11. \A m \in CpuModels : temp'[m] \in Blocks => temp'[m] \notin {input', output'}
    BY <2>1, HandleAssumption
  <2> QED
    BY <2>1, <2>4, <2>9, <2>10, <2>11
<1>6. CASE GetOutput
  BY <1>6, CountAssumption, HandleAssumption DEF GetOutput, heapVars, lifecycleVars
<1>7. CASE Recognise
  BY <1>7, CountAssumption, HandleAssumption DEF Recognise, Frees, NextModel, heapVars, lifecycleVars
<1>8. CASE GetInput
  BY <1>8, CountAssumption, HandleAssumption DEF GetInput, heapVars, lifecycleVars
<1>9. CASE Return
  BY <1>9, CountAssumption, HandleAssumption DEF Return, OnIterateReturns, heapVars, lifecycleVars
<1>10. CASE UnloadModel
  BY <1>10, CountAssumption, HandleAssumption DEF UnloadModel, Frees, AppOwned, UnloadNext, OnStop, OnDestroy, heapVars, lifecycleVars
<1>11. CASE Create
  BY <1>11, CountAssumption, HandleAssumption DEF Create, OnCreate, heapVars, lifecycleVars
<1>12. CASE BeginStart
  BY <1>12, CountAssumption, HandleAssumption DEF BeginStart, heapVars, lifecycleVars
<1>13. CASE LoadImx500
  BY <1>13, CountAssumption, HandleAssumption DEF LoadImx500, heapVars, lifecycleVars
<1>14. CASE LoadImx500Fails
  BY <1>14, CountAssumption, HandleAssumption DEF LoadImx500Fails, StartFails, OnStart, heapVars, lifecycleVars
<1>15. CASE RestartStream
  BY <1>15, CountAssumption, HandleAssumption DEF RestartStream, OnStart, heapVars, lifecycleVars
<1>16. CASE BeginIterate
  BY <1>16, CountAssumption, HandleAssumption DEF BeginIterate, OnIterateBegins, heapVars, lifecycleVars
<1>17. CASE ProcessImx500
  BY <1>17, CountAssumption, HandleAssumption DEF ProcessImx500, heapVars, lifecycleVars
<1>18. CASE Detect
  BY <1>18, CountAssumption, HandleAssumption DEF Detect, heapVars, lifecycleVars
<1>19. CASE Assign
  BY <1>19, CountAssumption, HandleAssumption DEF Assign, heapVars, lifecycleVars
<1>20. CASE BeginUnload
  BY <1>20, CountAssumption, HandleAssumption DEF BeginUnload, heapVars, lifecycleVars
<1>21. CASE UnloadImx500
  BY <1>21, CountAssumption, HandleAssumption DEF UnloadImx500, UnloadNext, OnStop, OnDestroy, heapVars, lifecycleVars
<1> QED
  BY <1>1, <1>2, <1>3, <1>4, <1>5, <1>6, <1>7, <1>8, <1>9, <1>10, <1>11, <1>12, <1>13, <1>14, <1>15, <1>16, <1>17, <1>18, <1>19, <1>20, <1>21 DEF Next

-----------------------------------------------------------------------------
(* The models and the sensor *)

\* What Rest, LoadedUpTo and Unloading are about.
loadVars == <<modelVars, open, started, abandoned, loaded>>

(* What is loaded does not depend on where the application is. *)
LEMMA LoadedSame ==
  ASSUME UNCHANGED loadVars
  PROVE  (Rest' <=> Rest) /\ \A k : LoadedUpTo(k)' <=> LoadedUpTo(k)
BY DEF loadVars, modelVars, Rest, Streaming, LoadedUpTo

(* Nothing is forgiven: an unload that was missed stays missed. *)
LEMMA MissedGrows ==
  ASSUME ModelTypes, Next, missed' = 0
  PROVE  missed = 0
<1>1. CASE UnloadImx500
  BY <1>1 DEF UnloadImx500, ModelTypes
<1>2. CASE UNCHANGED missed
  BY <1>2
<1> QED
  BY <1>1, <1>2 DEF Next, pastVars, Create, BeginStart, LoadImx500, LoadImx500Fails, LoadModel, LoadModelFails, RestartStream, BeginIterate, ProcessImx500, Detect, GetInputImx500, SendInputTensor, Process, Assign, GetOutput, Recognise, GetInput, Return, BeginUnload, UnloadModel

(* Loading the model of the sensor when nothing is loaded. *)
LEMMA SensorLoads ==
  ASSUME SensorTypes, Rest, LoadImx500
  PROVE  LoadedUpTo(1)'
<1>1. PICK s \in Streams \ open : stream' = s /\ open' = open \cup {s} /\ started' = started \cup {s}
  BY DEF LoadImx500
<1>2. abandoned' = abandoned
  BY DEF LoadImx500, Rest
<1>3. Streaming'
  BY <1>1, <1>2, HandleAssumption DEF Streaming, Rest, Nowhere, SensorTypes
<1>4. loaded' /\ targeted' /\ ~pending'
  BY DEF LoadImx500, Rest
<1>5. model_count' = 1
  BY CountAssumption, WordAssumption, ModSmall DEF LoadImx500, Rest
<1>6. graph' = {}
  BY DEF LoadImx500, Rest
<1> QED
  BY <1>3, <1>4, <1>5, <1>6 DEF LoadedUpTo

(* Loading the model after the k that are loaded. *)
LEMMA ModelLoads ==
  ASSUME NEW k \in 1..NCpu, i = k, LoadedUpTo(k), LoadModel
  PROVE  LoadedUpTo(k + 1)'
<1>1. UNCHANGED <<sensorVars, targeted, stream, pending, loaded>>
  BY DEF LoadModel, pastVars
<1>2. Streaming /\ loaded /\ targeted /\ ~pending /\ graph = 1..k - 1 /\ model_count = k
  BY DEF LoadedUpTo
<1>3. Streaming' /\ loaded' /\ targeted' /\ ~pending'
  BY <1>1, <1>2 DEF Streaming, sensorVars
<1>4. model_count' = k + 1
  BY <1>2, CountAssumption, WordAssumption, ModSmall DEF LoadModel
<1>5. graph' = 1..k
  BY <1>2 DEF LoadModel
<1>6. k + 1 # 0 /\ (k + 1) - 1 = k
  OBVIOUS
<1> QED
  BY <1>3, <1>4, <1>5, <1>6 DEF LoadedUpTo

(* Unloading the model of the sensor, when k models are loaded. *)
LEMMA SensorUnloads ==
  ASSUME NEW k \in 0..NCpu + 1, LoadedUpTo(k), UnloadImx500, missed = 0, missed' = 0,
         SensorTypes
  PROVE  IF k <= 1 THEN Rest'
         ELSE /\ Streaming' /\ ~loaded' /\ targeted' /\ pending'
              /\ graph' = 1..k - 1 /\ model_count' = k - 1
<1>1. UNCHANGED <<targeted, graph, abandoned>> /\ ~loaded'
  BY DEF UnloadImx500
<1>2. CASE k = 0
  <2>1. Rest
    BY <1>2 DEF LoadedUpTo
  <2>2. ~targeted
    BY <2>1 DEF UnloadImx500, Rest
  <2>3. model_count' = model_count /\ StopsIfLast(model_count', FALSE)
    BY <2>1, <2>2 DEF UnloadImx500, Rest
  <2>4. UNCHANGED <<started, open, stream>> /\ ~pending'
    BY <2>1, <2>3 DEF StopsIfLast, Rest
  <2> QED
    BY <1>1, <1>2, <2>1, <2>3, <2>4 DEF Rest
<1>3. CASE k > 0
  <2>1. Streaming /\ loaded /\ targeted /\ graph = 1..k - 1 /\ model_count = k
    BY <1>3 DEF LoadedUpTo
  <2>2. model_count' = k - 1
    BY <1>3, <2>1, CountAssumption, WordAssumption, ModSmall DEF UnloadImx500
  <2>3. StopsIfLast(k - 1, TRUE)
    BY <2>1, <2>2 DEF UnloadImx500
  <2>4. CASE k = 1
    <3>1. started' = {} /\ open' = abandoned /\ stream' = "none" /\ ~pending'
      BY <2>1, <2>3, <2>4 DEF StopsIfLast, Streaming
    <3> QED
      BY <1>1, <2>1, <2>2, <2>4, <3>1 DEF Rest
  <2>5. CASE k > 1
    <3>1. UNCHANGED <<started, open, stream>> /\ pending'
      BY <2>3, <2>5 DEF StopsIfLast
    <3> QED
      BY <1>1, <2>1, <2>2, <2>5, <3>1 DEF Streaming
  <2> QED
    BY <1>3, <2>4, <2>5
<1>4. k = 0 \/ k > 0
  BY CountAssumption
<1> QED
  BY <1>2, <1>3, <1>4

(* Unloading model i of k, those before it having been unloaded. *)
LEMMA ModelUnloads ==
  ASSUME NEW k \in 0..NCpu + 1, Unloading(k), UnloadModel
  PROVE  IF k <= i + 1 THEN Rest'
         ELSE /\ Streaming' /\ ~loaded' /\ targeted' /\ pending'
              /\ graph' = i + 1..k - 1 /\ model_count' = k - (i + 1)
<1>1. i \in 1..NCpu /\ UNCHANGED <<targeted, abandoned, loaded>> /\ graph' = graph \ {i}
  BY DEF UnloadModel, CpuModels, pastVars
<1>2. CASE k <= i
  <2>1. Rest
    BY <1>2 DEF Unloading
  <2>2. model_count' = 0 /\ graph' = {}
    BY <1>1, <2>1 DEF UnloadModel, Rest
  <2>3. UNCHANGED <<started, open, stream>> /\ ~pending'
    BY <2>1 DEF UnloadModel, StopsIfLast, Rest
  <2> QED
    BY <1>1, <1>2, <2>1, <2>2, <2>3 DEF Rest
<1>3. CASE k > i
  <2>1. Streaming /\ ~loaded /\ targeted /\ pending /\ graph = i..k - 1 /\ model_count = k - i
    BY <1>1, <1>3, CountAssumption DEF Unloading
  <2>2. i \in graph
    BY <1>1, <1>3, <2>1
  <2>3. model_count' = k - (i + 1)
    <3>1. model_count' = (k - i - 1) % Word
      BY <2>1, <2>2 DEF UnloadModel
    <3>2. k - i - 1 \in Int /\ 0 <= k - i - 1 /\ k - i - 1 < Word /\ k - i - 1 = k - (i + 1)
      BY <1>1, <1>3, CountAssumption, WordAssumption
    <3> QED
      BY <3>1, <3>2, WordAssumption, ModSmall
  <2>4. graph' = i + 1..k - 1
    BY <1>1, <1>3, <2>1
  <2>5. StopsIfLast(k - (i + 1), pending)
    BY <2>3 DEF UnloadModel
  <2>6. k \in Int /\ i \in Int
    BY <1>1, CountAssumption
  <2>7. CASE k = i + 1
    <3>1. started' = {} /\ open' = abandoned /\ stream' = "none" /\ ~pending'
      BY <2>1, <2>7, <2>5, <2>6 DEF StopsIfLast, Streaming
    <3> QED
      BY <1>1, <2>1, <2>3, <2>4, <2>7, <3>1 DEF Rest
  <2>8. CASE k > i + 1
    <3>1. UNCHANGED <<started, open, stream, pending>>
      BY <2>8, <2>5, <2>6 DEF StopsIfLast
    <3>2. Streaming' /\ ~loaded' /\ targeted' /\ pending'
      BY <1>1, <2>1, <3>1 DEF Streaming
    <3> QED
      BY <2>3, <2>4, <2>6, <2>8, <3>2
  <2> QED
    BY <1>3, <2>6, <2>7, <2>8
<1> QED
  BY <1>1, <1>2, <1>3

(* Every step keeps what is known of how far the models are loaded.        *)
LEMMA SensorStep ==
  ASSUME TypeOK, Program, SensorInv, Next
  PROVE  SensorInv'
<1> SUFFICES ASSUME missed' = 0
             PROVE  /\ phase' = "new" => ~targeted'
                    /\ phase' \in {"new", "created"} /\ (pc' = "out" \/ (pc' = "unload" /\ i' = 0)) => Rest'
                    /\ pc' = "load" => \A k \in 0..NCpu : i' = k => LoadedUpTo(k)'
                    /\ pc' = "restart" => LoadedUpTo(NCpu + 1)'
                    /\ phase' \in {"started", "startFailed"} =>
                         /\ targeted'
                         /\ ~(pc' = "unload" /\ i' > 0) => \E k \in 0..NCpu + 1 : LoadedUpTo(k)'
                    /\ pc' = "unload" /\ i' > 0 => \E k \in 0..NCpu + 1 : Unloading(k)'
  <2>1. i' \in 0..NCpu
    BY ProgramTypesStep DEF TypeOK, ProgramTypes
  <2>2. (\A k \in 0..NCpu : i' = k => LoadedUpTo(k)') => LoadedUpTo(i)'
    BY <2>1 DEF LoadedUpTo
  <2> QED
    BY <2>2 DEF SensorInv
<1>1. missed = 0
  BY MissedGrows DEF TypeOK
<1> USE CountAssumption DEF ProgramTypes, CpuModels
<1>2. ProgramTypes /\ ModelTypes /\ SensorTypes
  BY DEF TypeOK
<1>3. CASE /\ phase = "started" /\ phase' = "started" /\ pc # "unload"
           /\ pc' \notin {"load", "restart"} /\ (pc' = "unload" => i' = 0) /\ UNCHANGED loadVars
  <2>1. targeted' /\ \E k \in 0..NCpu + 1 : LoadedUpTo(k)
    BY <1>1, <1>3 DEF SensorInv, loadVars, modelVars
  <2> QED
    BY <1>3, <2>1, LoadedSame
<1>4. CASE Create
  <2>1. Rest /\ phase' = "created" /\ pc' = "out" /\ UNCHANGED loadVars
    BY <1>1, <1>4 DEF Create, OnCreate, SensorInv, loadVars, modelVars, sensorVars, pastVars
  <2> QED
    BY <2>1, LoadedSame
<1>5. CASE BeginStart
  <2>1. Rest /\ phase' = "created" /\ pc' = "load" /\ i' = 0 /\ UNCHANGED loadVars
    BY <1>1, <1>5 DEF BeginStart, SensorInv, loadVars, modelVars, sensorVars, lifecycleVars
  <2>2. LoadedUpTo(0)'
    BY <2>1, LoadedSame DEF LoadedUpTo
  <2> QED
    BY <2>1, <2>2
<1>6. CASE LoadImx500
  <2>1. Rest
    BY <1>1, <1>6 DEF LoadImx500, SensorInv, LoadedUpTo
  <2>2. phase' = "created" /\ pc' = "load" /\ i' = 1
    BY <1>6 DEF LoadImx500, lifecycleVars, Program
  <2> QED
    BY <1>2, <1>6, <2>1, <2>2, SensorLoads
<1>7. CASE LoadImx500Fails
  <2>1. Rest
    BY <1>1, <1>7 DEF LoadImx500Fails, SensorInv, LoadedUpTo
  <2>2. phase' = "startFailed" /\ pc' = "out" /\ targeted'
    BY <1>7 DEF LoadImx500Fails, StartFails
  <2>3. open' = abandoned' /\ stream' = "none" /\ started' = {}
    BY <1>7, <2>1 DEF LoadImx500Fails, Rest
  <2>4. LoadedUpTo(0)'
    BY <1>7, <2>1, <2>3 DEF LoadImx500Fails, Rest, LoadedUpTo, pastVars
  <2> QED
    BY <2>2, <2>4
<1>8. CASE LoadModel
  <2>1. PICK k \in 1..NCpu : i = k /\ LoadedUpTo(k)
    BY <1>1, <1>8 DEF LoadModel, SensorInv
  <2>2. LoadedUpTo(k + 1)'
    BY <1>8, <2>1, ModelLoads
  <2>3. phase' = "created" /\ (IF k = NCpu THEN pc' = "restart" /\ i' = 0 ELSE pc' = "load" /\ i' = k + 1)
    BY <1>8, <2>1 DEF LoadModel, lifecycleVars, Program
  <2>4. CASE k = NCpu
    BY <2>2, <2>3, <2>4
  <2>5. CASE k # NCpu
    BY <2>2, <2>3, <2>5
  <2> QED
    BY <2>4, <2>5
<1>9. CASE LoadModelFails
  <2>1. PICK k \in 1..NCpu : LoadedUpTo(k)
    BY <1>1, <1>9 DEF LoadModelFails, SensorInv
  <2>2. LoadedUpTo(k)' /\ targeted'
    BY <1>9, <2>1, LoadedSame DEF LoadModelFails, loadVars, modelVars, sensorVars, pastVars, LoadedUpTo
  <2>3. phase' = "startFailed" /\ pc' = "out"
    BY <1>9 DEF LoadModelFails, StartFails
  <2> QED
    BY <2>2, <2>3
<1>10. CASE RestartStream
  <2>1. LoadedUpTo(NCpu + 1)
    BY <1>1, <1>10 DEF RestartStream, SensorInv
  <2>2. started' \subseteq started /\ UNCHANGED <<modelVars, open, abandoned, loaded>>
    BY <1>10 DEF RestartStream, pastVars
  <2>3. LoadedUpTo(NCpu + 1)' /\ targeted'
    BY <2>1, <2>2 DEF LoadedUpTo, Streaming, modelVars
  <2>4. phase' = "started" /\ pc' = "out"
    BY <1>10 DEF RestartStream
  <2> QED
    BY <2>3, <2>4
<1>11. CASE BeginUnload
  <2>1. phase' = phase /\ phase \in Phases /\ pc = "out" /\ pc' = "unload" /\ i' = 0 /\ UNCHANGED loadVars
    BY <1>2, <1>11 DEF BeginUnload, lifecycleVars, loadVars, modelVars, sensorVars, pastVars
  <2>2. CASE phase \in {"new", "created"}
    <3>1. Rest' /\ (phase = "new" => ~targeted')
      BY <1>1, <2>1, <2>2, LoadedSame DEF SensorInv, loadVars, modelVars
    <3> QED
      BY <2>1, <2>2, <3>1
  <2>3. CASE phase \in {"started", "startFailed"}
    <3>1. targeted' /\ \E k \in 0..NCpu + 1 : LoadedUpTo(k)
      BY <1>1, <2>1, <2>3 DEF SensorInv, loadVars, modelVars
    <3> QED
      BY <2>1, <2>3, <3>1, LoadedSame
  <2>4. phase # "destroyed"
    BY <1>11 DEF BeginUnload
  <2> QED
    BY <2>1, <2>2, <2>3, <2>4 DEF Phases
<1>12. CASE UnloadImx500
  <2>1. PICK k \in 0..NCpu + 1 : LoadedUpTo(k)
    <3>1. phase # "destroyed" /\ phase \in Phases /\ pc = "unload" /\ i = 0
      BY <1>2, <1>12 DEF UnloadImx500, Program
    <3>2. CASE phase \in {"new", "created"}
      BY <1>1, <3>1, <3>2 DEF SensorInv, LoadedUpTo
    <3>3. CASE phase \in {"started", "startFailed"}
      BY <1>1, <3>1, <3>3 DEF SensorInv
    <3> QED
      BY <3>1, <3>2, <3>3 DEF Phases
  <2>2. phase' = phase /\ pc' = "unload" /\ i' = 1 /\ targeted' = targeted
    BY <1>12 DEF UnloadImx500, UnloadNext, lifecycleVars
  <2>3. /\ phase = "new" => ~targeted'
        /\ phase \in {"started", "startFailed"} => targeted'
    BY <1>1, <1>12, <2>2 DEF SensorInv, UnloadImx500
  <2>4. Unloading(k)'
    <3>1. CASE k <= 1
      BY <1>1, <1>2, <1>12, <2>1, <2>2, <3>1, SensorUnloads DEF Unloading
    <3>2. CASE k > 1
      BY <1>1, <1>2, <1>12, <2>1, <2>2, <3>2, SensorUnloads DEF Unloading
    <3> QED
      BY <3>1, <3>2
  <2> QED
    BY <2>2, <2>3, <2>4
<1>13. CASE UnloadModel
  <2>1. i \in 1..NCpu /\ pc = "unload" /\ targeted' = targeted
    BY <1>13 DEF UnloadModel
  <2>2. PICK k \in 0..NCpu + 1 : Unloading(k)
    BY <1>1, <2>1 DEF SensorInv
  <2>3. CASE i = NCpu
    <3>1. pc' = "out" /\ phase' \in {"created", "destroyed"}
      BY <1>13, <2>3 DEF UnloadModel, UnloadNext, OnStop, OnDestroy
    <3>2. Rest'
      BY <1>13, <2>2, <2>3, ModelUnloads
    <3> QED
      BY <3>1, <3>2
  <2>4. CASE i # NCpu
    <3>1. pc' = "unload" /\ i' = i + 1 /\ phase' = phase
      BY <1>13, <2>1, <2>4 DEF UnloadModel, UnloadNext, lifecycleVars
    <3>2. /\ phase = "new" => ~targeted'
          /\ phase \in {"started", "startFailed"} => targeted'
      BY <1>1, <2>1 DEF SensorInv
    <3>3. CASE k <= i + 1
      BY <1>13, <2>1, <2>2, <3>1, <3>2, <3>3, ModelUnloads DEF Unloading
    <3>4. CASE k > i + 1
      BY <1>13, <2>1, <2>2, <3>1, <3>2, <3>4, ModelUnloads DEF Unloading
    <3> QED
      BY <2>1, <3>3, <3>4
  <2> QED
    BY <2>3, <2>4
<1>14. CASE BeginIterate
  BY <1>3, <1>14 DEF BeginIterate, OnIterateBegins, loadVars, modelVars, sensorVars, pastVars
<1>15. CASE ProcessImx500 \/ Detect \/ GetInputImx500 \/ SendInputTensor
  BY <1>3, <1>15 DEF ProcessImx500, Detect, GetInputImx500, SendInputTensor, NextModel, Program, InIterate, WithFrame, lifecycleVars, loadVars, modelVars, sensorVars, pastVars
<1>16. CASE Process \/ Assign \/ GetOutput
  BY <1>3, <1>16 DEF Process, Assign, GetOutput, Program, InIterate, WithFrame, lifecycleVars, loadVars, modelVars, sensorVars, pastVars
<1>17. CASE Recognise \/ GetInput
  BY <1>3, <1>17 DEF Recognise, NextModel, GetInput, Program, InIterate, WithFrame, lifecycleVars, loadVars, modelVars, sensorVars, pastVars
<1>18. CASE Return
  BY <1>3, <1>18 DEF Return, OnIterateReturns, Program, InIterate, WithFrame, loadVars, modelVars, sensorVars, pastVars
<1> QED
  BY <1>4, <1>5, <1>6, <1>7, <1>8, <1>9, <1>10, <1>11, <1>12, <1>13, <1>14, <1>15, <1>16, <1>17, <1>18 DEF Next

-----------------------------------------------------------------------------
(* The theorems *)

(* A program that has not been called yet satisfies the invariant.         *)
LEMMA InitInv ==
  ASSUME Init
  PROVE  IInv
<1> USE DEF Init, LifecycleInit
<1>1. TypeOK
  <2>1. ProgramTypes
    <3>1. i \in 0..NCpu
      BY CountAssumption
    <3> QED
      BY <3>1 DEF ProgramTypes, Phases, Statements
  <2>2. ModelTypes
    <3>1. model_count \in 0..Word - 1 /\ starts \in 0..MaxStarts /\ missed \in Nat
      BY CountAssumption, WordAssumption
    <3> QED
      BY <3>1 DEF ModelTypes
  <2>3. SensorTypes /\ FrameTypes
    BY DEF SensorTypes, FrameTypes
  <2>4. HeapTypes
    BY DEF HeapTypes, Nowhere
  <2> QED
    BY <2>1, <2>2, <2>3, <2>4 DEF TypeOK
<1>2. Program
  BY DEF Program, InIterate, WithFrame
<1>3. FrameInv
  BY DEF FrameInv, WithFrame, Owned
<1>4. HeapInv
  BY HandleAssumption DEF HeapInv, Pointed, Nowhere
<1>5. SensorInv
  BY DEF SensorInv, Rest
<1> QED
  BY <1>1, <1>2, <1>3, <1>4, <1>5 DEF IInv

(* No step, and no stutter, leaves the invariant.                          *)
LEMMA StepInv ==
  ASSUME IInv, [Next]_vars
  PROVE  IInv'
<1>1. CASE Next
  BY <1>1, ProgramTypesStep, ModelTypesStep, SensorTypesStep, FrameTypesStep, HeapTypesStep, ProgramStep, FrameStep, HeapStep, SensorStep DEF IInv, TypeOK
<1>2. CASE UNCHANGED vars
  <2> USE <1>2 DEF vars, lifecycleVars, modelVars, sensorVars, frameVars, heapVars, pastVars
  <2>1. TypeOK'
    BY DEF IInv, TypeOK, ProgramTypes, ModelTypes, SensorTypes, FrameTypes, HeapTypes
  <2>2. Program'
    BY DEF IInv, Program
  <2>3. FrameInv'
    BY DEF IInv, FrameInv, Owned
  <2>4. HeapInv'
    BY DEF IInv, HeapInv, Pointed
  <2>5. SensorInv'
    BY DEF IInv, SensorInv, Rest, LoadedUpTo, Unloading, Streaming
  <2> QED
    BY <2>1, <2>2, <2>3, <2>4, <2>5 DEF IInv
<1> QED
  BY <1>1, <1>2

(* The invariant holds throughout, for any number of models on the         *)
(* processor and any sets of frames, blocks and streams.                   *)
THEOREM Invariance == Spec => []IInv
<1>1. Init => IInv
  BY InitInv
<1>2. IInv /\ [Next]_vars => IInv'
  BY StepInv
<1> QED
  BY <1>1, <1>2, PTL DEF Spec

(* A sensor frame has one owner whenever no assignment is half done, so    *)
(* SensorReleaseFrame is called once for every frame taken, whatever model *)
(* fails on it and however often it is handed on.                          *)
THEOREM OneOwner == Spec => []FrameHasOneOwner
<1>1. IInv => FrameHasOneOwner
  BY DEF IInv, FrameInv, FrameHasOneOwner, Owned
<1> QED
  BY <1>1, Invariance, PTL

(* No block is freed twice, used by two pointers or lost, apart from the   *)
(* two places named, for any number of models and any size of the heap.    *)
THEOREM HeapSound == Spec => []HeapIsSound
<1>1. ASSUME IInv
      PROVE  HeapIsSound
  <2> USE <1>1 DEF IInv, TypeOK
  <2>1. live = AppPointers \cap Blocks
    BY DEF HeapInv, HeapTypes, Pointed, AppPointers
  <2>2. input \in Blocks => input # output
    BY HandleAssumption DEF HeapInv, Nowhere
  <2> QED
    BY <2>1, <2>2 DEF HeapInv, HeapIsSound
<1> QED
  BY <1>1, Invariance, PTL

(* Stopped, the application has stopped the sensor and closed its stream,  *)
(* unless a load of the sensor's model failed and was unloaded.            *)
THEOREM SensorStops == Spec => []SensorIsStopped
<1>1. IInv => SensorIsStopped
  BY DEF IInv, SensorInv, SensorIsStopped, Rest
<1> QED
  BY <1>1, Invariance, PTL

-----------------------------------------------------------------------------
(* The count, also after it has gone wrong *)

(* Which models are loaded while they are loaded and unloaded in order, and *)
(* how many the counter says there are. Nothing is assumed of missed.       *)
CountedInv ==
  /\ CountIsLoaded
  /\ loaded => targeted
  /\ phase \in {"new", "created"} /\ pc \notin {"load", "restart"} => graph = {} /\ ~loaded
  /\ pc = "load" => (i = 0 => ~loaded) /\ \A m \in graph : m < i
  /\ pc = "unload" => (i > 0 => ~loaded) /\ \A m \in graph : m >= i

(* A number is a multiple of W and its remainder. *)
LEMMA Division ==
  ASSUME NEW W \in Nat, W > 0, NEW n \in Int
  PROVE  n = W * (n \div W) + (n % W) /\ n \div W \in Int /\ n % W \in 0..W - 1
BY Z3

(* In one way only. *)
LEMMA RemainderUnique ==
  ASSUME NEW W \in Nat, W > 0, NEW q \in Int, NEW p \in Int,
         NEW r \in 0..W - 1, NEW s \in 0..W - 1, W * q + r = W * p + s
  PROVE  r = s
<1>1. W * (q - p) = s - r
  BY Z3
<1>2. CASE q - p >= 1
  <2>1. W * (q - p) >= W
    BY <1>2, Z3
  <2> QED
    BY <1>1, <2>1, Z3
<1>3. CASE q - p <= -1
  <2>1. W * (q - p) <= -W
    BY <1>3, Z3
  <2> QED
    BY <1>1, <2>1, Z3
<1>4. CASE q = p
  BY <1>4, Z3
<1> QED
  BY <1>2, <1>3, <1>4

(* A wrapping counter counts modulo W. *)
LEMMA ModStep ==
  ASSUME NEW W \in Nat, W > 0, NEW n \in Int, NEW d \in Int
  PROVE  ((n % W) + d) % W = (n + d) % W
<1> DEFINE x == (n % W) + d
<1>1. n = W * (n \div W) + (n % W) /\ n \div W \in Int /\ n % W \in 0..W - 1
  BY Division
<1>2. x \in Int
  BY <1>1
<1> HIDE DEF x
<1>3. x = W * (x \div W) + (x % W) /\ x \div W \in Int /\ x % W \in 0..W - 1
  BY <1>2, Division
<1>4. /\ n + d = W * ((n + d) \div W) + ((n + d) % W)
      /\ (n + d) \div W \in Int /\ (n + d) % W \in 0..W - 1
  <2>1. n + d \in Int
    OBVIOUS
  <2> QED
    BY <2>1, Division
<1> DEFINE k == n \div W
           p == x \div W
           q == (n + d) \div W
           r == x % W
           s == (n + d) % W
           m == n % W
<1>5. k \in Int /\ p \in Int /\ q \in Int /\ r \in 0..W - 1 /\ s \in 0..W - 1 /\ m \in 0..W - 1
  BY <1>1, <1>3, <1>4
<1>6. n = W * k + m /\ x = W * p + r /\ n + d = W * q + s /\ x = m + d
  BY <1>1, <1>3, <1>4 DEF x
<1> HIDE DEF k, p, q, r, s, m
<1>7. W * (p + k) + r = W * q + s
  <2>1. W * (p + k) = W * p + W * k
    BY <1>5, Z3
  <2> QED
    BY <1>2, <1>5, <1>6, <2>1, Z3
<1>8. r = s
  BY <1>5, <1>7, RemainderUnique
<1> QED
  BY <1>8 DEF r, s, x

(* What model_count should be, before it wraps. *)
Balance == Cardinality(graph) + (IF loaded THEN 1 ELSE 0) - missed

(* There are finitely many contexts, and the balance is a number. *)
LEMMA GraphFinite ==
  ASSUME ModelTypes
  PROVE  IsFiniteSet(graph) /\ Cardinality(graph) \in Nat /\ Balance \in Int
<1>1. IsFiniteSet(1..NCpu)
  BY CountAssumption, FS_Interval
<1>2. IsFiniteSet(graph)
  BY <1>1, FS_Subset DEF ModelTypes, CpuModels
<1>3. Cardinality(graph) \in Nat
  BY <1>2, FS_CardinalityType
<1> QED
  BY <1>2, <1>3 DEF ModelTypes, Balance

(* Counting one up or down keeps up with a balance that moves by one. *)
LEMMA CountFollows ==
  ASSUME ModelTypes, CountIsLoaded, NEW d \in Int, Balance' = Balance + d,
         model_count' = (model_count + d) % Word
  PROVE  CountIsLoaded'
<1>1. Balance \in Int /\ Word \in Nat /\ Word > 0
  BY GraphFinite, CountAssumption, WordAssumption
<1>2. model_count = Balance % Word
  BY DEF CountIsLoaded, Balance
<1> HIDE DEF Balance
<1>3. model_count' = Balance' % Word
  BY <1>1, <1>2, ModStep
<1> QED
  BY <1>3 DEF CountIsLoaded, Balance

(* Every step keeps the count of what is loaded.                           *)
LEMMA CountedStep ==
  ASSUME ProgramTypes, ModelTypes, Program, CountedInv, Next
  PROVE  CountedInv'
<1> USE DEF ProgramTypes, CountedInv, Program, lifecycleVars
<1>1. i \in 0..NCpu /\ NCpu \in Nat /\ NCpu >= 1 /\ \A m \in graph : m \in 1..NCpu
  BY CountAssumption DEF ModelTypes, CpuModels
<1>2. CASE LoadImx500
  <2>1. Balance' = Balance + 1 /\ model_count' = (model_count + 1) % Word
    BY <1>2, GraphFinite DEF LoadImx500, Balance, ModelTypes
  <2>2. CountIsLoaded'
    BY <2>1, CountFollows
  <2> QED
    BY <1>1, <1>2, <2>2 DEF LoadImx500
<1>3. CASE LoadModel
  <2>1. i \notin graph /\ graph' = graph \cup {i} /\ UNCHANGED <<loaded, missed, targeted, phase>>
    BY <1>1, <1>3 DEF LoadModel, pastVars
  <2>2. Cardinality(graph') = Cardinality(graph) + 1
    BY <2>1, GraphFinite, FS_AddElement
  <2>3. Balance' = Balance + 1 /\ model_count' = (model_count + 1) % Word
    BY <1>3, <2>1, <2>2, GraphFinite DEF LoadModel, Balance, ModelTypes
  <2>4. CountIsLoaded'
    BY <2>3, CountFollows
  <2>5. pc = "load" /\ i \in 1..NCpu /\ (pc' = "restart" \/ (pc' = "load" /\ i' = i + 1))
    BY <1>3 DEF LoadModel, CpuModels
  <2> QED
    BY <1>1, <2>1, <2>4, <2>5
<1>4. CASE UnloadImx500
  <2>1. /\ UNCHANGED <<graph, targeted>> /\ ~loaded' /\ pc = "unload" /\ i = 0
        /\ missed' = IF targeted /\ ~loaded THEN missed + 1 ELSE missed
        /\ model_count' = IF targeted THEN (model_count - 1) % Word ELSE model_count
        /\ UnloadNext
    BY <1>4 DEF UnloadImx500
  <2>2. CountIsLoaded'
    <3>1. CASE targeted
      <4>1. Balance' = Balance + (-1) /\ model_count' = (model_count + (-1)) % Word
        BY <2>1, <3>1, GraphFinite DEF Balance, ModelTypes
      <4> QED
        BY <4>1, CountFollows
    <3>2. CASE ~targeted
      BY <2>1, <3>2 DEF CountIsLoaded
    <3> QED
      BY <3>1, <3>2
  <2>3. pc' = "unload" /\ i' = 1 /\ UNCHANGED <<phase, busy>>
    BY <1>1, <2>1 DEF UnloadNext
  <2> QED
    BY <1>1, <2>1, <2>2, <2>3
<1>5. CASE UnloadModel
  <2>1. /\ graph' = graph \ {i} /\ UNCHANGED <<targeted, loaded, missed>>
        /\ pc = "unload" /\ i \in 1..NCpu /\ ~loaded
        /\ model_count' = IF i \in graph THEN (model_count - 1) % Word ELSE model_count
        /\ UnloadNext
    BY <1>5 DEF UnloadModel, CpuModels, pastVars
  <2>2. CountIsLoaded'
    <3>1. CASE i \in graph
      <4>1. Cardinality(graph') = Cardinality(graph) - 1
        BY <2>1, <3>1, GraphFinite, FS_RemoveElement
      <4>2. Balance' = Balance + (-1) /\ model_count' = (model_count + (-1)) % Word
        BY <2>1, <3>1, <4>1, GraphFinite DEF Balance, ModelTypes
      <4> QED
        BY <4>2, CountFollows
    <3>2. CASE i \notin graph
      <4>1. graph' = graph
        BY <2>1, <3>2
      <4> QED
        BY <2>1, <3>2, <4>1 DEF CountIsLoaded
    <3> QED
      BY <3>1, <3>2
  <2>3. CASE i = NCpu
    <3>1. graph' = {} /\ ~loaded'
      BY <1>1, <2>1, <2>3
    <3>2. pc' = "out"
      BY <2>1, <2>3 DEF UnloadNext
    <3> QED
      BY <2>1, <2>2, <3>1, <3>2
  <2>4. CASE i # NCpu
    <3>1. pc' = "unload" /\ i' = i + 1 /\ UNCHANGED phase
      BY <2>1, <2>4 DEF UnloadNext
    <3> QED
      BY <1>1, <2>1, <2>2, <3>1
  <2> QED
    BY <2>3, <2>4
<1>6. ASSUME UNCHANGED <<graph, model_count, loaded, missed>>
      PROVE  CountIsLoaded'
  BY <1>6 DEF CountIsLoaded
<1>7. CASE Create
  BY <1>6, <1>7 DEF Create, OnCreate, modelVars, pastVars
<1>8. CASE BeginStart
  BY <1>1, <1>6, <1>8 DEF BeginStart, modelVars
<1>9. CASE LoadImx500Fails
  BY <1>6, <1>9 DEF LoadImx500Fails, StartFails, OnStart, pastVars
<1>10. CASE LoadModelFails
  BY <1>6, <1>10 DEF LoadModelFails, StartFails, OnStart, modelVars, pastVars
<1>11. CASE RestartStream
  BY <1>6, <1>11 DEF RestartStream, OnStart, modelVars, pastVars
<1>12. CASE BeginUnload
  BY <1>1, <1>6, <1>12 DEF BeginUnload, modelVars, pastVars
<1>13. CASE \/ BeginIterate \/ ProcessImx500 \/ Detect \/ GetInputImx500 \/ SendInputTensor
            \/ Process \/ Assign \/ GetOutput \/ Recognise \/ GetInput \/ Return
  <2>1. UNCHANGED <<graph, model_count, loaded, missed, targeted, phase>>
    BY <1>13
      DEF BeginIterate, ProcessImx500, Detect, GetInputImx500, SendInputTensor, Process, Assign,
          GetOutput, Recognise, GetInput, Return, OnIterateBegins, OnIterateReturns, modelVars, pastVars
  <2>2. phase = "started"
    BY <1>13
      DEF BeginIterate, ProcessImx500, Detect, GetInputImx500, SendInputTensor, Process, Assign,
          GetOutput, Recognise, GetInput, Return, OnIterateBegins, InIterate, WithFrame
  <2>3. pc' \notin {"load", "unload"}
    BY <1>13
      DEF BeginIterate, ProcessImx500, Detect, GetInputImx500, SendInputTensor, Process, Assign,
          GetOutput, Recognise, GetInput, Return, NextModel
  <2> QED
    BY <1>6, <2>1, <2>2, <2>3
<1> QED
  BY <1>2, <1>3, <1>4, <1>5, <1>7, <1>8, <1>9, <1>10, <1>11, <1>12, <1>13 DEF Next

(* model_count is the number of loaded models modulo its width, short of    *)
(* one for each missed unload, through any number of failing loads.         *)
THEOREM CountLoaded == Spec => []CountIsLoaded
<1>1. Init => CountedInv
  <2>1. ASSUME Init
        PROVE  CountIsLoaded
    <3>1. Cardinality(graph) = 0
      BY <2>1, FS_EmptySet DEF Init
    <3>2. 0 % Word = 0
      BY CountAssumption, WordAssumption, ModSmall
    <3> QED
      BY <2>1, <3>1, <3>2 DEF Init, CountIsLoaded
  <2> QED
    BY <2>1 DEF Init, CountedInv
<1>2. IInv /\ CountedInv /\ [Next]_vars => CountedInv'
  <2>1. CASE UNCHANGED vars
    BY <2>1 DEF CountedInv, CountIsLoaded, vars, lifecycleVars, modelVars, pastVars
  <2> QED
    BY <2>1, CountedStep DEF IInv, TypeOK
<1>3. CountedInv => CountIsLoaded
  BY DEF CountedInv
<1> QED
  BY <1>1, <1>2, <1>3, Invariance, PTL DEF Spec
=============================================================================
