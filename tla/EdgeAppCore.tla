----------------------------- MODULE EdgeAppCore -----------------------------
(***************************************************************************)
(* libs/nn/src/edgeapp_core.cpp under the application it is written for,   *)
(* sample_apps/lp_recog/src/sm.cpp: one model on the image sensor and NCpu *)
(* models on the processor, loaded in onStart, run over the same frame in  *)
(* onIterate, and unloaded in onStop and again in onDestroy. The order in  *)
(* which these event functions are called is AppLifecycle, which           *)
(* StateMachine implements.                                                *)
(*                                                                         *)
(* What is at stake is ownership: a sensor frame passes from one           *)
(* ProcessedFrame to the next, an input buffer from the library to the     *)
(* application, and the sensor is stopped by whoever unloads the last      *)
(* model, which a static counter tells.                                    *)
(***************************************************************************)
EXTENDS AppLifecycle, Integers, FiniteSets

CONSTANTS
  NCpu,      \* models on the processor; 1 in lp_recog
  Frames,    \* frame handles of the sensor
  Blocks,    \* blocks of the heap
  Streams,   \* stream handles of the sensor
  Word,      \* number of values of model_count, 2^32 in the code
  MaxStarts  \* bound on the calls of onStart

CpuModels == 1..NCpu
Nowhere == {"none", "sensor", "copy"}

ASSUME CountAssumption == NCpu \in Nat \ {0} /\ MaxStarts \in Nat
ASSUME WordAssumption == Word \in Nat /\ Word > NCpu + 1
ASSUME HandleAssumption ==
  Nowhere \cap Frames = {} /\ Nowhere \cap Blocks = {} /\ Nowhere \cap Streams = {}

VARIABLES
  pc,          \* the statement of the application that is next
  i,           \* the context it works on; 0 is ctx_imx500
  targeted,    \* ctx_imx500.target is edge_imx500: LoadModel has set it
  stream,      \* ctx_imx500.sensor_stream
  graph,       \* the contexts with a graph_ctx
  temp,        \* temp_input.buffer: none, in the frame (Sensor), or a block (App)
  model_count,
  pending,     \* pending_sensor_shutdown
  open,        \* the sensor's open streams
  started,     \* those that deliver frames
  mapped_flag,
  held,        \* frames the sensor has handed out and not got back
  frame,       \* frame_ and owns_frame_ of the variable in onIterate
  owns,
  result,      \* the same of the object Process has returned
  result_owns,
  live,        \* allocated blocks
  input,       \* data of the tensors the application has
  output,
  corrupt,     \* where memory was freed that was not allocated
  starts,      \* calls of onStart
  loaded,      \* history: ctx_imx500 has been loaded and not unloaded
  missed,      \* history: times it was unloaded without being loaded
  abandoned    \* history: streams a failing LoadModel has left open

modelVars == <<targeted, stream, graph, model_count, pending>>
sensorVars == <<open, started, mapped_flag, abandoned>>
frameVars == <<held, frame, owns, result, result_owns>>
heapVars == <<temp, live, input, output, corrupt>>
pastVars == <<starts, loaded, missed>>
vars == <<lifecycleVars, pc, i, modelVars, sensorVars, frameVars, heapVars, pastVars>>

Statements == { "out", "load", "restart", "process", "detect", "getInput", "sendInput",
                "processModel", "assign", "getOutput", "recognise", "return", "unload" }

Init ==
  /\ busy = FALSE /\ LifecycleInit
  /\ pc = "out" /\ i = 0
  /\ targeted = FALSE /\ stream = "none"
  /\ graph = {} /\ temp = [m \in CpuModels |-> "none"]
  /\ model_count = 0 /\ pending = FALSE
  /\ open = {} /\ started = {} /\ mapped_flag = -1
  /\ held = {} /\ frame = "none" /\ owns = FALSE /\ result = "none" /\ result_owns = FALSE
  /\ live = {} /\ input = "none" /\ output = "none" /\ corrupt = {}
  /\ starts = 0 /\ loaded = FALSE /\ missed = 0 /\ abandoned = {}

-----------------------------------------------------------------------------
(* onCreate and onStart *)

Create ==
  /\ pc = "out" /\ OnCreate
  /\ UNCHANGED <<pc, i, modelVars, sensorVars, frameVars, heapVars, pastVars>>

BeginStart ==
  /\ pc = "out" /\ phase = "created" /\ ~busy /\ starts < MaxStarts
  /\ starts' = starts + 1
  /\ pc' = "load" /\ i' = 0
  /\ UNCHANGED <<lifecycleVars, modelVars, sensorVars, frameVars, heapVars, loaded, missed>>

StartFails == OnStart /\ phase' = "startFailed" /\ pc' = "out" /\ i' = 0

\* SensorStart finds out once how himem is read: -1 not known, 0 file, 1 map.
ChecksMemory == mapped_flag' \in IF mapped_flag = -1 THEN {-1, 0, 1} ELSE {mapped_flag}

\* Whatever was in sensor_stream is overwritten.
LoadImx500 ==
  /\ pc = "load" /\ i = 0
  /\ \E s \in Streams \ open :
       /\ stream' = s
       /\ open' = open \cup {s}
       /\ started' = started \cup {s}
  /\ ChecksMemory
  /\ targeted' = TRUE /\ loaded' = TRUE
  /\ model_count' = (model_count + 1) % Word
  /\ i' = 1
  /\ abandoned' = abandoned \cup ({stream} \ {"none"})
  /\ UNCHANGED <<lifecycleVars, pc, graph, pending, frameVars, heapVars, starts, missed>>

(* No core, no stream, no bundle, or no start; cleanup closes nothing, so  *)
(* a stream that refuses the bundle stays open.                            *)
LoadImx500Fails ==
  /\ pc = "load" /\ i = 0
  /\ targeted' = TRUE /\ stream' = "none"
  /\ \/ open' = open /\ abandoned' = abandoned \cup ({stream} \ {"none"})
     \/ \E s \in Streams \ open :
          /\ open' = open \cup {s}
          /\ abandoned' = abandoned \cup {s} \cup ({stream} \ {"none"})
  /\ StartFails
  /\ UNCHANGED <<graph, model_count, pending, started, mapped_flag, frameVars, heapVars, pastVars>>

LoadModel ==
  /\ pc = "load" /\ i \in CpuModels
  /\ temp' = [temp EXCEPT ![i] = "none"]
  /\ graph' = graph \cup {i}
  /\ model_count' = (model_count + 1) % Word
  /\ IF i = NCpu THEN pc' = "restart" /\ i' = 0 ELSE pc' = pc /\ i' = i + 1
  /\ UNCHANGED <<lifecycleVars, targeted, stream, pending, sensorVars, frameVars,
                 live, input, output, corrupt, pastVars>>

\* MUTANT: the model is counted before its context is initialised.
LoadModelFailsCounted ==
  /\ pc = "load" /\ i \in CpuModels
  /\ temp' = [temp EXCEPT ![i] = "none"]
  /\ model_count' = (model_count + 1) % Word
  /\ StartFails
  /\ UNCHANGED <<targeted, stream, graph, pending, sensorVars, frameVars,
                 live, input, output, corrupt, pastVars>>

\* No file, no graph, or no context.
LoadModelFails ==
  /\ pc = "load" /\ i \in CpuModels
  /\ temp' = [temp EXCEPT ![i] = "none"]
  /\ StartFails
  /\ UNCHANGED <<modelVars, sensorVars, frameVars, live, input, output, corrupt, pastVars>>

\* The stream is restarted for its frame rate; a failure is only logged.
RestartStream ==
  /\ pc = "restart"
  /\ \/ ChecksMemory /\ UNCHANGED started
     \/ started' = started \ {stream} /\ UNCHANGED mapped_flag
  /\ OnStart /\ phase' = "started" /\ pc' = "out"
  /\ UNCHANGED <<i, modelVars, open, abandoned, frameVars, heapVars, pastVars>>

-----------------------------------------------------------------------------
(* onIterate: the model on the sensor *)

BeginIterate ==
  /\ pc = "out" /\ busy' = TRUE /\ OnIterateBegins
  /\ pc' = "process" /\ i' = 0
  /\ UNCHANGED <<modelVars, sensorVars, frameVars, heapVars, pastVars>>

\* Process(ctx_imx500, &ctx_imx500, 0, roi): a frame is taken and owned.
ProcessImx500 ==
  /\ pc = "process"
  /\ \/ /\ stream \in started
        /\ \E f \in Frames \ held : held' = held \cup {f} /\ frame' = f
        /\ owns' = TRUE
        /\ pc' = "detect"
     \/ pc' = "return" /\ UNCHANGED <<held, frame, owns>>
  /\ UNCHANGED <<lifecycleVars, i, modelVars, sensorVars, result, result_owns, heapVars, pastVars>>

\* GetOutput reads the sensor's memory; the analysis may reject it.
Detect ==
  /\ pc = "detect"
  /\ pc' \in {"getInput", "return"}
  /\ UNCHANGED <<lifecycleVars, i, modelVars, sensorVars, frameVars, heapVars, pastVars>>

(* Himem read as a file comes as a copy, else the sensor's own memory. An  *)
(* image whose property is refused is freed in both cases.                 *)
GetInputImx500 ==
  /\ pc = "getInput" /\ i = 0
  /\ \/ /\ input' = IF mapped_flag = 0 THEN "copy" ELSE "sensor"
        /\ pc' = "sendInput" /\ UNCHANGED corrupt
     \/ pc' = "return" /\ UNCHANGED <<input, corrupt>>
     \/ /\ mapped_flag # 0
        /\ corrupt' = corrupt \cup {"GetInputImx500"}
        /\ pc' = "return" /\ UNCHANGED input
  /\ UNCHANGED <<lifecycleVars, i, modelVars, sensorVars, frameVars, temp, live, output, pastVars>>

-----------------------------------------------------------------------------
(* Memory *)

\* free(p) for each of the pointers, in the function named.
Frees(pointers, where) ==
  /\ live' = live \ pointers
  /\ corrupt' = IF pointers \subseteq live THEN corrupt ELSE corrupt \cup {where}

\* The block a pointer is responsible for, if it is one the App owns.
AppOwned(pointer) == {pointer} \cap Blocks

NextModel ==
  IF i = NCpu THEN pc' = "return" /\ i' = i ELSE pc' = "processModel" /\ i' = i + 1

\* Only what the App owns is freed after it has been sent.
SendInputTensor ==
  /\ pc = "sendInput"
  /\ Frees(AppOwned(input), "SendInputTensor")
  /\ input' = "none"
  /\ NextModel
  /\ UNCHANGED <<lifecycleVars, modelVars, sensorVars, frameVars, temp, output, pastVars>>

-----------------------------------------------------------------------------
(* onIterate: the models on the processor *)

(* Process(ctx, &ctx_imx500, frame, roi): the previous input is freed, the *)
(* new one is the cropped or preprocessed copy, or the frame itself when   *)
(* the region is empty; with a channel, a property, a callback or memory   *)
(* missing there is none. The object returned owns the frame in any case.  *)
Process ==
  /\ pc = "processModel"
  /\ LET previous == AppOwned(temp[i]) IN
       \/ /\ Frees(previous, "ProcessInternal")
          /\ \E where \in {"none", "sensor"} : temp' = [temp EXCEPT ![i] = where]
       \/ \E b \in Blocks \ (live \ previous) :
            /\ temp' = [temp EXCEPT ![i] = b]
            /\ live' = (live \ previous) \cup {b}
            /\ corrupt' = IF previous \subseteq live THEN corrupt ELSE corrupt \cup {"ProcessInternal"}
  /\ result' = frame /\ result_owns' = TRUE
  /\ pc' = "assign"
  /\ UNCHANGED <<lifecycleVars, i, modelVars, sensorVars, held, frame, owns, input, output, pastVars>>

\* MUTANT: the frame that is overwritten is released first.
AssignReleases ==
  /\ pc = "assign"
  /\ held' = IF owns THEN held \ {frame} ELSE held
  /\ frame' = result /\ owns' = result_owns
  /\ result' = "none" /\ result_owns' = FALSE
  /\ pc' = "getOutput"
  /\ UNCHANGED <<lifecycleVars, i, modelVars, sensorVars, heapVars, pastVars>>

(* frame = Process(...): move assignment drops the frame that was there    *)
(* without releasing it, and leaves the source without one.                *)
Assign ==
  /\ pc = "assign"
  /\ frame' = result /\ owns' = result_owns
  /\ result' = "none" /\ result_owns' = FALSE
  /\ pc' = "getOutput"
  /\ UNCHANGED <<lifecycleVars, i, modelVars, sensorVars, held, heapVars, pastVars>>

(* A block with the outputs, no memory for it, or no output at all: the    *)
(* block is then resized to nothing and freed, which frees it twice where  *)
(* realloc(p, 0) frees.                                                    *)
GetOutput ==
  /\ pc = "getOutput"
  /\ \/ \E b \in Blocks \ live :
          /\ output' = b /\ live' = live \cup {b}
          /\ pc' = "recognise" /\ UNCHANGED corrupt
     \/ /\ pc' = "return"
        /\ corrupt' \in {corrupt, corrupt \cup {"GetOutput"}}
        /\ UNCHANGED <<output, live>>
  /\ UNCHANGED <<lifecycleVars, i, modelVars, sensorVars, frameVars, temp, input, pastVars>>

\* The result is sent and the outputs are freed; some send the input as well.
Recognise ==
  /\ pc = "recognise"
  /\ Frees({output}, "onIterate")
  /\ output' = "none"
  /\ \/ NextModel
     \/ pc' = "getInput" /\ i' = i
  /\ UNCHANGED <<lifecycleVars, modelVars, sensorVars, frameVars, temp, input, pastVars>>

\* MUTANT: the buffer that was handed over stays in the context.
GetInputKeeps ==
  /\ pc = "getInput" /\ i \in CpuModels
  /\ input' = temp[i]
  /\ pc' = IF temp[i] = "none" THEN "return" ELSE "sendInput"
  /\ UNCHANGED <<lifecycleVars, i, modelVars, sensorVars, frameVars, temp, live, output, corrupt, pastVars>>

\* What the App owns is handed over to the caller.
GetInput ==
  /\ pc = "getInput" /\ i \in CpuModels
  /\ input' = temp[i]
  /\ temp' = [temp EXCEPT ![i] = IF @ \in Blocks THEN "none" ELSE @]
  /\ pc' = IF temp[i] = "none" THEN "return" ELSE "sendInput"
  /\ UNCHANGED <<lifecycleVars, i, modelVars, sensorVars, frameVars, live, output, corrupt, pastVars>>

\* The destructor releases the frame it owns; that it was not held is no error.
Return ==
  /\ pc = "return" /\ busy' = FALSE /\ OnIterateReturns
  /\ held' = IF owns THEN held \ {frame} ELSE held
  /\ frame' = "none" /\ owns' = FALSE
  /\ input' = "none" /\ output' = "none"
  /\ pc' = "out" /\ i' = 0
  /\ UNCHANGED <<modelVars, sensorVars, result, result_owns, temp, live, corrupt, pastVars>>

-----------------------------------------------------------------------------
(* onStop and onDestroy *)

BeginUnload ==
  /\ pc = "out" /\ ~busy /\ phase # "destroyed"
  /\ pc' = "unload" /\ i' = 0
  /\ UNCHANGED <<lifecycleVars, modelVars, sensorVars, frameVars, heapVars, pastVars>>

\* onStop after an onStart, whatever it returned; else it was onDestroy.
UnloadNext ==
  IF i = NCpu THEN (OnStop \/ OnDestroy) /\ pc' = "out" /\ i' = 0
  ELSE pc' = pc /\ i' = i + 1 /\ UNCHANGED lifecycleVars

\* MUTANT: the sensor is stopped only by the unload of its own model.
StopsIfOwn(count, wanted) ==
  IF count = 0 /\ wanted /\ stream # "none" /\ i = 0
  THEN /\ started' = started \ {stream} /\ open' = open \ {stream}
       /\ stream' = "none" /\ pending' = FALSE
  ELSE UNCHANGED <<started, open, stream>> /\ pending' = wanted

\* The unload that finds no model left stops the sensor and closes its stream.
StopsIfLast(count, wanted) ==
  IF count = 0 /\ wanted /\ stream # "none"
  THEN /\ started' = started \ {stream} /\ open' = open \ {stream}
       /\ stream' = "none" /\ pending' = FALSE
  ELSE UNCHANGED <<started, open, stream>> /\ pending' = wanted

\* The count goes down whether or not the model had been loaded.
UnloadImx500 ==
  /\ pc = "unload" /\ i = 0
  /\ model_count' = IF targeted THEN (model_count - 1) % Word ELSE model_count
  /\ StopsIfLast(model_count', pending \/ targeted)
  /\ loaded' = FALSE
  /\ missed' = IF targeted /\ ~loaded THEN missed + 1 ELSE missed
  /\ UnloadNext
  /\ UNCHANGED <<targeted, graph, mapped_flag, abandoned, frameVars, heapVars, starts>>

UnloadModel ==
  /\ pc = "unload" /\ i \in CpuModels
  /\ Frees(AppOwned(temp[i]), "UnloadModel")
  /\ temp' = [temp EXCEPT ![i] = "none"]
  /\ graph' = graph \ {i}
  /\ model_count' = IF i \in graph THEN (model_count - 1) % Word ELSE model_count
  /\ StopsIfLast(model_count', pending)
  /\ UnloadNext
  /\ UNCHANGED <<targeted, mapped_flag, abandoned, frameVars, input, output, pastVars>>

-----------------------------------------------------------------------------

\* A program that has freed what was not allocated is not followed further.
Next ==
  /\ corrupt = {}
  /\ \/ Create \/ BeginStart
     \/ LoadImx500 \/ LoadImx500Fails \/ LoadModel \/ LoadModelFails \/ RestartStream
     \/ BeginIterate \/ ProcessImx500 \/ Detect \/ GetInputImx500 \/ SendInputTensor
     \/ Process \/ Assign \/ GetOutput \/ Recognise \/ GetInput \/ Return
     \/ BeginUnload \/ UnloadImx500 \/ UnloadModel

Spec == Init /\ [][Next]_vars

-----------------------------------------------------------------------------
(* Properties *)

ProgramTypes == phase \in Phases /\ busy \in BOOLEAN /\ pc \in Statements /\ i \in 0..NCpu

ModelTypes ==
  /\ targeted \in BOOLEAN /\ pending \in BOOLEAN /\ loaded \in BOOLEAN
  /\ graph \subseteq CpuModels /\ model_count \in 0..Word - 1
  /\ starts \in 0..MaxStarts /\ missed \in Nat

SensorTypes ==
  /\ open \subseteq Streams /\ started \subseteq open /\ abandoned \subseteq open
  /\ stream \in (open \ abandoned) \cup {"none"}
  /\ mapped_flag \in {-1, 0, 1}

FrameTypes ==
  /\ held \subseteq Frames
  /\ frame \in Frames \cup {"none"} /\ result \in Frames \cup {"none"}
  /\ owns \in BOOLEAN /\ result_owns \in BOOLEAN

HeapTypes ==
  /\ temp \in [CpuModels -> Blocks \cup {"none", "sensor"}]
  /\ live \subseteq Blocks
  /\ input \in Blocks \cup Nowhere /\ output \in Blocks \cup {"none"}

TypeOK == ProgramTypes /\ ModelTypes /\ SensorTypes /\ FrameTypes /\ HeapTypes

Owned(handle, owner) == IF owner THEN {handle} \ {"none"} ELSE {}

(* A frame handed from model to model has one owner whenever the           *)
(* application runs, so the destructor releases it exactly once: nothing   *)
(* is held that nobody will release, and nothing is released that is not   *)
(* held, an error SensorReleaseFrame would hide.                           *)
FrameHasOneOwner ==
  pc # "assign" =>
    /\ held = Owned(frame, owns) \cup Owned(result, result_owns)
    /\ Owned(frame, owns) \cap Owned(result, result_owns) = {}

AppPointers == { temp[m] : m \in CpuModels } \cup {input, output}

(* Every block has one owner: the context that keeps it or the tensor that *)
(* was handed out, and each is freed once, over frames, models, stops and  *)
(* failures at any point. Where the code itself frees wrongly (the image   *)
(* of the sensor, empty outputs) it is one of the two places named.        *)
HeapIsSound ==
  /\ corrupt \subseteq {"GetInputImx500", "GetOutput"}
  /\ live = AppPointers \cap Blocks
  /\ \A m, k \in CpuModels : temp[m] = temp[k] /\ temp[m] \in Blocks => m = k
  /\ \A m \in CpuModels : temp[m] \in Blocks => temp[m] \notin {input, output}
  /\ input \in Blocks => input # output

(* model_count is the number of models that are loaded, short of one for   *)
(* each time the model of the sensor was unloaded without being loaded.    *)
CountIsLoaded ==
  model_count = (Cardinality(graph) + (IF loaded THEN 1 ELSE 0) - missed) % Word

(* An application that is stopped has stopped the sensor and closed its    *)
(* streams, whichever load failed and whatever was unloaded twice before   *)
(* it was loaded; not so once a failing load of the sensor's model was     *)
(* followed by its unload, which leaves the count wrong for ever.          *)
SensorIsStopped ==
  phase = "created" /\ pc = "out" /\ missed = 0 => started = {} /\ open = abandoned
=============================================================================
