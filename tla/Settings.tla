------------------------------ MODULE Settings ------------------------------
(***************************************************************************)
(* The settings of the DTDL model in libs/sm: a configuration document is  *)
(* verified as a whole and then applied group by group, to the sensor and  *)
(* to the document that is reported; whatever sets a sensor property later *)
(* is stored back into that document.                                      *)
(*                                                                         *)
(* Each group of PQ settings exists three times: in the sensor, in a       *)
(* struct of its class (cache) and in the JSON tree (json). A group that a *)
(* document mentions in part is completed from the struct.                 *)
(*                                                                         *)
(* A document is applied while no worker runs (StateMachine proves it),    *)
(* so main is alone then; a worker's store is split in three, because main *)
(* reports the tree at any moment while it runs.                           *)
(***************************************************************************)
EXTENDS Integers, Sequences, FiniteSets

CONSTANTS
  Keys,         \* the PQ settings of the instance
  MaxValue,     \* the values of a field are 0..MaxValue
  Docs,         \* the documents the cloud may send
  AppValues,    \* AppValues[k]: what the application may set k to
  InitialSensor,\* InitialSensor[k]: what the sensor starts with
  Registers,    \* well-formed register writes
  MaxRegisters, \* MAX_REGISTER_ACCESS_COUNT
  MaxModels,    \* MAX_AI_MODELS_COUNT
  MaxGamma,     \* size of the largest gamma parameter
  Env           \* the failures and rare events the environment may produce

EnvEvents == { "refuse", "refuseRegister", "getFails", "downloadFails",
               "onConfigureFails", "mainSets", "workerSets", "setsRegister",
               "sendFails" }
May(event) == event \in Env

-----------------------------------------------------------------------------
(* The fields of each group; a class of pq_settings/ per group. *)

CameraImageSize == {"width", "height", "scaling_policy"}
CameraImageFlip == {"flip_horizontal", "flip_vertical"}
AutoExposure == {"max_exposure_time", "min_exposure_time", "max_gain", "convergence_speed"}
AutoExposureMetering == {"mode", "top", "left", "bottom", "right"}
ManualExposure == {"exposure_time", "gain"}
FrameRate == {"num", "denom"}
AutoWhiteBalance == {"convergence_speed"}
ManualWhiteBalancePreset == {"color_temperature"}
ImageCropping == {"left", "top", "width", "height"}

\* Settings of one number each, and the gamma parameter.
ScalarKeys == { "digital_zoom", "exposure_mode", "ev_compensation", "ae_anti_flicker_mode",
                "white_balance_mode", "image_rotation", "gamma_mode" }

FieldsOf(k) ==
  CASE k = "camera_image_size" -> CameraImageSize
    [] k = "camera_image_flip" -> CameraImageFlip
    [] k = "auto_exposure" -> AutoExposure
    [] k = "auto_exposure_metering" -> AutoExposureMetering
    [] k = "manual_exposure" -> ManualExposure
    [] k = "frame_rate" -> FrameRate
    [] k = "auto_white_balance" -> AutoWhiteBalance
    [] k = "manual_white_balance_preset" -> ManualWhiteBalancePreset
    [] k = "image_cropping" -> ImageCropping
    [] OTHER -> {"value"}

\* Kept in the document in another form than in the sensor, or only in part.
Converted == {"manual_white_balance_preset", "gamma_parameter"}
Kelvin == <<3200, 4300, 5600, 6500>>

\* Settings without a sensor property, and the two ports.
PlainKeys == { "process_state", "log_level", "number_of_inference_per_message",
               "number_of_iterations", "format" }
Ports == {"metadata", "input_tensor"}
IdleState == 1
RunningState == 2

Partial(S, T) == UNION { [D -> T] : D \in SUBSET S }
Overlay(base, part) ==
  [f \in DOMAIN base |-> IF f \in DOMAIN part THEN part[f] ELSE base[f]]
Tuples(k) == [FieldsOf(k) -> Nat]

Arrays == {"ai_models", "register_access"}

\* What a document does not mention is absent from the functions it consists of.
NoDoc == [valid |-> FALSE, plain |-> <<>>, pq |-> <<>>, ports |-> <<>>, arrays |-> <<>>]

ASSUME DocsAssumption ==
  \A d \in Docs :
    /\ d.valid \in BOOLEAN
    /\ DOMAIN d.plain \subseteq PlainKeys
    /\ \A k \in DOMAIN d.plain : d.plain[k] \in Nat
    /\ DOMAIN d.pq \subseteq Keys
    /\ \A k \in DOMAIN d.pq : /\ DOMAIN d.pq[k] \subseteq FieldsOf(k)
                              /\ \A f \in DOMAIN d.pq[k] : d.pq[k][f] \in Int
    /\ DOMAIN d.ports \subseteq Ports
    /\ \A p \in DOMAIN d.ports : d.ports[p] \in BOOLEAN
    /\ DOMAIN d.arrays \subseteq Arrays
    /\ \A a \in DOMAIN d.arrays : d.arrays[a] \in Seq(STRING)
ASSUME ValuesAssumption ==
  /\ MaxValue \in Nat /\ Registers \subseteq STRING
  /\ \A k \in Keys : AppValues[k] \subseteq Tuples(k) /\ InitialSensor[k] \subseteq Tuples(k)
  /\ "manual_white_balance_preset" \in Keys =>
       \A v \in InitialSensor["manual_white_balance_preset"] : v["color_temperature"] > 3
ASSUME LimitsAssumption == MaxModels \in Nat \ {0} /\ MaxRegisters \in Nat /\ MaxGamma \in Nat
ASSUME EnvAssumption == Env \subseteq EnvEvents

VARIABLES
  pc,       \* where the main thread is in Applying, or in a report
  doc,      \* the document being applied
  todo,     \* groups of PQ settings still to apply
  sensor,   \* the properties of the sensor
  cache,    \* the struct of each group
  json,     \* the group in the JSON tree
  plain,    \* the settings without a sensor property, in the tree
  ports,    \* port_settings in the tree
  channels, \* the input data type the sensor was given
  models,   \* ai_models in the tree
  items,    \* register_access_array: the item's value, and whether it failed
  index,    \* register_access_array_index
  code,     \* res_info.code
  notify,   \* is_pending_notification
  reported, \* the tree of the last report, or that the agent did not take it
  running,  \* process state: a worker calls onIterate
  worker,   \* where the worker is in SensorStreamSetProperty
  wset      \* what it sets

mainVars == <<pc, doc, todo>>
pqVars == <<sensor, cache, json>>
otherVars == <<plain, ports, channels, models>>
registerVars == <<items, index>>
workerVars == <<running, worker, wset>>
vars == <<mainVars, pqVars, otherVars, registerVars, code, notify, reported, workerVars>>

Codes == {"OK", "INVALID_ARGUMENT", "OUT_OF_RANGE", "INTERNAL", "FAILED_PRECONDITION"}
\* LoopIterate goes from "ready" to "end", where a pending notification is sent.
Labels == { "open", "ready", "common", "models", "registers", "pq", "ports",
            "custom", "onConfigure", "end", "clear" }
Applying == {"common", "models", "registers", "pq", "ports", "custom", "onConfigure"}

Live(i) == ~items[i].failed
RegisterArray == [i \in { j \in 1..Len(items) : Live(j) } |-> items[i].value]
Tree == [json |-> json, plain |-> plain, ports |-> ports, models |-> models,
         registers |-> RegisterArray, code |-> code]
NotTaken == <<>>

-----------------------------------------------------------------------------
(* Storing a value the sensor has accepted *)

Position(t) == CASE t = 4300 -> 1 [] t = 5600 -> 2 [] t = 6500 -> 3 [] OTHER -> 0

\* The preset's number, not its temperature, goes to the tree and to the struct.
Stored(k, v) ==
  IF k = "manual_white_balance_preset"
    THEN [f \in DOMAIN v |-> Position(v[f])]
    ELSE v

\* An empty gamma parameter is never stored.
IsNews(k, v) ==
  Stored(k, v) # cache[k] /\ (k = "gamma_parameter" => v["value"] # 0)

\* MUTANT: the struct keeps the value it had.
StoreValueForgets(k, v) ==
  /\ json' = IF IsNews(k, v) THEN [json EXCEPT ![k] = Stored(k, v)] ELSE json
  /\ notify' = (notify \/ IsNews(k, v))
  /\ UNCHANGED cache

StoreValue(k, v) ==
  /\ json' = IF IsNews(k, v) THEN [json EXCEPT ![k] = Stored(k, v)] ELSE json
  /\ cache' = IF IsNews(k, v) THEN [cache EXCEPT ![k] = Stored(k, v)] ELSE cache
  /\ notify' = (notify \/ IsNews(k, v))

SensorStreamSetProperty(k, v) ==
  /\ sensor' = [sensor EXCEPT ![k] = v]
  /\ StoreValue(k, v)

-----------------------------------------------------------------------------
(* Opening the stream *)

Zero(k) == [f \in FieldsOf(k) |-> 0]

Init ==
  /\ pc = "open" /\ doc = NoDoc /\ todo = {}
  /\ sensor \in { s \in [Keys -> UNION { InitialSensor[k] : k \in Keys }] :
                    \A k \in Keys : s[k] \in InitialSensor[k] }
  /\ cache = [k \in Keys |-> Zero(k)]
  /\ json = [k \in Keys |-> Zero(k)]
  /\ plain = [k \in PlainKeys |-> IF k = "log_level" THEN 0 ELSE 1]
  /\ ports = [p \in Ports |-> FALSE]
  /\ channels = {}
  /\ models = <<>>
  /\ items = <<>> /\ index = 1
  /\ code = "OK" /\ notify = TRUE /\ reported = Tree
  /\ running = FALSE /\ worker = "idle" /\ wset = <<>>

\* A property that cannot be read leaves its struct as it was; the gamma
\* parameter is not read at all.
InitializeValues ==
  /\ pc = "open"
  /\ pc' = "end"
  /\ \E failed \in SUBSET Keys :
       /\ failed # {} => May("getFails")
       /\ cache' = [k \in Keys |-> IF k \in failed \cup {"gamma_parameter"}
                                     THEN cache[k] ELSE sensor[k]]
  /\ json' = [k \in Keys |-> Stored(k, cache'[k])]
  /\ UNCHANGED <<doc, todo, sensor, otherVars, registerVars, code, notify, reported, workerVars>>

-----------------------------------------------------------------------------
(* Verification *)

ExposureOrdered(v) == v["min_exposure_time"] <= v["max_exposure_time"]

FullScreen == 0
MeteringOrdered(v) ==
  v["mode"] = FullScreen \/ (v["top"] < v["bottom"] /\ v["left"] < v["right"])

\* What a class adds to the ranges of its fields.
GroupOrdered(k, v) ==
  /\ k = "auto_exposure" => ExposureOrdered(v)
  /\ k = "auto_exposure_metering" => MeteringOrdered(v)

InRange(k, x) == x \in 0..(IF k = "manual_white_balance_preset" THEN 3 ELSE MaxValue)

\* MUTANT: the document is looked at without what it leaves out.
VerifyGroupAlone(k, part) ==
  /\ \A f \in DOMAIN part : k = "gamma_parameter" \/ InRange(k, part[f])
  /\ DOMAIN part = FieldsOf(k) => GroupOrdered(k, part)

VerifyGroup(k, part) ==
  /\ \A f \in DOMAIN part : k = "gamma_parameter" \/ InRange(k, part[f])
  /\ GroupOrdered(k, Overlay(cache[k], part))

VerifyRegisters(s) ==
  Len(s) <= MaxRegisters /\ \A i \in 1..Len(s) : s[i] \in Registers

\* MUTANT: both ports must be mentioned to be refused.
VerifyPortsAlone(part) == DOMAIN part = Ports => \E p \in Ports : part[p]

\* The document of the last configuration is completed, not what the sensor has.
VerifyPorts(part) == \E p \in Ports : Overlay(ports, part)[p]

Verify(d) ==
  /\ \A k \in DOMAIN d.pq : VerifyGroup(k, d.pq[k])
  /\ "register_access" \in DOMAIN d.arrays => VerifyRegisters(d.arrays["register_access"])
  /\ d.ports # <<>> => VerifyPorts(d.ports)

\* The worker is joined before Applying is entered.
Ready == pc = "ready" /\ worker = "idle"

\* MUTANT: a document is answered without a notification.
UpdateQuietly(d) ==
  /\ Ready
  /\ running' = FALSE
  /\ IF d.valid /\ Verify(d)
       THEN /\ pc' = "common" /\ doc' = d /\ todo' = DOMAIN d.pq /\ code' = "OK"
            /\ UNCHANGED plain
       ELSE /\ code' = IF d.valid THEN "INVALID_ARGUMENT" ELSE code
            /\ plain' = [plain EXCEPT !["process_state"] = IdleState]
            /\ pc' = "end" /\ UNCHANGED <<doc, todo>>
  /\ UNCHANGED <<pqVars, ports, channels, models, registerVars, notify, reported, worker, wset>>

Update(d) ==
  /\ Ready
  /\ running' = FALSE
  /\ notify' = TRUE
  /\ IF d.valid /\ Verify(d)
       THEN pc' = "common" /\ doc' = d /\ todo' = DOMAIN d.pq /\ code' = "OK"
            /\ UNCHANGED plain
       ELSE /\ code' = IF d.valid THEN "INVALID_ARGUMENT" ELSE code
            /\ plain' = [plain EXCEPT !["process_state"] = IdleState]
            /\ pc' = "end" /\ UNCHANGED <<doc, todo>>
  /\ UNCHANGED <<pqVars, ports, channels, models, registerVars, reported, worker, wset>>

-----------------------------------------------------------------------------
(* Application *)

PerMessage == "number_of_inference_per_message"
OutOfRange == PerMessage \in DOMAIN doc.plain /\ doc.plain[PerMessage] = 0

\* process_state and log_level are stored before the rest is looked at; the
\* custom settings are applied whatever becomes of the common ones.
ApplyCommon ==
  /\ pc = "common"
  /\ LET first == {"process_state", "log_level"} \cup (IF OutOfRange THEN {} ELSE {PerMessage})
     IN plain' = [k \in PlainKeys |-> IF k \in first THEN Overlay(plain, doc.plain)[k] ELSE plain[k]]
  /\ IF OutOfRange
       THEN pc' = "custom" /\ code' = "OUT_OF_RANGE" /\ todo' = {}
       ELSE pc' = "models" /\ UNCHANGED <<code, todo>>
  /\ UNCHANGED <<doc, pqVars, ports, channels, models, registerVars, notify, reported, workerVars>>

\* Each model is downloaded; the result of the last one is the one that stays.
ApplyModels ==
  /\ pc = "models"
  /\ pc' = "registers"
  /\ IF "ai_models" \notin DOMAIN doc.arrays
       THEN UNCHANGED <<models, code>>
       ELSE LET given == doc.arrays["ai_models"]
                n == IF Len(given) > MaxModels THEN MaxModels ELSE Len(given)
            IN \E failed \in SUBSET (1..n) :
                 /\ failed # {} => May("downloadFails")
                 /\ models' = [i \in (1..n) \ failed |-> given[i]]
                 /\ code' = CASE n = 0 -> code [] n \in failed -> "INTERNAL" [] OTHER -> "OK"
  /\ UNCHANGED <<doc, todo, pqVars, plain, ports, channels, registerVars, notify, reported, workerVars>>

\* Items are reused from the front; an item the sensor refuses is marked as
\* failed and its part of the tree is freed.
ApplyRegisters ==
  /\ pc = "registers"
  /\ pc' = "pq"
  /\ IF "register_access" \notin DOMAIN doc.arrays
       THEN UNCHANGED <<registerVars, code>>
       ELSE LET given == doc.arrays["register_access"]
                n == Len(given)
            IN \E failed \in SUBSET (1..n) :
                 /\ failed # {} => May("refuseRegister")
                 /\ items' = [i \in 1..n |-> [value |-> given[i], failed |-> i \in failed]]
                 /\ index' = IF n = 0 THEN index ELSE n
                 /\ code' = IF failed = {} THEN code ELSE "INVALID_ARGUMENT"
  /\ UNCHANGED <<doc, todo, pqVars, otherVars, notify, reported, workerVars>>

\* The order of the groups is the document's; none depends on another.
Temperature(k, x) == IF k = "manual_white_balance_preset" THEN Kelvin[x + 1] ELSE x

\* MUTANT: fields the document leaves out are set to zero.
HandedFresh(k) == Overlay(Zero(k), [f \in DOMAIN doc.pq[k] |-> Temperature(k, doc.pq[k][f])])

\* What the sensor is asked to set: the struct, overlaid with the document.
Handed(k) == Overlay(cache[k], [f \in DOMAIN doc.pq[k] |-> Temperature(k, doc.pq[k][f])])

TooLong(k) == k = "gamma_parameter" /\ \E f \in DOMAIN doc.pq[k] : doc.pq[k][f] > MaxGamma

ApplyGroup(k) ==
  /\ pc = "pq" /\ k \in todo
  /\ todo' = todo \ {k}
  /\ \/ ~TooLong(k) /\ SensorStreamSetProperty(k, Handed(k)) /\ UNCHANGED code
     \/ ~TooLong(k) /\ May("refuse") /\ code' = "INVALID_ARGUMENT" /\ UNCHANGED <<pqVars, notify>>
     \/ TooLong(k) /\ UNCHANGED <<pqVars, code, notify>>
  /\ UNCHANGED <<pc, doc, otherVars, registerVars, reported, workerVars>>

GroupsApplied ==
  /\ pc = "pq" /\ todo = {}
  /\ pc' = "ports"
  /\ UNCHANGED <<doc, todo, pqVars, otherVars, registerVars, code, notify, reported, workerVars>>

Enabled == { p \in Ports : ports'[p] }

\* The tree is written first; a sensor that refuses leaves it as it is.
ApplyPorts ==
  /\ pc = "ports"
  /\ pc' = "custom"
  /\ ports' = Overlay(ports, doc.ports)
  /\ plain' = [k \in PlainKeys |-> IF k \in {"number_of_iterations", "format"}
                                     THEN Overlay(plain, doc.plain)[k] ELSE plain[k]]
  /\ \/ (doc.ports = <<>> \/ Enabled = {}) /\ UNCHANGED <<channels, code>>
     \/ doc.ports # <<>> /\ Enabled # {} /\ channels' = Enabled /\ UNCHANGED code
     \/ /\ doc.ports # <<>> /\ Enabled # {} /\ May("refuse")
        /\ code' = "INVALID_ARGUMENT" /\ UNCHANGED channels
  /\ UNCHANGED <<doc, todo, pqVars, models, registerVars, notify, reported, workerVars>>

\* The custom settings are the application's own; the tree gets a copy and
\* onConfigure, which may set properties of the sensor, the text.
ApplyCustom ==
  /\ pc = "custom"
  /\ pc' = "onConfigure"
  /\ UNCHANGED <<doc, todo, pqVars, otherVars, registerVars, code, notify, reported, workerVars>>

CustomApplied ==
  /\ pc = "onConfigure"
  /\ pc' = "end" /\ doc' = NoDoc
  /\ \/ UNCHANGED code
     \/ May("onConfigureFails") /\ code' = "FAILED_PRECONDITION"
  /\ notify' = TRUE
  /\ UNCHANGED <<todo, pqVars, otherVars, registerVars, reported, workerVars>>

-----------------------------------------------------------------------------
(* What the application sets itself *)

\* The main thread is in an event function: onConfigure, or onCreate, onStart
\* or onStop at the end of an iteration.
InCallback == pc = "onConfigure" \/ (pc = "end" /\ ~running)

MainSets(k) ==
  /\ May("mainSets")
  /\ InCallback
  /\ \E v \in AppValues[k] : SensorStreamSetProperty(k, v)
  /\ UNCHANGED <<mainVars, otherVars, registerVars, code, reported, workerVars>>

RegisterTarget == IF index <= Len(items) THEN {index} ELSE {}

\* The register is written into the item of the array that was applied last.
SetsRegister(r) ==
  /\ May("setsRegister")
  /\ InCallback \/ (running /\ worker = "idle")
  /\ IF RegisterTarget = {} \/ items[index].value = r
       THEN UNCHANGED <<items, notify>>
       ELSE items' = [items EXCEPT ![index].value = r] /\ notify' = TRUE
  /\ UNCHANGED <<mainVars, pqVars, otherVars, index, code, reported, workerVars>>

\* In onIterate: the flag is raised before the tree is written.
WorkerSets(k) ==
  /\ May("workerSets")
  /\ running /\ worker = "idle"
  /\ \E v \in AppValues[k] :
       /\ sensor' = [sensor EXCEPT ![k] = v]
       /\ notify' = (notify \/ IsNews(k, v))
       /\ IF IsNews(k, v)
            THEN worker' = "json" /\ wset' = [key |-> k, value |-> Stored(k, v)]
            ELSE UNCHANGED <<worker, wset>>
  /\ UNCHANGED <<mainVars, cache, json, otherVars, registerVars, code, reported, running>>

WorkerWritesTree ==
  /\ worker = "json"
  /\ json' = [json EXCEPT ![wset.key] = wset.value]
  /\ worker' = "cache"
  /\ UNCHANGED <<mainVars, sensor, cache, otherVars, registerVars, code, notify, reported, running, wset>>

WorkerWritesStruct ==
  /\ worker = "cache"
  /\ cache' = [cache EXCEPT ![wset.key] = wset.value]
  /\ worker' = "idle" /\ wset' = <<>>
  /\ UNCHANGED <<mainVars, sensor, json, otherVars, registerVars, code, notify, reported, running>>

-----------------------------------------------------------------------------
(* Reports *)

Iterate ==
  /\ pc = "ready"
  /\ pc' = "end"
  /\ UNCHANGED <<doc, todo, pqVars, otherVars, registerVars, code, notify, reported, workerVars>>

\* SendState: a failure, at once or told to the callback later, is logged, and
\* nothing sends the state again.
SendState ==
  \/ reported' = Tree
  \/ May("sendFails") /\ reported' = NotTaken

\* Entering Running reports the state without clearing the flag.
Start ==
  /\ pc = "end" /\ ~running /\ plain["process_state"] = RunningState
  /\ running' = TRUE
  /\ SendState
  /\ UNCHANGED <<mainVars, pqVars, otherVars, registerVars, code, notify, worker, wset>>

Report ==
  /\ pc = "end"
  /\ IF notify
       THEN pc' = "clear" /\ SendState
       ELSE pc' = "ready" /\ UNCHANGED reported
  /\ UNCHANGED <<doc, todo, pqVars, otherVars, registerVars, code, notify, workerVars>>

ClearNotification ==
  /\ pc = "clear"
  /\ pc' = "ready"
  /\ notify' = FALSE
  /\ UNCHANGED <<doc, todo, pqVars, otherVars, registerVars, code, reported, workerVars>>

Next ==
  \/ InitializeValues
  \/ \E d \in Docs : Update(d)
  \/ ApplyCommon \/ ApplyModels \/ ApplyRegisters
  \/ \E k \in Keys : ApplyGroup(k)
  \/ GroupsApplied \/ ApplyPorts \/ ApplyCustom \/ CustomApplied
  \/ \E k \in Keys : MainSets(k) \/ WorkerSets(k)
  \/ WorkerWritesTree \/ WorkerWritesStruct
  \/ \E r \in Registers : SetsRegister(r)
  \/ Iterate \/ Start \/ Report \/ ClearNotification

Spec == Init /\ [][Next]_vars

-----------------------------------------------------------------------------
(* Properties *)

TypeOK ==
  /\ pc \in Labels
  /\ doc \in Docs \cup {NoDoc} /\ todo \subseteq DOMAIN doc.pq
  /\ \A t \in {sensor, cache, json} :
       DOMAIN t = Keys /\ \A k \in Keys : t[k] \in [FieldsOf(k) -> Int]
  /\ DOMAIN plain = PlainKeys /\ ports \in [Ports -> BOOLEAN] /\ channels \subseteq Ports
  /\ items \in Seq([value : STRING, failed : BOOLEAN])
  /\ index \in Nat \ {0}
  /\ code \in Codes
  /\ notify \in BOOLEAN /\ running \in BOOLEAN
  /\ worker \in {"idle", "json", "cache"}
  /\ worker # "idle" => wset.key \in Keys

Storing(k) == worker # "idle" /\ wset.key = k

(* Outside a store the tree shows what the sensor holds, and so does the   *)
(* struct, except that of the preset. A group is completed from its        *)
(* struct, so whatever strays there is what the next partial document      *)
(* sets.                                                                   *)
Mirrored ==
  pc # "open" => \A k \in Keys \ {"gamma_parameter"} :
    ~Storing(k) => /\ json[k] = Stored(k, sensor[k])
                   /\ k \notin Converted => cache[k] = sensor[k]

Applies(k) == k \in todo /\ k \notin todo'

(* A document that mentions some fields of a group leaves the others as    *)
(* they are in the sensor, whoever set them last.                          *)
AbsentIsKept ==
  [][\A k \in Keys \ Converted : Applies(k) =>
       \A f \in FieldsOf(k) \ DOMAIN doc.pq[k] : sensor'[k][f] = sensor[k][f]]_vars

(* No document makes the library give the sensor a minimum exposure above  *)
(* the maximum or an empty metering window, also when it mentions only one *)
(* of the two: what was verified is what is set.                           *)
SetsOrdered ==
  [][\A k \in Keys : Applies(k) /\ sensor'[k] # sensor[k] => GroupOrdered(k, sensor'[k])]_vars

\* The documents whose failures res_info tells.
Answered(d) ==
  /\ "gamma_parameter" \notin DOMAIN d.pq
  /\ "ai_models" \in DOMAIN d.arrays => Len(d.arrays["ai_models"]) <= 1

GroupApplied(k) ==
  \A f \in DOMAIN doc.pq[k] : json[k][f] = doc.pq[k][f]

DocApplied ==
  /\ \A k \in DOMAIN doc.pq : GroupApplied(k)
  /\ \A k \in DOMAIN doc.plain : plain[k] = doc.plain[k]
  /\ doc.ports # <<>> => (\A p \in DOMAIN doc.ports : doc.ports[p] = (p \in channels))
  /\ "ai_models" \in DOMAIN doc.arrays => models = doc.arrays["ai_models"]
  /\ "register_access" \in DOMAIN doc.arrays =>
       \A i \in 1..Len(doc.arrays["register_access"]) : ~items[i].failed

(* Code 0 at the end of the common settings says that all of them are in   *)
(* force: no refusal on the way was lost.                                  *)
OkMeansApplied == pc = "custom" /\ code = "OK" /\ Answered(doc) => DocApplied

(* Once Running has been left by a configuration and the flag is down, the *)
(* last state sent shows every setting, those the worker stored included,  *)
(* unless the agent did not take it: a failed EVP_sendState clears the     *)
(* flag all the same, and only a later report that succeeds makes up for   *)
(* what the cloud has missed.                                              *)
StoppedIsReported ==
  pc = "ready" /\ ~running /\ ~notify => reported \in {Tree, NotTaken}

(* register_access.cpp:236 on an item that has failed: "json_obj isn't     *)
(* used. So delete manually."                                              *)
StoreTargetsLive ==
  [][\A r \in Registers : SetsRegister(r) => \A i \in RegisterTarget : Live(i)]_vars

(* include/sensor.h:651: "Available values on type3 are 3200[K], 4300[K],  *)
(* 5600[K] and 6500[K]."                                                   *)
PresetIsAvailable ==
  "manual_white_balance_preset" \in Keys =>
    \E i \in 1..4 : sensor["manual_white_balance_preset"]["color_temperature"] = Kelvin[i]

-----------------------------------------------------------------------------
(* The inductive invariant *)

\* Where a worker is, nobody else changes a property; what it is about to
\* write is what the sensor has.
WorkerInv ==
  /\ pc \in Applying \cup {"open"} => worker = "idle" /\ ~running
  /\ worker # "idle" => /\ running
                        /\ wset.key \in Keys
                        /\ wset.value = Stored(wset.key, sensor[wset.key])
  /\ worker = "cache" => json[wset.key] = wset.value

\* Outside a store, tree and struct agree; the preset's struct holds a
\* temperature until something is stored.
StructInv ==
  /\ pc = "open" => \A k \in Keys : cache[k] = Zero(k) /\ sensor[k] \in InitialSensor[k]
  /\ pc # "open" => \A k \in Keys : ~Storing(k) =>
       \/ json[k] = cache[k]
       \/ k = "manual_white_balance_preset" /\ cache[k]["color_temperature"] > 3

\* The tree shows the sensor, if all of it could be read.
SensorInv ==
  pc # "open" => \A k \in Keys \ {"gamma_parameter"} :
    ~Storing(k) => json[k] = Stored(k, sensor[k])

\* What was verified still holds of what is left to apply.
VerifiedInv ==
  /\ \A k \in todo : VerifyGroup(k, doc.pq[k])
  /\ pc \in {"common", "models", "registers", "pq", "ports"} /\ doc.ports # <<>> =>
       VerifyPorts(doc.ports)
  /\ pc \notin {"common", "models", "registers", "pq"} => todo = {}

\* As long as the code is OK, the stages passed have been applied.
AppliedInv ==
  /\ pc \in {"common", "models"} => code = "OK"
  /\ pc \in {"common", "models", "registers"} => todo = DOMAIN doc.pq
  /\ code = "OK" /\ Answered(doc) =>
    /\ pc \in {"models", "registers", "pq", "ports"} =>
         \A k \in DOMAIN doc.plain \ {"number_of_iterations", "format"} : plain[k] = doc.plain[k]
    /\ pc \in {"registers", "pq", "ports"} /\ "ai_models" \in DOMAIN doc.arrays =>
         models = doc.arrays["ai_models"]
    /\ pc \in {"pq", "ports"} /\ "register_access" \in DOMAIN doc.arrays =>
         \A i \in 1..Len(doc.arrays["register_access"]) : ~items[i].failed
    /\ pc \in {"pq", "ports"} => \A k \in DOMAIN doc.pq \ todo : GroupApplied(k)
    /\ pc = "custom" => DocApplied

\* Alone, the main thread notices everything it changes.
ReportInv ==
  /\ pc \in Applying \cup {"open"} => notify
  /\ ~running /\ (pc = "clear" \/ (pc \in {"ready", "end"} /\ ~notify)) =>
       reported \in {Tree, NotTaken}

SettingsInv ==
  TypeOK /\ WorkerInv /\ StructInv /\ VerifiedInv /\ AppliedInv /\ ReportInv
=============================================================================
