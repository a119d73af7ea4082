------------------------------ MODULE SwitchDnn ------------------------------
(***************************************************************************)
(* The sample application switch_dnn (sample_apps/switch_dnn/src/sm.cpp)   *)
(* with its two analyzers: an onIterate looks for a bird with the          *)
(* detection model, cuts the image down to the bird, switches the stream   *)
(* to the classification model, classifies the next frame taken with that  *)
(* model, and switches back. The order of the event functions is           *)
(* AppLifecycle, which StateMachine implements.                            *)
(*                                                                         *)
(* The sensor is external: it carries out the settings asked of a stream   *)
(* one after the other and some time after the call returned, so that      *)
(* frames taken under earlier settings are still delivered. A frame tells  *)
(* its model, but not its crop. SensorStart begins with the settings last  *)
(* asked for.                                                              *)
(***************************************************************************)
EXTENDS AppLifecycle, Integers, Sequences

CONSTANTS
  Ids,       \* bundle ids of models; none is a prefix of another
  NoId,      \* the empty id of an analyzer that is not configured
  Crops,     \* rectangles of the image
  Full,      \* the whole image
  Dummy,     \* the rectangle of a forced switch
  NoBox,     \* the analysis found no bird
  Stamps,    \* timestamps of frames
  NoStamp,
  NoFrame,   \* no frame is held
  RetryMax,  \* kRetryMax
  MaxLag     \* bound on the settings that are not carried out yet

ASSUME RetryAssumption == RetryMax \in Nat \ {0} /\ MaxLag \in Nat \ {0}
ASSUME NameAssumption == NoId \notin Ids /\ NoBox \notin Crops /\ NoStamp \notin Stamps
ASSUME CropAssumption == Full \in Crops /\ Dummy \in Crops

VARIABLES
  pc,        \* the step of onIterate that is next
  od,        \* s_analyzer_od: network_id_ and param_.force_switch_
  ic,        \* s_analyzer_ic: network_id_
  box,       \* s_analyzer_od.data_: the rectangle used for cropping
  settings,  \* of the stream: the first is in effect, the last is what was asked for
  frame,     \* the sensor frame onIterate holds
  image,     \* the export of its image
  isOd, allDone, retry, timestamp, crop_ic,   \* local variables of onIterate
  valid,     \* err is 0 before the analysis
  handed,    \* history: the detection this onIterate handed to SendDataSyncMeta last
  refused,   \* history: the stream refused a setting in this onIterate
  astray     \* history: what may leave the stream with another model than detection's

localVars == <<isOd, allDone, retry, timestamp, crop_ic, valid, handed, refused>>
analyzerVars == <<od, ic, box>>
heldVars == <<frame, image>>
vars == <<lifecycleVars, pc, analyzerVars, settings, heldVars, localVars, astray>>

AllIds == Ids \cup {NoId}
Settings == [dnn: AllIds, crop: Crops]
Sensed == [dnn: AllIds, crop: Crops, stamp: Stamps]
ASSUME FrameAssumption == NoFrame \notin Sensed

Steps == { "out", "get", "check", "image", "analyse", "send", "crop", "dnn", "release" }

InEffect == settings[1]
AskedFor == settings[Len(settings)]

Init ==
  /\ busy = FALSE /\ LifecycleInit
  /\ pc = "out"
  /\ od = [id |-> NoId, force |-> FALSE] /\ ic = NoId /\ box = NoBox
  /\ \E m \in Ids : settings = <<[dnn |-> m, crop |-> Full]>>
  /\ frame = NoFrame /\ image = "none"
  /\ isOd = TRUE /\ allDone = FALSE /\ retry = 0
  /\ timestamp = NoStamp /\ crop_ic = Full /\ valid = FALSE
  /\ handed = [trace |-> NoStamp, crop |-> Full] /\ refused = FALSE
  /\ astray = TRUE

-----------------------------------------------------------------------------
(* The stream *)

\* SensorStreamSetProperty returned 0.
Ask(wanted) ==
  /\ Len(settings) <= MaxLag
  /\ settings' = Append(settings, wanted)

\* SensorStreamSetProperty, which may fail.
AskOrRefuse(wanted) ==
  \/ Ask(wanted) /\ UNCHANGED refused
  \/ refused' = TRUE /\ UNCHANGED settings

SensorApplies ==
  /\ Len(settings) > 1
  /\ settings' = Tail(settings)
  /\ UNCHANGED <<lifecycleVars, pc, analyzerVars, heldVars, localVars, astray>>

\* The transfer of the image has ended, in whatever way.
ImageSettles ==
  /\ image = "sending" /\ image' = "settled"
  /\ UNCHANGED <<lifecycleVars, pc, analyzerVars, settings, frame, localVars, astray>>

-----------------------------------------------------------------------------
(* The event functions but onIterate *)

Others == <<pc, box, heldVars, localVars>>

Create == OnCreate /\ UNCHANGED <<Others, od, ic, settings, astray>>

Start ==
  /\ OnStart
  /\ settings' = <<AskedFor>>
  /\ UNCHANGED <<Others, od, ic, astray>>

Stop == OnStop /\ UNCHANGED <<Others, od, ic, settings, astray>>

Destroy == OnDestroy /\ UNCHANGED <<Others, od, ic, settings, astray>>

\* onConfigure with valid parameters; the switch to detection may be refused.
ConfigureAccepted ==
  /\ phase = "created"
  /\ od' \in [id: AllIds, force: BOOLEAN] /\ ic' \in AllIds
  /\ \/ Ask([AskedFor EXCEPT !.dnn = od'.id]) /\ astray' = FALSE
     \/ astray' = TRUE /\ UNCHANGED settings
  /\ UNCHANGED <<lifecycleVars, Others>>

\* Validation stores the id before it looks at the parameters.
ConfigureRefusesOd ==
  /\ phase = "created"
  /\ \E m \in AllIds : od' = [od EXCEPT !.id = m]
  /\ astray' = (astray \/ od'.id # od.id)
  /\ UNCHANGED <<lifecycleVars, Others, ic, settings>>

\* Detection is configured before classification is validated.
ConfigureRefusesIc ==
  /\ phase = "created"
  /\ od' \in [id: AllIds, force: BOOLEAN] /\ ic' \in AllIds
  /\ astray' = (astray \/ od'.id # od.id)
  /\ UNCHANGED <<lifecycleVars, Others, settings>>

-----------------------------------------------------------------------------
(* onIterate *)

\* Without the size of the camera image onIterate returns at once, which is no step.
BeginIterate ==
  /\ pc = "out" /\ busy' = TRUE /\ OnIterateBegins
  /\ pc' = "get"
  /\ UNCHANGED <<analyzerVars, settings, heldVars, localVars, astray>>

\* An onIterate that leaves off while it classifies does not switch back. Its local
\* variables are gone, and begin again with these values.
Return ==
  /\ pc' = "out" /\ busy' = FALSE /\ OnIterateReturns
  /\ astray' = (astray \/ (~isOd /\ ~allDone))
  /\ isOd' = TRUE /\ allDone' = FALSE /\ retry' = 0
  /\ timestamp' = NoStamp /\ crop_ic' = Full /\ valid' = FALSE
  /\ handed' = [trace |-> NoStamp, crop |-> Full] /\ refused' = FALSE

NextTurn ==
  IF retry + 1 < RetryMax
  THEN /\ pc' = "get" /\ retry' = retry + 1 /\ valid' = FALSE
       /\ UNCHANGED <<lifecycleVars, isOd, allDone, timestamp, crop_ic, handed, refused, astray>>
  ELSE Return

Fresh == Stamps \ {timestamp, handed.trace}

GetFrame ==
  /\ pc = "get"
  /\ \E s \in Fresh :
       frame' = [dnn |-> InEffect.dnn, crop |-> InEffect.crop, stamp |-> s]
  /\ pc' = "check"
  /\ UNCHANGED <<lifecycleVars, analyzerVars, settings, image, localVars, astray>>

GetFrameTimesOut ==
  /\ pc = "get" /\ NextTurn
  /\ UNCHANGED <<analyzerVars, settings, heldVars>>

GetFrameFails ==
  /\ pc = "get" /\ Return
  /\ UNCHANGED <<analyzerVars, settings, heldVars>>

Expected == IF isOd THEN od.id ELSE ic
ExpectedCrop == IF isOd THEN Full ELSE crop_ic

\* strncmp compares the length of the expected id: an empty one fits every model.
IsValidDNNChannel == Expected \in {NoId, frame.dnn}
IsValidCropStream == AskedFor.crop = ExpectedCrop

\* The channel, its model and the raw data may each be missing.
CheckFails ==
  /\ pc = "check" /\ pc' = "image" /\ valid' = FALSE
  /\ UNCHANGED <<lifecycleVars, analyzerVars, settings, heldVars, isOd, allDone, retry, timestamp, crop_ic, handed, refused, astray>>

\* The crop of the stream differs from what is expected, or could not be read.
CheckRepairs ==
  /\ pc = "check" /\ IsValidDNNChannel
  /\ AskOrRefuse([AskedFor EXCEPT !.crop = ExpectedCrop])
  /\ pc' = "image" /\ valid' = FALSE
  /\ UNCHANGED <<lifecycleVars, analyzerVars, heldVars, isOd, allDone, retry, timestamp, crop_ic, handed, astray>>

CheckPasses ==
  /\ pc = "check" /\ IsValidDNNChannel /\ IsValidCropStream
  /\ pc' = "image" /\ valid' = TRUE
  /\ UNCHANGED <<lifecycleVars, analyzerVars, settings, heldVars, isOd, allDone, retry, timestamp, crop_ic, handed, refused, astray>>

\* The image of a frame is sent even when its output is of no use.
SendImage ==
  /\ pc = "image"
  /\ image' \in {"none", "sending"}
  /\ pc' = IF valid THEN "analyse" ELSE "release"
  /\ UNCHANGED <<lifecycleVars, analyzerVars, settings, frame, localVars, astray>>

\* What analyzeDetectionOutput leaves for cropping: the bird with the highest score
\* among the first max_detections_ above the threshold.
Detections == Crops \cup {NoBox}

AnalyseOd ==
  /\ pc = "analyse" /\ isOd
  /\ timestamp' = frame.stamp
  /\ box' \in Detections
  /\ pc' = IF box' # NoBox \/ od.force THEN "send" ELSE "release"
  /\ UNCHANGED <<lifecycleVars, od, ic, settings, heldVars, isOd, allDone, retry, crop_ic, valid, handed, refused, astray>>

\* Mutant: the timestamp is the one of every frame.
AnalyseIcRestamps ==
  /\ pc = "analyse" /\ ~isOd
  /\ pc' = "send"
  /\ timestamp' = frame.stamp
  /\ UNCHANGED <<lifecycleVars, analyzerVars, settings, heldVars, isOd, allDone, retry, crop_ic, valid, handed, refused, astray>>

AnalyseIc ==
  /\ pc = "analyse" /\ ~isOd
  /\ pc' = "send"
  /\ UNCHANGED <<lifecycleVars, analyzerVars, settings, heldVars, localVars, astray>>

\* Either analyzer refuses a frame without data, or Serialize finds no memory.
AnalysisFails ==
  /\ pc \in {"analyse", "send"}
  /\ pc' = "release"
  /\ timestamp' = IF isOd THEN frame.stamp ELSE timestamp
  /\ UNCHANGED <<lifecycleVars, analyzerVars, settings, heldVars, isOd, allDone, retry, crop_ic, valid, handed, refused, astray>>

\* A detection always marks the box that is used for cropping.
CropOfDetection == IF od.force THEN Dummy ELSE box

\* SendData: a transfer that fails is reported, and the application goes on.
SendData ==
  /\ pc = "send" /\ pc' = "crop"
  /\ handed' = IF isOd THEN [trace |-> timestamp, crop |-> CropOfDetection] ELSE handed
  /\ UNCHANGED <<lifecycleVars, analyzerVars, settings, heldVars, isOd, allDone, retry, timestamp, crop_ic, valid, refused, astray>>

SwitchCrop ==
  /\ pc = "crop"
  /\ crop_ic' = IF isOd THEN CropOfDetection ELSE crop_ic
  /\ AskOrRefuse([AskedFor EXCEPT !.crop = IF isOd THEN crop_ic' ELSE Full])
  /\ pc' = IF settings' # settings THEN "dnn" ELSE "release"
  /\ UNCHANGED <<lifecycleVars, analyzerVars, heldVars, isOd, allDone, retry, timestamp, valid, handed, astray>>

\* Mutant: the end of a classification counts even when the stream kept its model.
SwitchDnnAlways ==
  /\ pc = "dnn" /\ pc' = "release"
  /\ AskOrRefuse([AskedFor EXCEPT !.dnn = IF isOd THEN ic ELSE od.id])
  /\ isOd' = FALSE /\ allDone' = ~isOd
  /\ UNCHANGED <<lifecycleVars, analyzerVars, heldVars, retry, timestamp, crop_ic, valid, handed, astray>>

SwitchDnn ==
  /\ pc = "dnn" /\ pc' = "release"
  /\ AskOrRefuse([AskedFor EXCEPT !.dnn = IF isOd THEN ic ELSE od.id])
  /\ IF settings' = settings THEN UNCHANGED <<isOd, allDone>>
     ELSE isOd' = FALSE /\ allDone' = ~isOd
  /\ UNCHANGED <<lifecycleVars, analyzerVars, heldVars, retry, timestamp, crop_ic, valid, handed, astray>>

\* Mutant: nobody waits for the image.
ReleaseFrameEarly ==
  /\ pc = "release"
  /\ frame' = NoFrame /\ image' = IF image = "sending" THEN image ELSE "none"
  /\ IF allDone THEN Return ELSE NextTurn
  /\ UNCHANGED <<analyzerVars, settings>>

\* WaitImage waits without a limit, then the frame is given back.
ReleaseFrame ==
  /\ pc = "release" /\ image # "sending"
  /\ frame' = NoFrame /\ image' = "none"
  /\ IF allDone THEN Return ELSE NextTurn
  /\ UNCHANGED <<analyzerVars, settings>>

Iterate ==
  \/ BeginIterate \/ GetFrame \/ GetFrameTimesOut \/ GetFrameFails
  \/ CheckFails \/ CheckRepairs \/ CheckPasses \/ SendImage
  \/ AnalyseOd \/ AnalyseIc \/ AnalysisFails
  \/ SendData \/ SwitchCrop \/ SwitchDnn \/ ReleaseFrame

Next ==
  \/ Create \/ Start \/ Stop \/ Destroy
  \/ ConfigureAccepted \/ ConfigureRefusesOd \/ ConfigureRefusesIc
  \/ Iterate
  \/ SensorApplies \/ ImageSettles

Spec == Init /\ [][Next]_vars

-----------------------------------------------------------------------------
(* Properties *)

TypeOK ==
  /\ phase \in Phases /\ busy \in BOOLEAN
  /\ pc \in Steps
  /\ od \in [id: AllIds, force: BOOLEAN] /\ ic \in AllIds /\ box \in Detections
  /\ settings \in Seq(Settings) /\ settings # <<>>
  /\ frame \in Sensed \cup {NoFrame} /\ image \in {"none", "sending", "settled"}
  /\ isOd \in BOOLEAN /\ allDone \in BOOLEAN /\ retry \in 0..RetryMax
  /\ timestamp \in Stamps \cup {NoStamp} /\ crop_ic \in Crops /\ valid \in BOOLEAN
  /\ handed \in [trace: Stamps \cup {NoStamp}, crop: Crops]
  /\ refused \in BOOLEAN /\ astray \in BOOLEAN

IdsDiffer == od.id # ic /\ NoId \notin {od.id, ic}

\* A classification that is sent has the trace id of the detection last sent, and the
\* frame it is about was cut to that detection's bird, although frames arrive late and
\* do not tell their crop (README.md of the sample: the results are linked by trace_id).
\* Excepted are an onIterate in which the stream refused a setting, and all those
\* after one that left off while it classified.
ClassifiesDetection ==
  pc = "send" /\ ~isOd /\ ~astray /\ ~refused /\ IdsDiffer
    => timestamp = handed.trace /\ frame.crop = handed.crop

\* Between two calls of onIterate the stream is asked for the detection model, which
\* the next call expects and never sets: an onIterate that does not leave off while it
\* classifies has switched back.
ModeIsRestored == pc = "out" /\ ~astray => AskedFor.dnn = od.id

\* The image that is being sent lies in the memory of a frame that has not been given
\* back, and no onIterate leaves a frame or a transfer behind (SendImage hands the
\* sensor's memory to DataExportSendData).
ImageHasFrame ==
  /\ image = "sending" => frame # NoFrame
  /\ pc = "out" => frame = NoFrame /\ image = "none"
=============================================================================
