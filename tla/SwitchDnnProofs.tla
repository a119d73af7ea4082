--------------------------- MODULE SwitchDnnProofs ---------------------------
(***************************************************************************)
(* Proofs about SwitchDnn, for any models, crops and timestamps, any limit *)
(* of retries and any lag of the sensor. Frames arrive late and tell their *)
(* model only; that the model vouches for the crop rests on an order among *)
(* the settings not carried out yet (OrderInv): those of the model the     *)
(* application waits for come last, and all of them with its crop          *)
(* (CropInv).                                                              *)
(***************************************************************************)
EXTENDS SwitchDnn, TLAPS

WithFrame == Steps \ {"out", "get"}
Accepted == {"analyse", "send", "crop", "dnn"}

Program ==
  /\ pc = "out" => ~busy /\ isOd /\ ~allDone
  /\ pc # "out" => busy /\ phase = "started"
  /\ allDone => pc = "release" /\ ~isOd
  /\ pc \in WithFrame <=> frame # NoFrame
  /\ pc \notin Accepted \cup {"release"} => image = "none"
  /\ pc \in Accepted \/ (pc = "image" /\ valid) => Expected \in {NoId, frame.dnn}
  /\ pc \in {"send", "crop"} /\ isOd => CropOfDetection \in Crops

\* The application is in detection, or about to be.
Detecting == isOd \/ allDone

ModeInv == ~astray /\ Detecting => AskedFor.dnn = od.id

Sure == ~astray /\ IdsDiffer /\ phase = "started"

Awaited == IF Detecting THEN od.id ELSE ic

OrderInv ==
  Sure =>
    /\ AskedFor.dnn = Awaited
    /\ \A j, k \in 1..Len(settings) :
         j <= k /\ settings[j].dnn = Awaited => settings[k].dnn = Awaited
    /\ frame # NoFrame /\ frame.dnn = Awaited =>
         \A k \in 1..Len(settings) : settings[k].dnn = Awaited

\* While it classifies the settings of its model have the crop it has asked for.
CropInv ==
  Sure =>
    /\ isOd /\ pc = "crop" => handed = [trace |-> timestamp, crop |-> CropOfDetection]
    /\ isOd /\ pc = "dnn" =>
         handed = [trace |-> timestamp, crop |-> crop_ic] /\ AskedFor.crop = crop_ic
    /\ ~Detecting /\ ~refused =>
         /\ handed = [trace |-> timestamp, crop |-> crop_ic]
         /\ pc # "dnn" => \A k \in 1..Len(settings) :
              settings[k].dnn = ic => settings[k].crop = crop_ic
         /\ pc \in {"check", "image", "analyse", "send"} /\ frame.dnn = ic => frame.crop = crop_ic

ControlTypes ==
  /\ phase \in Phases /\ busy \in BOOLEAN /\ pc \in Steps
  /\ isOd \in BOOLEAN /\ allDone \in BOOLEAN /\ retry \in 0..RetryMax
  /\ valid \in BOOLEAN /\ refused \in BOOLEAN /\ astray \in BOOLEAN

DataTypes ==
  /\ od \in [id: AllIds, force: BOOLEAN] /\ ic \in AllIds /\ box \in Detections
  /\ settings \in Seq(Settings) /\ settings # <<>>
  /\ frame \in Sensed \cup {NoFrame} /\ image \in {"none", "sending", "settled"}
  /\ timestamp \in Stamps \cup {NoStamp} /\ crop_ic \in Crops
  /\ handed \in [trace: Stamps \cup {NoStamp}, crop: Crops]

IInv == TypeOK /\ Program /\ ModeInv /\ OrderInv /\ CropInv

-----------------------------------------------------------------------------
(* The settings of the stream *)

(* What is asked for stands last, behind everything asked before. *)
LEMMA AskLemma ==
  ASSUME NEW S, NEW s \in Seq(S), s # <<>>, NEW w \in S, NEW t, t = Append(s, w)
  PROVE  /\ t \in Seq(S) /\ t # <<>> /\ Len(t) = Len(s) + 1
         /\ t[Len(t)] = w
         /\ \A k \in 1..Len(t) : t[k] = w \/ (k \in 1..Len(s) /\ t[k] = s[k])
         /\ \A k \in 1..Len(s) : t[k] = s[k]
OBVIOUS

(* The sensor takes the first setting away, and the order remains. *)
LEMMA ApplyLemma ==
  ASSUME NEW S, NEW s \in Seq(S), Len(s) > 1, NEW t, t = Tail(s)
  PROVE  /\ t \in Seq(S) /\ t # <<>> /\ Len(t) = Len(s) - 1
         /\ t[Len(t)] = s[Len(s)]
         /\ \A k \in 1..Len(t) : k + 1 \in 1..Len(s) /\ t[k] = s[k + 1]
OBVIOUS

(* First and last setting of a stream. *)
LEMMA EndsLemma ==
  ASSUME TypeOK
  PROVE  /\ InEffect \in Settings /\ AskedFor \in Settings
         /\ Len(settings) \in Nat \ {0}
BY DEF TypeOK, InEffect, AskedFor

-----------------------------------------------------------------------------
(* Types *)

(* onIterate returns, and its local variables have their first values. *)
LEMMA ReturnTypes ==
  ASSUME TypeOK, Return
  PROVE  ControlTypes' /\ ~busy' /\ isOd' /\ ~allDone' /\ ~refused'
<1>1. busy' = FALSE /\ isOd' = TRUE /\ allDone' = FALSE /\ valid' = FALSE /\ refused' = FALSE
  BY DEF Return
<1>2. astray' \in BOOLEAN
  BY DEF Return, TypeOK
<1>3. phase' \in Phases /\ pc' \in Steps /\ retry' \in 0..RetryMax
  BY RetryAssumption DEF Return, OnIterateReturns, TypeOK, Steps
<1> QED
  BY <1>1, <1>2, <1>3 DEF ControlTypes

(* A turn ends: another begins, or onIterate returns. *)
LEMMA TurnTypes ==
  ASSUME TypeOK, NextTurn
  PROVE  ControlTypes'
<1>1. CASE retry + 1 < RetryMax
  <2>1. busy' = busy /\ isOd' = isOd /\ allDone' = allDone /\ valid' = FALSE /\ refused' = refused /\ astray' = astray
    BY <1>1 DEF NextTurn, lifecycleVars
  <2>2. phase' \in Phases /\ pc' \in Steps /\ retry' \in 0..RetryMax
    BY <1>1, RetryAssumption DEF NextTurn, lifecycleVars, TypeOK, Steps
  <2> QED
    BY <2>1, <2>2 DEF ControlTypes, TypeOK
<1>2. CASE ~(retry + 1 < RetryMax)
  BY <1>2, ReturnTypes DEF NextTurn
<1> QED
  BY <1>1, <1>2

(* Every step keeps the types of the control. *)
LEMMA ControlStep ==
  ASSUME TypeOK, Program, Next
  PROVE  ControlTypes'
<1> USE RetryAssumption DEF TypeOK, ControlTypes, Steps, Phases, lifecycleVars, localVars, Program
<1>1. CASE Create
  BY <1>1 DEF Create, OnCreate, Others
<1>2. CASE Start
  BY <1>2 DEF Start, OnStart, Others
<1>3. CASE Stop
  BY <1>3 DEF Stop, OnStop, Others
<1>4. CASE Destroy
  BY <1>4 DEF Destroy, OnDestroy, Others
<1>5. CASE ConfigureAccepted
  BY <1>5 DEF ConfigureAccepted, Ask, Others
<1>6. CASE ConfigureRefusesOd
  BY <1>6 DEF ConfigureRefusesOd, Others
<1>7. CASE ConfigureRefusesIc
  BY <1>7 DEF ConfigureRefusesIc, Others
<1>8. CASE BeginIterate
  BY <1>8 DEF BeginIterate, OnIterateBegins
<1>9. CASE GetFrame
  BY <1>9 DEF GetFrame
<1>10. CASE GetFrameTimesOut
  BY <1>10, TurnTypes DEF GetFrameTimesOut
<1>11. CASE GetFrameFails
  BY <1>11, ReturnTypes DEF GetFrameFails
<1>12. CASE CheckFails
  BY <1>12 DEF CheckFails
<1>13. CASE CheckRepairs
  BY <1>13 DEF CheckRepairs, AskOrRefuse, Ask
<1>14. CASE CheckPasses
  BY <1>14 DEF CheckPasses, IsValidDNNChannel
<1>15. CASE SendImage
  BY <1>15 DEF SendImage
<1>16. CASE AnalyseOd
  BY <1>16 DEF AnalyseOd
<1>17. CASE AnalyseIc
  BY <1>17 DEF AnalyseIc
<1>18. CASE AnalysisFails
  BY <1>18 DEF AnalysisFails
<1>19. CASE SendData
  BY <1>19 DEF SendData
<1>20. CASE SwitchCrop
  BY <1>20 DEF SwitchCrop, AskOrRefuse, Ask
<1>21. CASE SwitchDnn
  BY <1>21 DEF SwitchDnn, AskOrRefuse, Ask
<1>22. CASE ReleaseFrame
  BY <1>22, TurnTypes, ReturnTypes DEF ReleaseFrame
<1>23. CASE SensorApplies
  BY <1>23 DEF SensorApplies
<1>24. CASE ImageSettles
  BY <1>24 DEF ImageSettles
<1> QED
  BY <1>1, <1>2, <1>3, <1>4, <1>5, <1>6, <1>7, <1>8, <1>9, <1>10, <1>11, <1>12, <1>13, <1>14, <1>15, <1>16, <1>17, <1>18, <1>19, <1>20, <1>21, <1>22, <1>23, <1>24 DEF Next, Iterate

(* What the stream is asked for is a setting, and so the settings stay so. *)
LEMMA AskTypes ==
  ASSUME TypeOK, NEW w \in Settings, AskOrRefuse(w) \/ Ask(w)
  PROVE  settings' \in Seq(Settings) /\ settings' # <<>>
BY AskLemma DEF TypeOK, AskOrRefuse, Ask

(* Every step keeps the types of the data. *)
LEMMA DataStep ==
  ASSUME TypeOK, Program, Next
  PROVE  DataTypes'
<1> USE EndsLemma, CropAssumption DEF TypeOK, DataTypes, lifecycleVars, analyzerVars, heldVars, localVars, Others, Steps
<1>1. CASE Create
  BY <1>1 DEF Create, OnCreate, Others
<1>2. CASE Start
  BY <1>2 DEF Start, OnStart, Others
<1>3. CASE Stop
  BY <1>3 DEF Stop, OnStop, Others
<1>4. CASE Destroy
  BY <1>4 DEF Destroy, OnDestroy, Others
<1>5. CASE ConfigureAccepted
  <2>1. settings' \in Seq(Settings) /\ settings' # <<>>
    BY <1>5, AskTypes DEF ConfigureAccepted, Settings
  <2> QED
    BY <1>5, <2>1 DEF ConfigureAccepted
<1>6. CASE ConfigureRefusesOd
  BY <1>6 DEF ConfigureRefusesOd, Others
<1>7. CASE ConfigureRefusesIc
  BY <1>7 DEF ConfigureRefusesIc, Others
<1>8. CASE BeginIterate
  BY <1>8 DEF BeginIterate, OnIterateBegins
<1>9. CASE GetFrame
  <2>1. frame' \in Sensed
    BY <1>9 DEF GetFrame, Sensed, Settings, Fresh
  <2> QED
    BY <1>9, <2>1 DEF GetFrame
<1>10. CASE GetFrameTimesOut
  BY <1>10 DEF GetFrameTimesOut, NextTurn, Return
<1>11. CASE GetFrameFails
  BY <1>11 DEF GetFrameFails, Return
<1>12. CASE CheckFails
  BY <1>12 DEF CheckFails
<1>13. CASE CheckRepairs
  <2>1. settings' \in Seq(Settings) /\ settings' # <<>>
    BY <1>13, AskTypes DEF CheckRepairs, Settings, ExpectedCrop
  <2> QED
    BY <1>13, <2>1 DEF CheckRepairs
<1>14. CASE CheckPasses
  BY <1>14 DEF CheckPasses, IsValidDNNChannel
<1>15. CASE SendImage
  BY <1>15 DEF SendImage
<1>16. CASE AnalyseOd
  BY <1>16 DEF AnalyseOd, Program, WithFrame, Sensed
<1>17. CASE AnalyseIc
  BY <1>17 DEF AnalyseIc
<1>18. CASE AnalysisFails
  BY <1>18 DEF AnalysisFails, Program, WithFrame, Sensed
<1>19. CASE SendData
  BY <1>19 DEF SendData, Program
<1>20. CASE SwitchCrop
  <2>1. crop_ic' \in Crops
    BY <1>20 DEF SwitchCrop, Program
  <2>2. settings' \in Seq(Settings) /\ settings' # <<>>
    BY <1>20, <2>1, AskTypes DEF SwitchCrop, Settings
  <2> QED
    BY <1>20, <2>1, <2>2 DEF SwitchCrop
<1>21. CASE SwitchDnn
  <2>1. settings' \in Seq(Settings) /\ settings' # <<>>
    BY <1>21, AskTypes DEF SwitchDnn, Settings
  <2> QED
    BY <1>21, <2>1 DEF SwitchDnn
<1>22. CASE ReleaseFrame
  BY <1>22 DEF ReleaseFrame, NextTurn, Return
<1>23. CASE SensorApplies
  <2>1. settings' \in Seq(Settings) /\ settings' # <<>>
    BY <1>23, ApplyLemma DEF SensorApplies
  <2> QED
    BY <1>23, <2>1 DEF SensorApplies
<1>24. CASE ImageSettles
  BY <1>24 DEF ImageSettles
<1> QED
  BY <1>1, <1>2, <1>3, <1>4, <1>5, <1>6, <1>7, <1>8, <1>9, <1>10, <1>11, <1>12, <1>13, <1>14, <1>15, <1>16, <1>17, <1>18, <1>19, <1>20, <1>21, <1>22, <1>23, <1>24 DEF Next, Iterate

-----------------------------------------------------------------------------
(* Where onIterate is *)

(* Every step keeps what holds of the place in onIterate. *)
LEMMA ProgramStep ==
  ASSUME TypeOK, Program, Next
  PROVE  Program'
<1> USE FrameAssumption, CropAssumption DEF Program, TypeOK, Steps, WithFrame, Accepted, lifecycleVars, analyzerVars, heldVars, localVars, Others, Expected, CropOfDetection
<1>1. CASE Create
  BY <1>1 DEF Create, OnCreate, Others
<1>2. CASE Start
  BY <1>2 DEF Start, OnStart, Others
<1>3. CASE Stop
  BY <1>3 DEF Stop, OnStop, Others
<1>4. CASE Destroy
  BY <1>4 DEF Destroy, OnDestroy, Others
<1>5. CASE ConfigureAccepted
  BY <1>5 DEF ConfigureAccepted, Ask, Others
<1>6. CASE ConfigureRefusesOd
  BY <1>6 DEF ConfigureRefusesOd, Others
<1>7. CASE ConfigureRefusesIc
  BY <1>7 DEF ConfigureRefusesIc, Others
<1>8. CASE BeginIterate
  BY <1>8 DEF BeginIterate, OnIterateBegins
<1>9. CASE GetFrame
  <2>1. frame' # NoFrame
    BY <1>9, EndsLemma DEF GetFrame, Fresh, Sensed, Settings
  <2> QED
    BY <1>9, <2>1 DEF GetFrame
<1>10. CASE GetFrameTimesOut
  BY <1>10 DEF GetFrameTimesOut, NextTurn, Return, OnIterateReturns
<1>11. CASE GetFrameFails
  BY <1>11 DEF GetFrameFails, Return, OnIterateReturns
<1>12. CASE CheckFails
  BY <1>12 DEF CheckFails
<1>13. CASE CheckRepairs
  BY <1>13 DEF CheckRepairs, AskOrRefuse, Ask
<1>14. CASE CheckPasses
  BY <1>14 DEF CheckPasses, IsValidDNNChannel
<1>15. CASE SendImage
  BY <1>15 DEF SendImage
<1>16. CASE AnalyseOd
  BY <1>16, NameAssumption DEF AnalyseOd, Detections
<1>17. CASE AnalyseIc
  BY <1>17 DEF AnalyseIc
<1>18. CASE AnalysisFails
  BY <1>18 DEF AnalysisFails
<1>19. CASE SendData
  BY <1>19 DEF SendData
<1>20. CASE SwitchCrop
  BY <1>20 DEF SwitchCrop, AskOrRefuse, Ask
<1>21. CASE SwitchDnn
  BY <1>21 DEF SwitchDnn, AskOrRefuse, Ask
<1>22. CASE ReleaseFrame
  BY <1>22 DEF ReleaseFrame, NextTurn, Return, OnIterateReturns
<1>23. CASE SensorApplies
  BY <1>23 DEF SensorApplies
<1>24. CASE ImageSettles
  BY <1>24 DEF ImageSettles
<1> QED
  BY <1>1, <1>2, <1>3, <1>4, <1>5, <1>6, <1>7, <1>8, <1>9, <1>10, <1>11, <1>12, <1>13, <1>14, <1>15, <1>16, <1>17, <1>18, <1>19, <1>20, <1>21, <1>22, <1>23, <1>24 DEF Next, Iterate

-----------------------------------------------------------------------------
(* What the stream is asked for *)

(* A setting that is asked for is the one the stream tells, or nothing changed. *)
LEMMA AskedForLemma ==
  ASSUME TypeOK, NEW w \in Settings, AskOrRefuse(w) \/ Ask(w)
  PROVE  /\ AskedFor' = w \/ (settings' = settings /\ AskedFor' = AskedFor)
         /\ Ask(w) => AskedFor' = w
         /\ settings' # settings => Ask(w)
BY AskLemma DEF TypeOK, AskOrRefuse, Ask, AskedFor

(* What is asked for stays when the sensor applies a setting. *)
LEMMA AppliedLemma ==
  ASSUME TypeOK, SensorApplies
  PROVE  AskedFor' = AskedFor
BY ApplyLemma DEF TypeOK, SensorApplies, AskedFor

(* One more setting stands behind the others. *)
Longer(w) ==
  /\ Len(settings') = Len(settings) + 1
  /\ AskedFor' = w /\ settings'[Len(settings')] = w
  /\ \A k \in 1..Len(settings) : settings'[k] = settings[k]

(* Another crop is asked for the model of the stream. *)
LEMMA CropAsked ==
  ASSUME TypeOK, NEW c \in Crops, AskOrRefuse([AskedFor EXCEPT !.crop = c])
  PROVE  \/ settings' = settings /\ refused' = TRUE
         \/ Longer([dnn |-> AskedFor.dnn, crop |-> c]) /\ refused' = refused
<1>1. [AskedFor EXCEPT !.crop = c] = [dnn |-> AskedFor.dnn, crop |-> c] /\ [dnn |-> AskedFor.dnn, crop |-> c] \in Settings
  BY EndsLemma DEF Settings
<1>2. AskOrRefuse([dnn |-> AskedFor.dnn, crop |-> c])
  BY <1>1
<1> QED
  BY <1>1, <1>2, AskLemma DEF TypeOK, AskOrRefuse, Ask, AskedFor, Longer

(* Another model is asked for the crop of the stream. *)
LEMMA DnnAsked ==
  ASSUME TypeOK, NEW m \in AllIds, AskOrRefuse([AskedFor EXCEPT !.dnn = m])
  PROVE  \/ settings' = settings /\ refused' = TRUE
         \/ Longer([dnn |-> m, crop |-> AskedFor.crop]) /\ refused' = refused
<1>1. [AskedFor EXCEPT !.dnn = m] = [dnn |-> m, crop |-> AskedFor.crop] /\ [dnn |-> m, crop |-> AskedFor.crop] \in Settings
  BY EndsLemma DEF Settings
<1>2. AskOrRefuse([dnn |-> m, crop |-> AskedFor.crop])
  BY <1>1
<1> QED
  BY <1>1, <1>2, AskLemma DEF TypeOK, AskOrRefuse, Ask, AskedFor, Longer

(* Every step keeps the detection model asked for while there is detection. *)
LEMMA ModeStep ==
  ASSUME TypeOK, Program, ModeInv, Next
  PROVE  ModeInv'
<1> USE DEF ModeInv, Detecting, TypeOK, Program, AskedFor, lifecycleVars, analyzerVars, heldVars, localVars, Others
<1>1. CASE Create
  BY <1>1 DEF Create, OnCreate, Others
<1>2. CASE Start
  BY <1>2 DEF Start, OnStart, Others
<1>3. CASE Stop
  BY <1>3 DEF Stop, OnStop, Others
<1>4. CASE Destroy
  BY <1>4 DEF Destroy, OnDestroy, Others
<1>5. CASE ConfigureAccepted
  <2>1. CASE astray' = FALSE
    <3>1. Ask([AskedFor EXCEPT !.dnn = od'.id])
      BY <1>5, <2>1 DEF ConfigureAccepted
    <3>2. [AskedFor EXCEPT !.dnn = od'.id] \in Settings /\ [AskedFor EXCEPT !.dnn = od'.id].dnn = od'.id
      BY <1>5, EndsLemma DEF ConfigureAccepted, Settings
    <3> QED
      BY <1>5, <3>1, <3>2, AskedForLemma DEF ConfigureAccepted
  <2> QED
    BY <1>5, <2>1 DEF ConfigureAccepted
<1>6. CASE ConfigureRefusesOd
  BY <1>6 DEF ConfigureRefusesOd, Others
<1>7. CASE ConfigureRefusesIc
  BY <1>7 DEF ConfigureRefusesIc, Others
<1>8. CASE BeginIterate
  BY <1>8 DEF BeginIterate, OnIterateBegins
<1>9. CASE GetFrame
  BY <1>9 DEF GetFrame
<1>10. CASE GetFrameTimesOut
  BY <1>10 DEF GetFrameTimesOut, NextTurn, Return, OnIterateReturns
<1>11. CASE GetFrameFails
  BY <1>11 DEF GetFrameFails, Return, OnIterateReturns
<1>12. CASE CheckFails
  BY <1>12 DEF CheckFails
<1>13. CASE CheckRepairs
  <2>1. [AskedFor EXCEPT !.crop = ExpectedCrop] \in Settings /\ [AskedFor EXCEPT !.crop = ExpectedCrop].dnn = AskedFor.dnn
    BY EndsLemma, CropAssumption DEF Settings, ExpectedCrop
  <2>2. AskedFor'.dnn = AskedFor.dnn
    BY <1>13, <2>1, AskedForLemma DEF CheckRepairs
  <2> QED
    BY <1>13, <2>2 DEF CheckRepairs
<1>14. CASE CheckPasses
  BY <1>14 DEF CheckPasses, IsValidDNNChannel
<1>15. CASE SendImage
  BY <1>15 DEF SendImage
<1>16. CASE AnalyseOd
  BY <1>16 DEF AnalyseOd
<1>17. CASE AnalyseIc
  BY <1>17 DEF AnalyseIc
<1>18. CASE AnalysisFails
  BY <1>18 DEF AnalysisFails
<1>19. CASE SendData
  BY <1>19 DEF SendData
<1>20. CASE SwitchCrop
  <2>1. crop_ic' \in Crops
    BY <1>20 DEF SwitchCrop
  <2> DEFINE c == IF isOd THEN crop_ic' ELSE Full
  <2>2. [AskedFor EXCEPT !.crop = c] \in Settings /\ [AskedFor EXCEPT !.crop = c].dnn = AskedFor.dnn
    BY <2>1, EndsLemma, CropAssumption DEF Settings
  <2>3. AskOrRefuse([AskedFor EXCEPT !.crop = c])
    BY <1>20 DEF SwitchCrop
  <2> HIDE DEF c
  <2>4. AskedFor'.dnn = AskedFor.dnn
    BY <2>2, <2>3, AskedForLemma
  <2> QED
    BY <1>20, <2>4 DEF SwitchCrop
<1>21. CASE SwitchDnn
  <2> DEFINE m == IF isOd THEN ic ELSE od.id
  <2>1. [AskedFor EXCEPT !.dnn = m] \in Settings /\ [AskedFor EXCEPT !.dnn = m].dnn = m
    BY EndsLemma DEF Settings
  <2>2. AskOrRefuse([AskedFor EXCEPT !.dnn = m])
    BY <1>21 DEF SwitchDnn
  <2>3. CASE settings' = settings
    BY <1>21, <2>3 DEF SwitchDnn
  <2>4. CASE settings' # settings
    <3>1. AskedFor'.dnn = m
      <4> HIDE DEF m
      <4> QED
        BY <2>1, <2>2, <2>4, AskedForLemma
    <3> QED
      BY <1>21, <2>4, <3>1 DEF SwitchDnn
  <2> QED
    BY <2>3, <2>4
<1>22. CASE ReleaseFrame
  BY <1>22 DEF ReleaseFrame, NextTurn, Return, OnIterateReturns
<1>23. CASE SensorApplies
  BY <1>23, AppliedLemma DEF SensorApplies
<1>24. CASE ImageSettles
  BY <1>24 DEF ImageSettles
<1> QED
  BY <1>1, <1>2, <1>3, <1>4, <1>5, <1>6, <1>7, <1>8, <1>9, <1>10, <1>11, <1>12, <1>13, <1>14, <1>15, <1>16, <1>17, <1>18, <1>19, <1>20, <1>21, <1>22, <1>23, <1>24 DEF Next, Iterate

-----------------------------------------------------------------------------
(* The order of the settings *)

(* Every step keeps the order: the settings of the model awaited come last, and after
   a frame of that model there are no others. *)
LEMMA OrderStep ==
  ASSUME TypeOK, Program, ModeInv, OrderInv, Next
  PROVE  OrderInv'
<1> USE DEF OrderInv, Sure, IdsDiffer, Awaited, Detecting, Program, lifecycleVars, analyzerVars, heldVars, localVars, Others
<1>1. CASE Create
  BY <1>1 DEF Create, OnCreate, Sure
<1>2. CASE Start
  <2>1. AskedFor' = AskedFor /\ Len(settings') = 1 /\ settings'[1] = AskedFor
    BY <1>2 DEF Start, AskedFor
  <2>2. Sure' => AskedFor.dnn = od.id
    BY <1>2 DEF Start, OnStart, ModeInv, Program, Detecting
  <2>3. frame' = NoFrame /\ Awaited' = od.id
    BY <1>2 DEF Start, OnStart, Program, Awaited, Detecting, WithFrame, Steps
  <2> QED
    BY <2>1, <2>2, <2>3 DEF OrderInv
<1>3. CASE Stop
  BY <1>3 DEF Stop, OnStop, Sure
<1>4. CASE Destroy
  BY <1>4 DEF Destroy, OnDestroy, Sure
<1>5. CASE ConfigureAccepted
  BY <1>5 DEF ConfigureAccepted, Sure, lifecycleVars
<1>6. CASE ConfigureRefusesOd
  BY <1>6 DEF ConfigureRefusesOd, Sure, lifecycleVars
<1>7. CASE ConfigureRefusesIc
  BY <1>7 DEF ConfigureRefusesIc, Sure, lifecycleVars
<1>8. CASE BeginIterate
  <2>1. AskedFor' = AskedFor
    BY <1>8 DEF BeginIterate, OnIterateBegins, AskedFor
  <2> QED
    BY <1>8, <2>1 DEF BeginIterate, OnIterateBegins
<1>9. CASE GetFrame
  <2>1. AskedFor' = AskedFor
    BY <1>9 DEF GetFrame, AskedFor
  <2>2. frame'.dnn = settings[1].dnn
    BY <1>9 DEF GetFrame, InEffect
  <2> QED
    BY <1>9, <2>1, <2>2, EndsLemma DEF GetFrame
<1>10. CASE GetFrameTimesOut
  <2>1. AskedFor' = AskedFor
    BY <1>10 DEF GetFrameTimesOut, NextTurn, Return, OnIterateReturns, AskedFor
  <2> QED
    BY <1>10, <2>1, ZenonT(30) DEF GetFrameTimesOut, NextTurn, Return, OnIterateReturns
<1>11. CASE GetFrameFails
  <2>1. AskedFor' = AskedFor
    BY <1>11 DEF GetFrameFails, Return, OnIterateReturns, AskedFor
  <2> QED
    BY <1>11, <2>1 DEF GetFrameFails, Return, OnIterateReturns
<1>12. CASE CheckFails
  <2>1. AskedFor' = AskedFor
    BY <1>12 DEF CheckFails, AskedFor
  <2> QED
    BY <1>12, <2>1 DEF CheckFails
<1>13. CASE CheckRepairs
  <2>1. ExpectedCrop \in Crops
    BY CropAssumption DEF TypeOK, ExpectedCrop
  <2>2. CASE settings' = settings
    <3>1. AskedFor' = AskedFor
      BY <2>2 DEF AskedFor
    <3> QED
      BY <1>13, <2>2, <3>1 DEF CheckRepairs
  <2>3. CASE Longer([dnn |-> AskedFor.dnn, crop |-> ExpectedCrop])
    BY <1>13, <2>3, EndsLemma DEF CheckRepairs, Longer
  <2> QED
    BY <1>13, <2>1, <2>2, <2>3, CropAsked DEF CheckRepairs
<1>14. CASE CheckPasses
  <2>1. AskedFor' = AskedFor
    BY <1>14 DEF CheckPasses, IsValidDNNChannel, AskedFor
  <2> QED
    BY <1>14, <2>1 DEF CheckPasses, IsValidDNNChannel
<1>15. CASE SendImage
  <2>1. AskedFor' = AskedFor
    BY <1>15 DEF SendImage, AskedFor
  <2> QED
    BY <1>15, <2>1 DEF SendImage
<1>16. CASE AnalyseOd
  <2>1. AskedFor' = AskedFor
    BY <1>16 DEF AnalyseOd, AskedFor
  <2> QED
    BY <1>16, <2>1 DEF AnalyseOd
<1>17. CASE AnalyseIc
  <2>1. AskedFor' = AskedFor
    BY <1>17 DEF AnalyseIc, AskedFor
  <2> QED
    BY <1>17, <2>1 DEF AnalyseIc
<1>18. CASE AnalysisFails
  <2>1. AskedFor' = AskedFor
    BY <1>18 DEF AnalysisFails, AskedFor
  <2> QED
    BY <1>18, <2>1 DEF AnalysisFails
<1>19. CASE SendData
  <2>1. AskedFor' = AskedFor
    BY <1>19 DEF SendData, AskedFor
  <2> QED
    BY <1>19, <2>1 DEF SendData
<1>20. CASE SwitchCrop
  <2> DEFINE c == IF isOd THEN crop_ic' ELSE Full
  <2>1. c \in Crops /\ AskOrRefuse([AskedFor EXCEPT !.crop = c])
    BY <1>20, CropAssumption DEF SwitchCrop, Program
  <2> HIDE DEF c
  <2>2. CASE settings' = settings
    <3>1. AskedFor' = AskedFor
      BY <2>2 DEF AskedFor
    <3> QED
      BY <1>20, <2>2, <3>1 DEF SwitchCrop
  <2>3. CASE Longer([dnn |-> AskedFor.dnn, crop |-> c])
    BY <1>20, <2>3, EndsLemma DEF SwitchCrop, Longer
  <2> QED
    BY <2>1, <2>2, <2>3, CropAsked
<1>21. CASE SwitchDnn
  <2> DEFINE m == IF isOd THEN ic ELSE od.id
  <2>1. m \in AllIds /\ AskOrRefuse([AskedFor EXCEPT !.dnn = m])
    BY <1>21 DEF SwitchDnn, TypeOK
  <2>2. CASE settings' = settings
    <3>1. AskedFor' = AskedFor
      BY <2>2 DEF AskedFor
    <3> QED
      BY <1>21, <2>2, <3>1 DEF SwitchDnn
  <2>3. CASE settings' # settings /\ Longer([dnn |-> m, crop |-> AskedFor.crop])
    <3>1. SUFFICES ASSUME Sure'
                   PROVE  /\ AskedFor'.dnn = Awaited'
                          /\ \A j, k \in 1..Len(settings') :
                               j <= k /\ settings'[j].dnn = Awaited' => settings'[k].dnn = Awaited'
                          /\ frame' # NoFrame /\ frame'.dnn = Awaited' =>
                               \A k \in 1..Len(settings') : settings'[k].dnn = Awaited'
      BY DEF OrderInv
    <3>2. Sure /\ ~allDone
      BY <1>21, <3>1 DEF SwitchDnn, Sure, IdsDiffer, Program
    <3>3. Awaited' = m
      BY <1>21, <2>3, <3>2 DEF SwitchDnn, Awaited, Detecting
    <3>4. frame # NoFrame /\ frame.dnn = Awaited /\ Awaited # m /\ frame' = frame
      BY <1>21, <3>2 DEF SwitchDnn, Program, WithFrame, Accepted, Steps, Expected, Awaited, Detecting, Sure, IdsDiffer
    <3>5. \A k \in 1..Len(settings) : settings[k].dnn = Awaited
      BY <3>2, <3>4 DEF OrderInv
    <3> HIDE DEF m
    <3> QED
      BY <2>3, <3>3, <3>4, <3>5, EndsLemma DEF Longer
  <2>4. settings' = settings \/ (settings' # settings /\ Longer([dnn |-> m, crop |-> AskedFor.crop]))
    <3> HIDE DEF m
    <3> QED
      BY <2>1, DnnAsked
  <2> QED
    BY <2>2, <2>3, <2>4
<1>22. CASE ReleaseFrame
  <2>1. AskedFor' = AskedFor
    BY <1>22 DEF ReleaseFrame, NextTurn, Return, OnIterateReturns, AskedFor
  <2> QED
    BY <1>22, <2>1, ZenonT(30) DEF ReleaseFrame, NextTurn, Return, OnIterateReturns
<1>23. CASE SensorApplies
  <2>1. AskedFor' = AskedFor
    BY <1>23, AppliedLemma
  <2>2. Len(settings') \in Nat /\ \A k \in 1..Len(settings') : k + 1 \in 1..Len(settings) /\ settings'[k] = settings[k + 1]
    BY <1>23, ApplyLemma DEF SensorApplies, TypeOK
  <2> QED
    BY <1>23, <2>1, <2>2, EndsLemma DEF SensorApplies
<1>24. CASE ImageSettles
  <2>1. AskedFor' = AskedFor
    BY <1>24 DEF ImageSettles, AskedFor
  <2> QED
    BY <1>24, <2>1 DEF ImageSettles
<1> QED
  BY <1>1, <1>2, <1>3, <1>4, <1>5, <1>6, <1>7, <1>8, <1>9, <1>10, <1>11, <1>12, <1>13, <1>14, <1>15, <1>16, <1>17, <1>18, <1>19, <1>20, <1>21, <1>22, <1>23, <1>24 DEF Next, Iterate

-----------------------------------------------------------------------------
(* The crop of the frames that are classified *)

(* Every step keeps the crop: the settings of the classification model, and the frames
   taken with them, have the crop of the detection that was sent. *)
LEMMA CropStep ==
  ASSUME TypeOK, Program, OrderInv, CropInv, Next
  PROVE  CropInv'
<1> USE DEF CropInv, Sure, IdsDiffer, Detecting, Program, lifecycleVars, analyzerVars, heldVars, localVars, Others
<1>1. CASE Create
  BY <1>1 DEF Create, OnCreate, Sure
<1>2. CASE Start
  BY <1>2 DEF Start, OnStart
<1>3. CASE Stop
  BY <1>3 DEF Stop, OnStop, Sure
<1>4. CASE Destroy
  BY <1>4 DEF Destroy, OnDestroy, Sure
<1>5. CASE ConfigureAccepted
  BY <1>5 DEF ConfigureAccepted, Sure, lifecycleVars
<1>6. CASE ConfigureRefusesOd
  BY <1>6 DEF ConfigureRefusesOd, Sure, lifecycleVars
<1>7. CASE ConfigureRefusesIc
  BY <1>7 DEF ConfigureRefusesIc, Sure, lifecycleVars
<1>8. CASE BeginIterate
  <2>1. AskedFor' = AskedFor
    BY <1>8 DEF BeginIterate, OnIterateBegins, CropOfDetection, AskedFor
  <2> QED
    BY <1>8, <2>1 DEF BeginIterate, OnIterateBegins, CropOfDetection
<1>9. CASE GetFrame
  <2>1. AskedFor' = AskedFor
    BY <1>9 DEF GetFrame, AskedFor
  <2>2. frame'.dnn = settings[1].dnn /\ frame'.crop = settings[1].crop
    BY <1>9 DEF GetFrame, InEffect
  <2> QED
    BY <1>9, <2>1, <2>2, EndsLemma DEF GetFrame
<1>10. CASE GetFrameTimesOut
  <2>1. AskedFor' = AskedFor
    BY <1>10 DEF GetFrameTimesOut, NextTurn, Return, OnIterateReturns, CropOfDetection, AskedFor
  <2> QED
    BY <1>10, <2>1 DEF GetFrameTimesOut, NextTurn, Return, OnIterateReturns, CropOfDetection
<1>11. CASE GetFrameFails
  <2>1. AskedFor' = AskedFor
    BY <1>11 DEF GetFrameFails, Return, OnIterateReturns, CropOfDetection, AskedFor
  <2> QED
    BY <1>11, <2>1 DEF GetFrameFails, Return, OnIterateReturns, CropOfDetection
<1>12. CASE CheckFails
  <2>1. AskedFor' = AskedFor
    BY <1>12 DEF CheckFails, CropOfDetection, AskedFor
  <2> QED
    BY <1>12, <2>1 DEF CheckFails, CropOfDetection
<1>13. CASE CheckRepairs
  <2>1. ExpectedCrop \in Crops
    BY CropAssumption DEF TypeOK, ExpectedCrop
  <2>2. CASE settings' = settings
    <3>1. AskedFor' = AskedFor
      BY <2>2 DEF AskedFor
    <3> QED
      BY <1>13, <2>2, <3>1 DEF CheckRepairs, TypeOK, AskOrRefuse
  <2>3. CASE Longer([dnn |-> AskedFor.dnn, crop |-> ExpectedCrop]) /\ refused' = refused
    <3>1. ~isOd => ExpectedCrop = crop_ic
      BY DEF ExpectedCrop
    <3>2. ~Detecting /\ ~refused /\ Sure =>
            \A k \in 1..Len(settings') : settings'[k].dnn = ic => settings'[k].crop = crop_ic
      <4> HIDE DEF Sure
      <4> QED
        BY <1>13, <2>3, <3>1, EndsLemma DEF CheckRepairs, Longer
    <3> QED
      BY <1>13, <2>3, <3>2 DEF CheckRepairs
  <2> QED
    BY <1>13, <2>1, <2>2, <2>3, CropAsked DEF CheckRepairs
<1>14. CASE CheckPasses
  <2>1. AskedFor' = AskedFor
    BY <1>14 DEF CheckPasses, IsValidDNNChannel, CropOfDetection, AskedFor
  <2> QED
    BY <1>14, <2>1 DEF CheckPasses, IsValidDNNChannel, CropOfDetection
<1>15. CASE SendImage
  <2>1. AskedFor' = AskedFor
    BY <1>15 DEF SendImage, CropOfDetection, AskedFor
  <2> QED
    BY <1>15, <2>1 DEF SendImage, CropOfDetection
<1>16. CASE AnalyseOd
  <2>1. AskedFor' = AskedFor
    BY <1>16 DEF AnalyseOd, CropOfDetection, AskedFor
  <2> QED
    BY <1>16, <2>1 DEF AnalyseOd, CropOfDetection
<1>17. CASE AnalyseIc
  <2>1. AskedFor' = AskedFor
    BY <1>17 DEF AnalyseIc, CropOfDetection, AskedFor
  <2> QED
    BY <1>17, <2>1 DEF AnalyseIc, CropOfDetection
<1>18. CASE AnalysisFails
  <2>1. ~isOd => timestamp' = timestamp
    BY <1>18 DEF AnalysisFails
  <2> QED
    BY <1>18, <2>1 DEF AnalysisFails
<1>19. CASE SendData
  <2>1. AskedFor' = AskedFor
    BY <1>19 DEF SendData, CropOfDetection, AskedFor
  <2> QED
    BY <1>19, <2>1 DEF SendData, CropOfDetection
<1>20. CASE SwitchCrop
  <2> DEFINE c == IF isOd THEN crop_ic' ELSE Full
  <2>1. c \in Crops /\ AskOrRefuse([AskedFor EXCEPT !.crop = c])
    BY <1>20, CropAssumption DEF SwitchCrop
  <2>2. CASE settings' = settings /\ refused' = TRUE
    BY <1>20, <2>2 DEF SwitchCrop
  <2>3. CASE Longer([dnn |-> AskedFor.dnn, crop |-> c]) /\ refused' = refused
    <3>1. pc' = "dnn"
      BY <1>20, <2>3, EndsLemma DEF SwitchCrop, Longer
    <3>2. isOd => c = crop_ic' /\ AskedFor'.crop = c
      BY <2>3 DEF Longer
    <3>3. pc = "crop" /\ crop_ic' = IF isOd THEN CropOfDetection ELSE crop_ic
      BY <1>20 DEF SwitchCrop
    <3>4. UNCHANGED <<isOd, allDone, timestamp, handed, phase, astray, od, ic>>
      BY <1>20 DEF SwitchCrop
    <3> HIDE DEF c
    <3> QED
      BY <2>3, <3>1, <3>2, <3>3, <3>4
  <2> HIDE DEF c
  <2> QED
    BY <2>1, <2>2, <2>3, CropAsked
<1>21. CASE SwitchDnn
  <2> DEFINE m == IF isOd THEN ic ELSE od.id
  <2>1. m \in AllIds /\ AskOrRefuse([AskedFor EXCEPT !.dnn = m])
    BY <1>21 DEF SwitchDnn, TypeOK
  <2>2. CASE settings' = settings /\ refused' = TRUE
    BY <1>21, <2>2 DEF SwitchDnn
  <2>3. CASE Longer([dnn |-> m, crop |-> AskedFor.crop]) /\ refused' = refused
    <3>1. settings' # settings
      BY <2>3, EndsLemma DEF Longer
    <3>2. isOd' = FALSE /\ allDone' = ~isOd
      BY <1>21, <3>1 DEF SwitchDnn
    <3>3. UNCHANGED <<timestamp, handed, crop_ic, phase, astray, od, ic, frame>> /\ pc' = "release"
      BY <1>21 DEF SwitchDnn
    <3>4. CASE ~isOd
      BY <3>2, <3>3, <3>4
    <3>5. CASE isOd /\ Sure
      <4>1. handed = [trace |-> timestamp, crop |-> crop_ic] /\ AskedFor.crop = crop_ic
        BY <1>21, <3>5 DEF SwitchDnn
      <4>2. frame # NoFrame /\ frame.dnn = od.id
        BY <1>21, <3>5 DEF SwitchDnn, WithFrame, Accepted, Steps, Expected
      <4>3. \A k \in 1..Len(settings) : settings[k].dnn # ic
        BY <3>5, <4>2 DEF OrderInv, Awaited
      <4>4. \A k \in 1..Len(settings') : settings'[k].dnn = ic => settings'[k].crop = crop_ic
        <5> HIDE DEF m
        <5> QED
          BY <2>3, <4>1, <4>3, EndsLemma DEF Longer
      <4> QED
        BY <3>2, <3>3, <3>5, <4>1, <4>4
    <3> QED
      BY <3>2, <3>3, <3>4, <3>5
  <2>4. \/ settings' = settings /\ refused' = TRUE
        \/ Longer([dnn |-> m, crop |-> AskedFor.crop]) /\ refused' = refused
    <3> HIDE DEF m
    <3> QED
      BY <2>1, DnnAsked
  <2> QED
    BY <2>2, <2>3, <2>4
<1>22. CASE ReleaseFrame
  <2>1. AskedFor' = AskedFor
    BY <1>22 DEF ReleaseFrame, NextTurn, Return, OnIterateReturns, CropOfDetection, AskedFor
  <2> QED
    BY <1>22, <2>1 DEF ReleaseFrame, NextTurn, Return, OnIterateReturns, CropOfDetection
<1>23. CASE SensorApplies
  <2>1. AskedFor' = AskedFor
    BY <1>23, AppliedLemma
  <2>2. Len(settings') \in Nat /\ \A k \in 1..Len(settings') : k + 1 \in 1..Len(settings) /\ settings'[k] = settings[k + 1]
    BY <1>23, ApplyLemma DEF SensorApplies, TypeOK
  <2> QED
    BY <1>23, <2>1, <2>2, EndsLemma DEF SensorApplies, CropOfDetection
<1>24. CASE ImageSettles
  <2>1. AskedFor' = AskedFor
    BY <1>24 DEF ImageSettles, CropOfDetection, AskedFor
  <2> QED
    BY <1>24, <2>1 DEF ImageSettles, CropOfDetection
<1> QED
  BY <1>1, <1>2, <1>3, <1>4, <1>5, <1>6, <1>7, <1>8, <1>9, <1>10, <1>11, <1>12, <1>13, <1>14, <1>15, <1>16, <1>17, <1>18, <1>19, <1>20, <1>21, <1>22, <1>23, <1>24 DEF Next, Iterate

-----------------------------------------------------------------------------
(* The invariant *)

LEMMA InitInv ==
  ASSUME Init
  PROVE  IInv
<1> USE DEF Init, LifecycleInit
<1>1. \A m \in Ids : <<[dnn |-> m, crop |-> Full]>> \in Seq(Settings) /\ <<[dnn |-> m, crop |-> Full]>> # <<>>
  BY CropAssumption DEF Settings, AllIds
<1>2. TypeOK
  <2>1. settings \in Seq(Settings) /\ settings # <<>>
    BY <1>1
  <2>2. handed \in [trace: Stamps \cup {NoStamp}, crop: Crops] /\ od \in [id: AllIds, force: BOOLEAN]
    BY CropAssumption DEF AllIds
  <2>3. busy \in BOOLEAN /\ isOd \in BOOLEAN /\ allDone \in BOOLEAN /\ valid \in BOOLEAN /\ refused \in BOOLEAN /\ astray \in BOOLEAN
    OBVIOUS
  <2>4. phase \in Phases /\ pc \in Steps /\ retry \in 0..RetryMax /\ ic \in AllIds /\ box \in Detections
    BY RetryAssumption DEF Phases, Steps, AllIds, Detections
  <2> QED
    BY <2>1, <2>2, <2>3, <2>4, CropAssumption DEF TypeOK
<1>3. Program
  BY DEF Program, WithFrame, Accepted, Steps
<1> QED
  BY <1>2, <1>3 DEF IInv, ModeInv, OrderInv, CropInv, Sure

LEMMA StepInv ==
  ASSUME IInv, [Next]_vars
  PROVE  IInv'
<1>1. CASE Next
  <2>1. TypeOK'
    BY <1>1, ControlStep, DataStep DEF IInv, TypeOK, ControlTypes, DataTypes
  <2> QED
    BY <1>1, <2>1, ProgramStep, ModeStep, OrderStep, CropStep DEF IInv
<1>2. CASE UNCHANGED vars
  <2> USE <1>2 DEF vars, lifecycleVars, analyzerVars, heldVars, localVars
  <2>1. TypeOK'
    BY DEF IInv, TypeOK
  <2>2. Program'
    BY DEF IInv, Program, Expected, CropOfDetection
  <2>3. ModeInv' /\ OrderInv'
    BY DEF IInv, ModeInv, OrderInv, Sure, IdsDiffer, Detecting, Awaited, AskedFor
  <2>4. CropInv'
    BY DEF IInv, CropInv, Sure, IdsDiffer, Detecting, AskedFor, CropOfDetection
  <2> QED
    BY <2>1, <2>2, <2>3, <2>4 DEF IInv
<1> QED
  BY <1>1, <1>2

(* The invariant holds throughout, for any models and crops, any limit of  *)
(* retries and any number of settings that are not carried out yet.        *)
THEOREM SwitchInvariance == Spec => []IInv
<1>1. Init => IInv
  BY InitInv
<1>2. IInv /\ [Next]_vars => IInv'
  BY StepInv
<1> QED
  BY <1>1, <1>2, PTL DEF Spec

(* A classification that is sent is about the bird of the detection sent   *)
(* before it, however late the sensor carries out what it is asked for,    *)
(* but for the exceptions the property names.                              *)
THEOREM DetectionClassified == Spec => []ClassifiesDetection
<1>1. IInv => ClassifiesDetection
  BY DEF IInv, Program, CropInv, Sure, Detecting, Accepted, Expected, IdsDiffer, ClassifiesDetection
<1> QED
  BY <1>1, SwitchInvariance, PTL

(* The next onIterate finds the stream asked for the detection model, with *)
(* any number of retries and whatever fails, unless one left off while it  *)
(* classified.                                                             *)
THEOREM ModeRestored == Spec => []ModeIsRestored
<1>1. IInv => ModeIsRestored
  BY DEF IInv, Program, ModeInv, Detecting, ModeIsRestored
<1> QED
  BY <1>1, SwitchInvariance, PTL

(* An image is sent from a frame that is held, and nothing is held between *)
(* two calls of onIterate.                                                 *)
THEOREM ImageFramed == Spec => []ImageHasFrame
<1>1. IInv => ImageHasFrame
  BY DEF IInv, TypeOK, Program, WithFrame, Accepted, Steps, ImageHasFrame
<1> QED
  BY <1>1, SwitchInvariance, PTL
=============================================================================
