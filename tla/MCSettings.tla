----------------------------- MODULE MCSettings -----------------------------
(* Instances of Settings for TLC. *)
EXTENDS Settings

Document == [valid |-> TRUE, plain |-> <<>>, pq |-> <<>>, ports |-> <<>>, arrays |-> <<>>]

Groups == {"auto_exposure", "auto_exposure_metering", "manual_white_balance_preset"}
Others == {"gamma_parameter"}

Exposure(max, min) ==
  [ max_exposure_time |-> max, min_exposure_time |-> min, max_gain |-> 0,
    convergence_speed |-> 0 ]
Window(mode, top, bottom) ==
  [mode |-> mode, top |-> top, left |-> 0, bottom |-> bottom, right |-> 1]
Gamma(n) == [value |-> n]
Preset(n) == [color_temperature |-> n]

StartValues ==
  [ auto_exposure |-> {Exposure(1, 0)}, auto_exposure_metering |-> {Window(0, 1, 0)},
    gamma_parameter |-> {Gamma(1)}, manual_white_balance_preset |-> {Preset(3200)} ]

\* The application may set what a document may not.
OwnValues ==
  [ auto_exposure |-> {Exposure(0, 1), Exposure(1, 1)},
    auto_exposure_metering |-> {Window(1, 0, 1)},
    gamma_parameter |-> {Gamma(0), Gamma(2)}, manual_white_balance_preset |-> {Preset(4300)} ]

Pq(d, k, part) == [d EXCEPT !.pq = [x \in DOMAIN d.pq \cup {k} |-> IF x = k THEN part ELSE d.pq[x]]]
Plain(d, part) == [d EXCEPT !.plain = part]

Run == Plain(Document, [process_state |-> RunningState])
Malformed == [Document EXCEPT !.valid = FALSE]

PresetOnly == {"manual_white_balance_preset"}
PresetDocs ==
  { Pq(Document, "manual_white_balance_preset", [color_temperature |-> 1]),
    Pq(Document, "manual_white_balance_preset", <<>>) }

(* One half of a pair is set; the other half; a window becomes effective;   *)
(* both groups at once.                                                    *)
GroupDocs ==
  { Pq(Document, "auto_exposure", [min_exposure_time |-> 1]),
    Pq(Document, "auto_exposure", [max_exposure_time |-> 1]),
    Pq(Document, "auto_exposure_metering", [mode |-> 1]),
    Pq(Pq(Document, "auto_exposure_metering", [top |-> 0, bottom |-> 1]),
       "auto_exposure", [max_gain |-> 0, min_exposure_time |-> 0]),
    Run, Malformed } \cup PresetDocs

OtherDocs ==
  { Pq(Document, "gamma_parameter", [value |-> 3]),
    Plain([Document EXCEPT !.ports = [metadata |-> TRUE]], [process_state |-> RunningState]),
    [Document EXCEPT !.ports = [metadata |-> FALSE]],
    [Document EXCEPT !.ports = [metadata |-> FALSE, input_tensor |-> TRUE]],
    Plain(Pq(Document, "gamma_parameter", [value |-> 2]), [number_of_inference_per_message |-> 0]),
    [Document EXCEPT !.arrays = [ai_models |-> <<"m">>, register_access |-> <<"r", "s">>]],
    [Document EXCEPT !.arrays = [ai_models |-> <<"m", "n">>]],
    [Document EXCEPT !.arrays = [register_access |-> <<"r", "r", "r">>]],
    [Document EXCEPT !.arrays = [register_access |-> <<>>]] }

RegisterDocs == { d \in OtherDocs : d.arrays # <<>> }
=============================================================================
