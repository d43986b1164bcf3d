------------------------------ MODULE AudioHal ------------------------------
(***************************************************************************)
(* The C entry points of the audio HAL (src/audio/audio_hw_hal.cpp) under  *)
(* the audio policy: a route the policy decides reaches AudioHardware as   *)
(* a device word of HAL revision 1.0, and is read back as one of 2.0.      *)
(* A word is the set of its bit numbers; the two revisions number the      *)
(* devices differently, and in 2.0 an input device shares its number with  *)
(* an output device and is told from it by AUDIO_DEVICE_BIT_IN.            *)
(***************************************************************************)
EXTENDS AudioPolicy

BIT_IN == 31    \* AUDIO_DEVICE_BIT_IN

Row(name, b1, b2) == [name |-> name, v1 |-> b1, v2 |-> b2]

\* audio_device_conv_table; the bit numbers are those of AudioSystem.h and
\* system/audio.h.
audio_device_conv_table == {
    Row("EARPIECE", {0}, {0}), Row("SPEAKER", {1}, {1}),
    Row("WIRED_HEADSET", {2}, {2}), Row("WIRED_HEADPHONE", {3}, {3}),
    Row("SCO", {4}, {4}), Row("SCO_HEADSET", {5}, {5}), Row("SCO_CARKIT", {6}, {6}),
    Row("A2DP", {7}, {7}), Row("A2DP_HEADPHONES", {8}, {8}), Row("A2DP_SPEAKER", {9}, {9}),
    Row("AUX_DIGITAL", {10}, {10}), Row("ANLG_DOCK_HEADSET", {11}, {11}),
    Row("DGTL_DOCK_HEADSET", {12}, {12}), Row("FM", {13}, {19}), Row("FM_TX", {14}, {20}),
    Row("COMMUNICATION_IN", {16}, {BIT_IN, 0}), Row("AMBIENT_IN", {17}, {BIT_IN, 1}),
    Row("BUILTIN_MIC_IN", {18}, {BIT_IN, 2}), Row("SCO_HEADSET_IN", {19}, {BIT_IN, 3}),
    Row("WIRED_HEADSET_IN", {20}, {BIT_IN, 4}), Row("AUX_DIGITAL_IN", {21}, {BIT_IN, 5}),
    Row("VOICE_CALL_IN", {22}, {BIT_IN, 6}), Row("BACK_MIC_IN", {23}, {BIT_IN, 7}),
    Row("FM_RX_IN", {25}, {BIT_IN, 13}), Row("FM_RX_A2DP_IN", {26}, {BIT_IN, 14})}

\* The input bit of a 2.0 word is not put back on the devices looked up.
convert_audio_deviceVariant(word, from, to) ==
    UNION {row[to] : row \in {r \in audio_device_conv_table :
                              \E i \in word \ {BIT_IN} : r[from] = {i}}}

\* Bit by bit, each with the input bit of the whole word; a device that is not
\* in the table is dropped.
convert_audio_device(word, from, to) ==
    LET in_bit == IF from = "v2" THEN word \cap {BIT_IN} ELSE {} IN
    UNION {row[to] : row \in {r \in audio_device_conv_table :
                              \E i \in word \ in_bit : r[from] = {i} \cup in_bit}}

\* out_set_parameters, in_set_parameters, and the device of the opens
set_parameters(word) == convert_audio_device(word, "v2", "v1")
\* out_get_parameters, in_get_parameters
get_parameters(word) == convert_audio_device(word, "v1", "v2")

WordOf(names, rev) == UNION {row[rev] : row \in {r \in audio_device_conv_table : r.name \in names}}
InputName == [BUILTIN_MIC |-> "BUILTIN_MIC_IN", WIRED_HEADSET |-> "WIRED_HEADSET_IN",
              SCO_HEADSET |-> "SCO_HEADSET_IN", VOICE_CALL |-> "VOICE_CALL_IN",
              COMMUNICATION |-> "COMMUNICATION_IN", BACK_MIC |-> "BACK_MIC_IN",
              FM_RX |-> "FM_RX_IN", FM_RX_A2DP |-> "FM_RX_A2DP_IN"]

\* The routes in use: the devices of the outputs of this HAL, and of the input.
RoutesInUse ==
    {apm.outs[o].device : o \in DOMAIN apm.outs \cap {"primary", "voip", "lpa"}}
    \cup {{InputName[d]} : d \in {apm.input.device} \cap DOMAIN InputName}

-----------------------------------------------------------------------------
\* Every route the policy sets arrives at AudioHardware as the same devices, no
\* device dropped and none added, an input never as an output, and getParameters
\* tells it back (convert_audio_device in both directions).
RoutesReachHardware ==
    \A names \in RoutesInUse :
        /\ set_parameters(WordOf(names, "v2")) = WordOf(names, "v1")
        /\ get_parameters(set_parameters(WordOf(names, "v2"))) = WordOf(names, "v2")
=============================================================================
