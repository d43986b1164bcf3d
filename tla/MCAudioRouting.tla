--------------------------- MODULE MCAudioRouting ---------------------------
(* The instance of AudioRouting that is model-checked.                     *)
EXTENDS AudioRouting

\* A driver without the speaker endpoint for two microphones.
MCEndpoints == {"CURRENT", "HANDSET", "SPEAKER", "HEADSET", "TTY_HEADSET",
                "STEREO_HEADSET_AND_SPEAKER", "IN_S_SADC_OUT_HANDSET",
                "FM_DIGITAL_STEREO_HEADSET",
                "FM_DIGITAL_BT_A2DP_HEADSET"}
MCOutRoutes == {{"SPEAKER"}, {"WIRED_HEADSET"}, {"WIRED_HEADSET", "FM"}}
MCLPARoutes == {{"WIRED_HEADSET"}}
MCInDevices == {"IN_MIC", "IN_FM_RX_A2DP", "IN_FM_RX", "0"}

Line(type, index, flag) ==
    [type |-> type, index |-> index, flag |-> flag, tokens |-> "full"]
\* Tables of the speaker (1) and the headset (3), and a file cut short.
Good == <<Line("A", 1, TRUE), Line("B", 1, TRUE), Line("C", 3, TRUE),
          Line("D", 3, TRUE), Line("E", 9, TRUE)>>
Cut == <<Line("A", 1, TRUE), [Line("B", 1, TRUE) EXCEPT !.tokens = "flag"],
         Line("C", 3, TRUE)>>
MCCalibrations == {Good, Cut}

MCBtRegs == <<"BT_PCM_BCLK_MODE", "BT_PCM_SYNC_MODE">>
MCFmRegs == <<"FM_I2S_SD_MODE", "FM_I2S_SCK_MODE">>
=============================================================================
