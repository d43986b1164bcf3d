--------------------------- MODULE AudioPostproc ----------------------------
(***************************************************************************)
(* Post-processing of playback and pre-processing of capture: the tables   *)
(* read once from AudioFilter.csv (get_audpp_filter), and the features     *)
(* switched on in the DSP for the device that is routed                    *)
(* (msm72xx_enable_postproc, msm72xx_enable_preproc), with the property    *)
(* audio.legacy.postproc on: off, it acts as a file that was refused.      *)
(*                                                                         *)
(* A line of the file is a record                                          *)
(*   [type, index, flag, tokens]                                           *)
(* type is its first letter, index the digit after it, flag the feature    *)
(* flag it carries; tokens says how much of it is there: "short" (it ends  *)
(* before the flag), "flag" (it ends after the flag; the flag is the last  *)
(* token of a D, F or G line, which is then "full"), "full".               *)
(***************************************************************************)
EXTENDS Integers, Sequences, SequencesExt

Features == {"ADRC", "EQ", "RX_IIR", "MBADRC"}
Tables == 0 .. 2                    \* speaker, handset, headset
SampleRates == 0 .. 8               \* SAMP_RATE_INDX_48000 .. _8000

\* The calibration when nothing has been read.
NoCalibration ==
    [inited |-> FALSE,
     flag   |-> [t \in Tables |-> {}],      \* adrc_flag, eq_flag, ...
     exists |-> [t \in Tables |-> {}],      \* adrc_filter_exists, mbadrc_...
     preproc |-> [r \in SampleRates |-> {}]] \* enable_preproc_mask

\* The IIR flag is the last token but one of its line, the MBADRC flag the
\* last, the ADRC and EQ flags the first after the description.
FlagIsRead(line) == line.tokens = "full" \/ line.tokens = "flag"

SetFlag(cal, t, f, line) ==
    LET flags == IF line.flag THEN cal.flag[t] \cup {f} ELSE cal.flag[t] \ {f}
    IN  [cal EXCEPT !.flag[t] = IF FlagIsRead(line) THEN flags ELSE @]

\* The lines of a table.  ADRC and MBADRC tables count as existing as soon as
\* their line begins.
set_rx_iir(cal, t, line) == SetFlag(cal, t, "RX_IIR", line)
set_adrc(cal, t, line) ==
    [SetFlag(cal, t, "ADRC", line) EXCEPT !.exists[t] = @ \cup {"ADRC"}]
set_eq(cal, t, line) == SetFlag(cal, t, "EQ", line)
set_mbadrc(cal, t, line) ==
    [SetFlag(cal, t, "MBADRC", line) EXCEPT !.exists[t] = @ \cup {"MBADRC"}]

\* The pre-processing lines: the mask bit is set only at the end of a line,
\* and no line clears it.
SetMask(cal, r, f, line) ==
    IF line.tokens = "full" /\ line.flag THEN [cal EXCEPT !.preproc[r] = @ \cup {f}] ELSE cal
set_tx_iir(cal, r, line) == SetMask(cal, r, "TX_IIR", line)
set_agc(cal, r, line) == SetMask(cal, r, "AGC", line)
set_ns(cal, r, line) == SetMask(cal, r, "NS", line)

\* samp_index: digits 1 to 9 stand for the rates from 48000 down.
samp_index(line) == line.index - 1

\* check_and_set_audpp_parameters: the new calibration, and whether the line
\* was accepted.  Lines of other types, and post-processing lines of other
\* devices, are skipped; a pre-processing line of an unknown rate is an error.
check_and_set_audpp_parameters(cal, line) ==
    LET t == line.index - 1
        r == samp_index(line)
        ok == line.tokens = "full"
    IN
    CASE line.type \in {"A", "B", "C", "D"} /\ line.index \in 1 .. 3 ->
            [cal |-> CASE line.type = "A" -> set_rx_iir(cal, t, line)
                       [] line.type = "B" -> set_adrc(cal, t, line)
                       [] line.type = "C" -> set_eq(cal, t, line)
                       [] line.type = "D" -> set_mbadrc(cal, t, line),
             ok  |-> ok]
      [] line.type \in {"E", "F", "G"} /\ line.index \in 1 .. 9 ->
            [cal |-> CASE line.type = "E" -> set_tx_iir(cal, r, line)
                       [] line.type = "F" -> set_agc(cal, r, line)
                       [] line.type = "G" -> set_ns(cal, r, line),
             ok  |-> ok]
      [] OTHER -> [cal |-> cal, ok |-> line.type \notin {"E", "F", "G"}]

\* get_audpp_filter: the lines in order, up to the first that is refused; what
\* was read before it stays.  The constructor sets audpp_filter_inited when
\* every line was accepted.  (A file that cannot be opened is NoCalibration.)
get_audpp_filter(lines) ==
    LET Read(acc, line) ==
            IF acc.ok THEN check_and_set_audpp_parameters(acc.cal, line) ELSE acc
        end == FoldLeft(Read, [cal |-> NoCalibration, ok |-> TRUE], lines)
    IN  [end.cal EXCEPT !.inited = end.ok]

-----------------------------------------------------------------------------
(* The features of a mask that the tables of a device allow.               *)

\* device_id: 0 unless the device has tables of its own.
device_id(device) ==
    CASE device = "HANDSET" -> 1 [] device = "HEADSET" -> 2 [] OTHER -> 0

\* The dynamic range controls exclude each other, MBADRC first.
DynamicRange(cal, t) ==
    CASE "MBADRC" \in cal.exists[t] -> {"MBADRC"} \cap cal.flag[t]
      [] cal.exists[t] = {"ADRC"} -> {"ADRC"} \cap cal.flag[t]
      [] OTHER -> {}

Allowed(cal, device) ==
    LET t == device_id(device) IN
    DynamicRange(cal, t) \cup (cal.flag[t] \cap {"EQ", "RX_IIR"})

\* pp is the record of the static variables snd_device and
\* post_proc_feature_mask and of the features enabled in the DSP (audpp).
\* With no device or no tables the mask is cleared and the DSP left alone.
msm72xx_enable_postproc(pp, cal, state) ==
    IF ~cal.inited \/ pp.snd_device = "none" THEN [pp EXCEPT !.mask = {}]
    ELSE LET m == IF state THEN pp.mask \cap Allowed(cal, pp.snd_device) ELSE {}
         IN  [pp EXCEPT !.mask = m, !.audpp = m]

\* What AUDIO_ENABLE_AUDPRE leaves enabled for the capture's sample rate.
msm72xx_enable_preproc(audpre, cal, rate, state) ==
    IF ~cal.inited THEN audpre ELSE IF state THEN cal.preproc[rate] ELSE {}
=============================================================================
