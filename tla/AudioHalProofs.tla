--------------------------- MODULE AudioHalProofs ---------------------------
(***************************************************************************)
(* Every route of the audio policy arrives at AudioHardware: proof for     *)
(* every set of devices, streams and requests.  The policy routes an       *)
(* output only to devices of its profile (PolicyTypeCorrect); what is left *)
(* is about audio_device_conv_table: a number names one device in either   *)
(* revision, so a word of known devices is converted device by device.     *)
(***************************************************************************)
EXTENDS AudioHal, AudioPolicyProofs

Revisions == {"v1", "v2"}

\* The word of the devices of some rows, and the input bit convert_audio_device
\* takes from it.
WordOfRows(rows, rev) == UNION {row[rev] : row \in rows}
InBit(word, rev) == IF rev = "v2" THEN word \cap {BIT_IN} ELSE {}

\* Rows that make a word: each has one bit beside the input bit of the word.
Spelled(rows, rev) ==
    \A row \in rows : \E i \in WordOfRows(rows, rev) \ InBit(WordOfRows(rows, rev), rev) :
        row[rev] = {i} \cup InBit(WordOfRows(rows, rev), rev)

\* A row is known by its number in either revision.
LEMMA NumbersName ==
    \A r, s \in audio_device_conv_table : r.v1 = s.v1 \/ r.v2 = s.v2 => r = s
<1>1. \A r, s \in audio_device_conv_table : r.v1 = s.v1 => r = s
  BY SMTT(60) DEF audio_device_conv_table, Row
<1>2. \A r, s \in audio_device_conv_table : r.v2 = s.v2 => r = s
  BY SMTT(60) DEF audio_device_conv_table, Row, BIT_IN
<1> QED
  BY <1>1, <1>2

\* A spelled word is converted row by row.
LEMMA WordConverts ==
    ASSUME NEW rows \in SUBSET audio_device_conv_table,
           NEW from \in Revisions, NEW to \in Revisions, Spelled(rows, from)
    PROVE  convert_audio_device(WordOfRows(rows, from), from, to) = WordOfRows(rows, to)
<1> DEFINE word == WordOfRows(rows, from)
           in_bit == InBit(word, from)
           Found == {r \in audio_device_conv_table :
                        \E i \in word \ in_bit : r[from] = {i} \cup in_bit}
<1>1. ASSUME NEW r \in rows PROVE r \in Found
  BY DEF Spelled
<1>2. ASSUME NEW r \in Found PROVE r \in rows
  <2>1. PICK i \in word \ in_bit : r[from] = {i} \cup in_bit
    OBVIOUS
  <2>2. PICK s \in rows : i \in s[from]
    BY DEF WordOfRows
  <2>3. PICK k \in word \ in_bit : s[from] = {k} \cup in_bit
    BY DEF Spelled
  <2>4. r[from] = s[from]
    BY <2>1, <2>2, <2>3
  <2>5. r = s
    BY <2>4, NumbersName DEF Revisions
  <2> QED
    BY <2>5
<1>3. Found = rows
  BY <1>1, <1>2
<1>4. convert_audio_device(word, from, to) = UNION {row[to] : row \in Found}
  BY DEF convert_audio_device, InBit
<1> QED
  BY <1>3, <1>4 DEF WordOfRows

-----------------------------------------------------------------------------
\* The rows of a route: those of output devices, or that of one input.
OutputNames == Profiles.primary \cup Profiles.voip \cup Profiles.lpa
RowsOf(names) == {r \in audio_device_conv_table : r.name \in names}

LEMMA OutputRows ==
    \A r \in RowsOf(OutputNames) : \E i, k \in Nat :
        r.v1 = {i} /\ r.v2 = {k} /\ k # BIT_IN
BY SMTT(60) DEF RowsOf, OutputNames, Profiles, audio_device_conv_table, Row, BIT_IN

LEMMA InputRows ==
    ASSUME NEW d \in DOMAIN InputName
    PROVE  \E r \in audio_device_conv_table : \E i, k \in Nat :
        /\ RowsOf({InputName[d]}) = {r}
        /\ r.v1 = {i} /\ r.v2 = {BIT_IN, k} /\ k # BIT_IN
BY SMTT(60) DEF RowsOf, InputName, audio_device_conv_table, Row, BIT_IN

\* The routes of outputs and inputs are spelled in both revisions.
LEMMA OutputsAreSpelled ==
    ASSUME NEW names \in SUBSET OutputNames, NEW rev \in Revisions
    PROVE  Spelled(RowsOf(names), rev)
<1> DEFINE rows == RowsOf(names)
           word == WordOfRows(rows, rev)
<1>1. ASSUME NEW r \in rows PROVE \E i \in Nat : r[rev] = {i} /\ (rev = "v2" => i # BIT_IN)
  BY OutputRows DEF RowsOf, Revisions
<1>2. InBit(word, rev) = {}
  BY <1>1 DEF InBit, WordOfRows
<1>3. ASSUME NEW r \in rows PROVE \E i \in word : r[rev] = {i}
  BY <1>1 DEF WordOfRows
<1> QED
  BY <1>2, <1>3 DEF Spelled

LEMMA InputsAreSpelled ==
    ASSUME NEW d \in DOMAIN InputName, NEW rev \in Revisions
    PROVE  Spelled(RowsOf({InputName[d]}), rev)
<1>1. PICK r \in audio_device_conv_table : \E i, k \in Nat :
        /\ RowsOf({InputName[d]}) = {r}
        /\ r.v1 = {i} /\ r.v2 = {BIT_IN, k} /\ k # BIT_IN
  BY InputRows
<1>2. PICK i, k \in Nat : /\ RowsOf({InputName[d]}) = {r}
                          /\ r.v1 = {i} /\ r.v2 = {BIT_IN, k} /\ k # BIT_IN
  BY <1>1
<1>3. WordOfRows({r}, rev) = r[rev]
  BY DEF WordOfRows
<1>4. CASE rev = "v1"
  BY <1>2, <1>3, <1>4 DEF Spelled, InBit
<1>5. CASE rev = "v2"
  BY <1>2, <1>3, <1>5 DEF Spelled, InBit
<1> QED
  BY <1>4, <1>5 DEF Revisions

-----------------------------------------------------------------------------
\* A route whose rows are spelled is told AudioHardware and told back.
LEMMA SpelledReaches ==
    ASSUME NEW names, Spelled(RowsOf(names), "v1"), Spelled(RowsOf(names), "v2")
    PROVE  /\ set_parameters(WordOf(names, "v2")) = WordOf(names, "v1")
           /\ get_parameters(set_parameters(WordOf(names, "v2"))) = WordOf(names, "v2")
<1>1. \A rev : WordOf(names, rev) = WordOfRows(RowsOf(names), rev)
  BY DEF WordOf, WordOfRows, RowsOf
<1>2. RowsOf(names) \in SUBSET audio_device_conv_table
  BY DEF RowsOf
<1>3. convert_audio_device(WordOf(names, "v2"), "v2", "v1") = WordOf(names, "v1")
  BY <1>1, <1>2, WordConverts DEF Revisions
<1>4. convert_audio_device(WordOf(names, "v1"), "v1", "v2") = WordOf(names, "v2")
  BY <1>1, <1>2, WordConverts DEF Revisions
<1> QED
  BY <1>3, <1>4 DEF set_parameters, get_parameters

\* Every route the policy sets arrives at AudioHardware as the same devices and
\* is told back as it was set (RoutesReachHardware): out_set_parameters(),
\* in_set_parameters() and the reads, through convert_audio_device().
THEOREM RoutesArrive == Spec => []RoutesReachHardware
<1>1. PolicyTypeOK => RoutesReachHardware
  <2> SUFFICES ASSUME PolicyTypeOK, NEW names \in RoutesInUse
               PROVE  Spelled(RowsOf(names), "v1") /\ Spelled(RowsOf(names), "v2")
    BY SpelledReaches DEF RoutesReachHardware
  <2>1. CASE \E o \in DOMAIN apm.outs \cap {"primary", "voip", "lpa"} :
                 names = apm.outs[o].device
    <3>1. names \in SUBSET OutputNames
      BY <2>1 DEF PolicyTypeOK, Supported, OutputNames
    <3> QED
      BY <3>1, OutputsAreSpelled DEF Revisions
  <2>2. CASE \E d \in DOMAIN InputName : names = {InputName[d]}
    BY <2>2, InputsAreSpelled DEF Revisions
  <2> QED
    BY <2>1, <2>2 DEF RoutesInUse
<1> QED
  BY <1>1, PolicyTypeCorrect, PTL
=============================================================================
