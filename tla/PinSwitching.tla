---------------------------- MODULE PinSwitching ----------------------------
(***************************************************************************)
(* The pins that the Bluetooth PCM link and the FM I2S link of the         *)
(* wcn2243 chip share (src/audio/HardwarePinSwitching.c).  A pin's mode    *)
(* register holds I2C_NORMAL (the chip drives the pin) or I2C_PIN_CTL (the *)
(* pin is tri-stated); the state is the set of registers that are          *)
(* I2C_NORMAL.  Registers are written one at a time over I2C, and the      *)
(* first write that fails ends the switch.                                 *)
(***************************************************************************)
EXTENDS Integers, Sequences, Functions

CONSTANTS
    BtRegs,     \* the sequence BT_PCM_BCLK_MODE .. BT_PCM_SYNC_MODE
    FmRegs      \* the sequence FM_I2S_SD_MODE .. FM_I2S_SCK_MODE

Pins == SUBSET (Range(BtRegs) \cup Range(FmRegs))

\* marimba_write: one register per write, in order; the first n of a loop.
marimba_write(regs, n) == {regs[i] : i \in {j \in DOMAIN regs : j <= n}}

\* The pins after the first n writes of a switch that moves the registers of
\* "off" to pin control (I2C_PIN_CTL) and then those of "on" to I2C_NORMAL.
AfterWrites(pins, off, on, n) ==
    (pins \ marimba_write(off, n)) \cup marimba_write(on, n - Len(off))

\* One function is enabled before the other is tri-stated.
switch_pinsVariant(pins, mode, mayFail) ==
    LET off == IF mode = "MODE_FM" THEN BtRegs ELSE FmRegs
        on  == IF mode = "MODE_FM" THEN FmRegs ELSE BtRegs
        all == Len(off) + Len(on)
    IN  {(pins \cup marimba_write(on, n)) \ marimba_write(off, n - Len(on)) :
            n \in IF mayFail THEN 0 .. all ELSE {all}}

\* switch_pins: the function that gives the pins up is tri-stated before the
\* other one is enabled.  The outcomes of a switch whose writes may fail are
\* those of its prefixes.
switch_pins(pins, mode, mayFail) ==
    LET off == IF mode = "MODE_FM" THEN BtRegs ELSE FmRegs
        on  == IF mode = "MODE_FM" THEN FmRegs ELSE BtRegs
        all == Len(off) + Len(on)
    IN  {AfterWrites(pins, off, on, n) : n \in IF mayFail THEN 0 .. all ELSE {all}}

\* switch_mode: the bus may fail to open, which writes nothing.
switch_mode(pins, mode, mayFail) ==
    switch_pins(pins, mode, mayFail) \cup (IF mayFail THEN {pins} ELSE {})
=============================================================================
