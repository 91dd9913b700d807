------------------------------ MODULE StockAudio ------------------------------
(***************************************************************************)
(* The audio side of Digidesign's Rev 22 firmware, on its main loop of     *)
(* StockEvents: what each command does to the two shift-register chains    *)
(* and to the master clock outputs.  Chain B carries the resets and mutes  *)
(* of the external chips, the routed source and the bit that says the      *)
(* chips have been set up; chain A the panel, of which the recording lamp  *)
(* is kept.                                                                *)
(*                                                                         *)
(* A command runs in the main loop, no interrupt handler touches a chain,  *)
(* and the chips see it from its end on: a command is one action.  The     *)
(* sample rate, the CS8427's registers, the other lamps, the clock forced  *)
(* by the self-test and the mono bit are left out.                         *)
(***************************************************************************)
EXTENDS StockEvents

VARIABLES
    word, word_out,     \* chain B: IRAM 0x23 and 0x25, and what the latch holds
    panel, panel_out,   \* chain A: the recording lamp in IRAM 0x22, and its latch
    mclko               \* ACGCTL bits 6 and 7: master clock outputs on

chains == <<word, word_out, panel, panel_out, mclko>>

\* up: both converters unmuted; reset: the external reset released.
Parked  == [up |-> FALSE, reset |-> FALSE, spdif |-> FALSE]
Brought == [Parked EXCEPT !.up = TRUE, !.reset = TRUE]

\* shiftreg_out16_p1; the bring-up bit is in the word it shifts.
shiftreg_out16_p1(w) == word' = w /\ word_out' = [w |-> w, ready |-> f_ext_ready']

\* shiftreg_out8_p1hi
shiftreg_out8_p1hi(p) == panel' = p /\ panel_out' = p

-----------------------------------------------------------------------------
(* What the commands are made of.                                          *)

\* audio_hw_bringup, which every caller skips once the chips are set up.
BroughtUp == IF f_ext_ready THEN word ELSE Brought

\* Mutant: the converters stay muted after the clock has changed.
LeftMuted(w) == shiftreg_out16_p1([w EXCEPT !.up = FALSE]) /\ mclko' = TRUE

\* audio_clock_set_mode: muted, reclocked, clock outputs on, unmuted.
audio_clock_set_mode(w) == shiftreg_out16_p1([w EXCEPT !.up = TRUE]) /\ mclko' = TRUE

\* Chips set up on the first configuration; an unconfigured device forgets
\* that they are.
Cmd1Audio ==
    LET first == job.configured /\ ~job.capture /\ ~job.playback IN
    /\ \/ first /\ shiftreg_out16_p1(BroughtUp) /\ mclko' = (mclko \/ ~f_ext_ready)
       \/ ~job.configured /\ shiftreg_out16_p1(word) /\ UNCHANGED mclko
       \/ job.configured /\ ~first /\ UNCHANGED <<word, word_out, mclko>>
    /\ UNCHANGED <<panel, panel_out>>

\* Opening capture returns to the analog source and lights the recording lamp.
Cmd2Audio ==
    \/ /\ job.configured /\ job.capture
       /\ shiftreg_out8_p1hi(TRUE)
       /\ audio_clock_set_mode([BroughtUp EXCEPT !.spdif = FALSE])
    \/ /\ job.configured /\ ~job.capture
       /\ shiftreg_out8_p1hi(FALSE)
       /\ UNCHANGED <<word, word_out, mclko>>
    \/ ~job.configured /\ UNCHANGED chains

Cmd3Audio ==
    \/ /\ job.configured /\ job.playback
       /\ audio_clock_set_mode(BroughtUp)
       /\ UNCHANGED <<panel, panel_out>>
    \/ ~(job.configured /\ job.playback) /\ UNCHANGED chains

\* Mutant: the source changes in the word after it has been shifted out.
SourceUnpushed(spdif) ==
    /\ word' = [word EXCEPT !.up = TRUE, !.spdif = spdif]
    /\ word_out' = [w |-> [word EXCEPT !.up = TRUE], ready |-> f_ext_ready'] /\ mclko' = TRUE
    /\ UNCHANGED <<panel, panel_out>>

\* Events 4 and 5: the analog or the S/PDIF source, then the clock, which
\* shifts it out.
Source(spdif) ==
    audio_clock_set_mode([word EXCEPT !.spdif = spdif]) /\ shiftreg_out8_p1hi(panel)

\* Events 6, 7, 8 and 12: a rate, or none.
Rate == audio_clock_set_mode(word) /\ UNCHANGED <<panel, panel_out>>

\* Which setting it is was decided by the data the host sent; event 13, the
\* boot EEPROM invalidated, leaves the audio alone.
SettingAudio ==
    \/ Rate
    \/ Does(Setting) /\ \E spdif \in BOOLEAN : Source(spdif)
    \/ Does(Setting) /\ UNCHANGED chains

\* The self-test runs the chips at 48 kHz.
Cmd11Audio == audio_clock_set_mode(BroughtUp) /\ shiftreg_out8_p1hi(panel)

\* A button press shifts out both chains as they are.
PressAudio ==
    shiftreg_out8_p1hi(panel) /\ shiftreg_out16_p1(word) /\ UNCHANGED mclko

\* cmd14 up to the idle instruction; hw_clock_codec_init after it parks the
\* chains again, with ACGCTL = 6.
ParkAudio == shiftreg_out16_p1(Parked) /\ shiftreg_out8_p1hi(FALSE) /\ mclko' = FALSE

-----------------------------------------------------------------------------
\* The commands of StockEvents with their audio.
CommandsWithAudio ==
    \/ cmd1_apply_clock_mode /\ Cmd1Audio
    \/ cmd2_apply_iface1_alt /\ Cmd2Audio
    \/ cmd3_apply_iface2_alt /\ Cmd3Audio
    \/ SettingCommands /\ SettingAudio
    \/ cmd11_eeprom_selftest /\ Cmd11Audio
    \/ SuspendIgnored /\ UNCHANGED chains
    \/ SuspendParks /\ ParkAudio
    \/ SuspendWakes /\ ParkAudio
    \/ SuspendEnds /\ UNCHANGED chains

AudioLoop ==
    \/ ServeTick /\ (PressAudio \/ UNCHANGED chains)
    \/ usb_deferred_action_dispatch /\ UNCHANGED chains
    \/ CommandsWithAudio

AudioInit ==
    /\ Init
    /\ word = Parked /\ word_out = [w |-> Parked, ready |-> FALSE]
    /\ panel = FALSE /\ panel_out = FALSE
    /\ mclko = FALSE

AudioNext == (Interrupts /\ UNCHANGED chains) \/ AudioLoop

AudioVars == <<vars, chains>>
AudioSpec ==
    /\ AudioInit /\ [][AudioNext]_AudioVars
    /\ WF_AudioVars(AudioLoop)
    /\ SF_AudioVars(usb_deferred_action_dispatch /\ UNCHANGED chains)

-----------------------------------------------------------------------------
(* Properties                                                              *)

\* With nothing pending and nothing lost, an open stream can be heard: the
\* chips are set up, out of reset and unmuted on the latch, not only in RAM,
\* and clocked; the lamp shows a recording.  That holds through suspends,
\* reconfigurations and self-tests (f_ext_ready, audio_hw_bringup, cmd1-cmd3).
StreamAudible ==
    pc = "loop" /\ g_event = 0 /\ f_configured /\ lost = {} =>
        /\ f_iface1_alt \/ f_iface2_alt =>
              word_out.ready /\ word_out.w.reset /\ word_out.w.up /\ mclko
        /\ f_iface1_alt => panel_out

\* Between commands each latch holds the variable it was shifted from, the
\* bring-up bit included: no command leaves a change behind that the next
\* publish of another would show (shiftreg_out16_p1, shiftreg_out8_p1hi).
ChainsAgree ==
    Idle => panel_out = panel /\ word_out = [w |-> word, ready |-> f_ext_ready]
===============================================================================
