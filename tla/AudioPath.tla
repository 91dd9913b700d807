------------------------------ MODULE AudioPath ------------------------------
(***************************************************************************)
(* The audio path of the firmware: sample rate, clock, Selector and        *)
(* Feature Units, the two streams, the codec control word and the panel's  *)
(* lamps, as the control requests of usb.c, the functions of streaming.c,  *)
(* codec.c and cs8427.c, the suspend handler of power.c and a host change  *)
(* them.                                                                   *)
(*                                                                         *)
(* A request handler runs to its end in the interrupt handler and is one   *)
(* action; do_suspend() sleeps half-way and is two.  What an interrupt can *)
(* do to the main loop's half of the panel is in module PanelUpdate.        *)
(***************************************************************************)
EXTENDS Integers

VARIABLES
    g_configured, g_alt,             \* what the host has selected
    g_sample_rate, g_internal_rate,  \* the rate reported, the last internal one
    g_clock_mode,                    \* 1 slaved to S/PDIF, 2 44.1 kHz, 3 48 kHz
    acg_on,                          \* ACGCTL bits 6-7
    word,                            \* g_codec_state_23 and _25
    word_out,                        \* the word the codec latches hold
    g_host_mute, g_path_enabled,     \* directions muted, directions opened
    running,                         \* playback_running, capture_running
    panel,                           \* bits 7 and 6 of g_mux_state
    panel_out,                       \* the bits the panel latches hold
    dma, iso,                        \* DMAEN, and the streaming endpoints' enables
    g_ref_settled, g_cal_done,
    adc,                             \* when the ADC last left reset
    g_work_code,
    power,                           \* "on", "asleep", or "detached" after a resume
    bench                            \* the bench build, with SET_CLOCK and DIAG_MODE

usbState == <<g_configured, g_alt>>
rates    == <<g_sample_rate, g_internal_rate>>
clock    == <<g_clock_mode, acg_on>>
codec    == <<word, word_out>>
mutes    == <<g_host_mute, g_path_enabled>>
panels   == <<panel, panel_out>>
streams  == <<running, dma, iso>>
cal      == <<g_ref_settled, g_cal_done, adc>>
vars == <<usbState, rates, clock, codec, mutes, panels, streams, cal,
          g_work_code, power, bench>>

Dirs  == {"playback", "capture"}
Rates == {0, 44100, 48000}     \* 0: slaved to the S/PDIF input

Word  == [spdif : BOOLEAN,     \* 0x25.4
          done  : BOOLEAN,     \* 0x25.6, the bring-up guard
          reset : BOOLEAN,     \* 0x23.4, TRUE when released
          pair  : SUBSET Dirs] \* 0x23.3 and 0x23.2
Panel == [streaming : BOOLEAN, analog : BOOLEAN]   \* bit 7 low, bit 6 high

TypeOK ==
    /\ g_configured \in BOOLEAN /\ g_alt \in [Dirs -> 0..1]
    /\ g_sample_rate \in Rates /\ g_internal_rate \in Rates \ {0}
    /\ g_clock_mode \in 1..3 /\ acg_on \in BOOLEAN
    /\ word \in Word /\ word_out \in Word
    /\ g_host_mute \in SUBSET Dirs /\ g_path_enabled \in SUBSET Dirs
    /\ panel \in Panel /\ panel_out \in Panel
    /\ running \in [Dirs -> BOOLEAN]
    /\ dma \in [Dirs -> BOOLEAN] /\ iso \in [Dirs -> BOOLEAN]
    /\ g_ref_settled \in BOOLEAN /\ g_cal_done \in BOOLEAN
    /\ adc \in {"held", "early", "settled"}
    /\ g_work_code \in {"NONE", "BRINGUP", "SUSPEND"}
    /\ power \in {"on", "asleep", "detached"} /\ bench \in BOOLEAN

-----------------------------------------------------------------------------
(* The codec word.  0x23.2 is the ADC's reset: publishing it low holds the *)
(* converter, the rising edge starts its calibration.                      *)

\* codec_write_word(): w is shifted out and latched.
Publish(w) == word' = w /\ word_out' = w

\* What the ADC sees when the pair changes from `before' to `after'.
AdcAfter(before, after) ==
    CASE "capture" \notin after -> "held"
      [] "capture" \in after /\ "capture" \in before -> adc
      [] OTHER -> IF g_ref_settled THEN "settled" ELSE "early"

\* Mutant: an unmute raises the muted paths' bits too.
RaiseAll(enabled, muted) == enabled

\* The pair is what is enabled and not muted.
Raised(enabled, muted) == enabled \ muted

codec_apply_mute ==
    LET pair == Raised(g_path_enabled, g_host_mute') IN
    /\ Publish([word EXCEPT !.pair = pair])
    /\ adc' = AdcAfter(word_out.pair, pair)

\* Bring the external chips out of reset, once: the guard is a bit of the word.
cs8427_boot_init ==
    IF word.done THEN UNCHANGED codec
    ELSE Publish([word EXCEPT !.done = TRUE, !.reset = TRUE])

-----------------------------------------------------------------------------
(* Clock and rate.                                                         *)

Mode(hz) == CASE hz = 0 -> 1 [] hz = 44100 -> 2 [] OTHER -> 3

\* Mutant: a calibration is latched as good whenever it was taken.
LatchEarly == TRUE

\* The calibration this call starts stands if the reference had settled.
LatchCalibration == g_cal_done \/ g_ref_settled

\* streaming_set_rate(hz), with w the word the caller leaves.  Until a
\* calibration stands the pair is published low first, so the ADC starts one.
streaming_set_rate(hz, w) ==
    LET pair   == Raised(Dirs, g_host_mute)
        before == IF g_cal_done THEN word_out.pair ELSE {}
    IN  /\ g_clock_mode' = Mode(hz)
        /\ acg_on' = TRUE
        /\ iso' = [d \in Dirs |-> TRUE]
        /\ g_path_enabled' = Dirs
        /\ g_cal_done' = LatchCalibration
        /\ adc' = AdcAfter(before, pair)
        /\ Publish([w EXCEPT !.pair = pair])

-----------------------------------------------------------------------------
(* Control requests, from an attached and addressed device's host.         *)

Online == power = "on"

handle_set_configuration(v) ==
    /\ Online
    /\ g_configured' = (v = 1)
    /\ UNCHANGED <<g_alt, rates, clock, codec, mutes, panels, streams, cal,
                   g_work_code, power, bench>>

\* Panel bit 7: lit while either direction runs; shifted out on a change.
panel_update_streaming ==
    /\ panel' = [panel EXCEPT !.streaming = \E d \in Dirs : running'[d]]
    /\ panel_out' = IF panel' # panel THEN panel' ELSE panel_out

\* SET_INTERFACE with streaming_playback_enable or streaming_capture_enable.
handle_set_interface(d, alt) ==
    LET on == alt # 0 IN
        /\ Online
        /\ g_alt' = [g_alt EXCEPT ![d] = alt]
        /\ running' = [running EXCEPT ![d] = on]
        /\ panel_update_streaming
        /\ IF on THEN cs8427_boot_init ELSE UNCHANGED codec
        /\ dma' = [dma EXCEPT ![d] = on]
        /\ iso' = [iso EXCEPT ![d] = on]
        /\ g_work_code' = IF on THEN "BRINGUP" ELSE g_work_code
        /\ UNCHANGED <<g_configured, rates, clock, mutes, cal, power, bench>>

\* Mutant: rate zero, too, replaces the internal rate.
LastRate(hz) == hz

\* The last internal rate; zero slaves the clock and leaves it alone.
InternalRate(hz) == IF hz = 0 THEN g_internal_rate ELSE hz

\* Mutant: a new rate starts its own clock whatever the Selector says.
ClockOfRate(hz) == hz

\* SET_CUR(sampling frequency): while S/PDIF is selected the clock stays slaved.
ClockFor(hz) == IF word.spdif THEN 0 ELSE hz

SetSampleFreq(hz) ==
    /\ Online
    /\ g_sample_rate' = hz
    /\ g_internal_rate' = InternalRate(hz)
    /\ streaming_set_rate(ClockFor(hz), word)
    /\ UNCHANGED <<usbState, g_host_mute, panels, running, dma, g_ref_settled,
                   g_work_code, power, bench>>

\* Mutant: the Selector changes the word and leaves panel bit 6 alone.
LampIgnoresSource(p, spdif) == p

\* codec_source_changed(): panel bit 6 lit when no S/PDIF bit is set.
codec_source_changed(p, spdif) == [p EXCEPT !.analog = ~spdif]

\* The Selector changes the word and both shift chains and then the clock.
selector_set_source(spdif, hz) ==
    /\ panel' = codec_source_changed(panel, spdif) /\ panel_out' = panel'
    /\ streaming_set_rate(hz, [word EXCEPT !.spdif = spdif])

\* The clock the analog position restores.
RestoredRate == g_internal_rate

selector_apply_position(spdif) ==
    /\ Online
    /\ selector_set_source(spdif, IF spdif THEN 0 ELSE RestoredRate)
    /\ UNCHANGED <<usbState, rates, g_host_mute, running, dma, g_ref_settled,
                   g_work_code, power, bench>>

\* Bench: SET_CLOCK applies the Selector first and its own rate after it, or
\* the rate alone when wIndex names no source.
handle_set_clock(hz, source) ==
    /\ bench /\ Online
    /\ g_sample_rate' = hz
    /\ g_internal_rate' = InternalRate(hz)
    /\ \/ source # "same" /\ selector_set_source(source = "spdif", hz)
       \/ source = "same" /\ streaming_set_rate(hz, word) /\ UNCHANGED panels
    /\ UNCHANGED <<usbState, g_host_mute, running, dma, g_ref_settled,
                   g_work_code, power, bench>>

SetMute(d, on) ==
    /\ Online
    /\ g_host_mute' = IF on THEN g_host_mute \cup {d} ELSE g_host_mute \ {d}
    /\ codec_apply_mute
    /\ UNCHANGED <<usbState, rates, clock, g_path_enabled, panels, streams,
                   g_ref_settled, g_cal_done, g_work_code, power, bench>>

\* Bench: DIAG_MODE makes the next stream open calibrate again.
handle_diag_mode ==
    /\ bench /\ Online
    /\ g_cal_done' = FALSE
    /\ UNCHANGED <<usbState, rates, clock, codec, mutes, panels, streams,
                   g_ref_settled, adc, g_work_code, power, bench>>

-----------------------------------------------------------------------------
(* Bus events, SOF, the main loop and suspend.                             *)

\* A bus reset touches the USB state only.  It is also how the host meets a
\* device that has detached and come back.
BusReset ==
    /\ power # "asleep"
    /\ g_configured' = FALSE /\ g_alt' = [d \in Dirs |-> 0]
    /\ power' = "on"
    /\ UNCHANGED <<rates, clock, codec, mutes, panels, streams, cal, g_work_code,
                   bench>>

\* streaming_sof(): when playback runs and DMA content is not a whole number
\* of frames, the channel and the endpoint are started again.
streaming_sof ==
    /\ Online /\ running["playback"]
    /\ dma' = [dma EXCEPT !["playback"] = TRUE]
    /\ iso' = [iso EXCEPT !["playback"] = TRUE]
    /\ UNCHANGED <<usbState, rates, clock, codec, mutes, panels, running, cal,
                   g_work_code, power, bench>>

\* The main loop sees 30 000 frames and trusts the reference.
RefSettles ==
    /\ power # "asleep" /\ ~g_ref_settled
    /\ g_ref_settled' = TRUE
    /\ UNCHANGED <<usbState, rates, clock, codec, mutes, panels, streams,
                   g_cal_done, adc, g_work_code, power, bench>>

\* The bus goes idle (VEC_SUSR).
SuspendIrq ==
    /\ Online
    /\ g_work_code' = "SUSPEND"
    /\ UNCHANGED <<usbState, rates, clock, codec, mutes, panels, streams, cal, power, bench>>

work_bringup ==
    /\ power # "asleep" /\ g_work_code = "BRINGUP"
    /\ cs8427_boot_init
    /\ g_work_code' = "NONE"
    /\ UNCHANGED <<usbState, rates, clock, mutes, panels, streams, cal, power, bench>>

\* An unconfigured device drops the request.
suspend_ignored ==
    /\ power # "asleep" /\ g_work_code = "SUSPEND" /\ ~g_configured
    /\ g_work_code' = "NONE"
    /\ UNCHANGED <<usbState, rates, clock, codec, mutes, panels, streams, cal, power, bench>>

WordOff  == [spdif |-> FALSE, done |-> FALSE, reset |-> FALSE, pair |-> {}]
PanelOff == [streaming |-> FALSE, analog |-> TRUE]

BlankPanel == panel' = PanelOff /\ panel_out' = PanelOff

\* Mutant: the suspend keeps the bring-up guard.
WordGuardKept == [WordOff EXCEPT !.done = word.done]

WordAtSuspend == WordOff

\* do_suspend() up to the idle instruction: clocks off, codec word zero,
\* panel blank.
do_suspend ==
    /\ power # "asleep" /\ g_work_code = "SUSPEND" /\ g_configured
    /\ acg_on' = FALSE
    /\ Publish(WordAtSuspend) /\ adc' = "held"
    /\ BlankPanel
    /\ power' = "asleep"
    /\ UNCHANGED <<usbState, rates, g_clock_mode, mutes, streams, g_ref_settled,
                   g_cal_done, g_work_code, bench>>

\* ... and after it: detach, hw_init() (which clears both DMAEN bits and
\* writes the panel), usb_ep0_setup(), attach.
resume ==
    /\ power = "asleep"
    /\ dma' = [d \in Dirs |-> FALSE]
    /\ BlankPanel
    /\ g_work_code' = "NONE"
    /\ power' = "detached"
    /\ UNCHANGED <<usbState, rates, clock, codec, mutes, running, iso, cal, bench>>

-----------------------------------------------------------------------------
\* The main loop's first pass: codec_init(), cs8427_boot_init() and
\* streaming_set_rate(48000) have run.
Init ==
    /\ g_configured = FALSE /\ g_alt = [d \in Dirs |-> 0]
    /\ g_sample_rate = 48000 /\ g_internal_rate = 48000
    /\ g_clock_mode = 3 /\ acg_on = TRUE
    /\ word = [spdif |-> FALSE, done |-> TRUE, reset |-> TRUE, pair |-> Dirs]
    /\ word_out = word
    /\ g_host_mute = {} /\ g_path_enabled = Dirs
    /\ panel = PanelOff /\ panel_out = PanelOff
    /\ running = [d \in Dirs |-> FALSE]
    /\ dma = [d \in Dirs |-> FALSE] /\ iso = [d \in Dirs |-> TRUE]
    /\ g_ref_settled = FALSE /\ g_cal_done = FALSE /\ adc = "early"
    /\ g_work_code = "NONE" /\ power = "on"
    /\ bench \in BOOLEAN

HostRequest ==
    \/ \E v \in 0..1 : handle_set_configuration(v)
    \/ \E d \in Dirs, alt \in 0..1 : handle_set_interface(d, alt)
    \/ \E hz \in Rates : SetSampleFreq(hz)
    \/ \E spdif \in BOOLEAN : selector_apply_position(spdif)
    \/ \E hz \in Rates, source \in {"analog", "spdif", "same"} : handle_set_clock(hz, source)
    \/ \E d \in Dirs, on \in BOOLEAN : SetMute(d, on)
    \/ handle_diag_mode

Next ==
    \/ HostRequest
    \/ BusReset
    \/ streaming_sof
    \/ RefSettles
    \/ SuspendIrq
    \/ work_bringup
    \/ suspend_ignored
    \/ do_suspend
    \/ resume

Spec == Init /\ [][Next]_vars

-----------------------------------------------------------------------------
(* Properties                                                              *)

\* When the host has selected a stream everything it needs is up: its DMA
\* channel and its endpoint are enabled, the chips are out of reset and the
\* panel's lamp is lit -- after a suspend, after any mix of rate, source and
\* mute changes, and whatever the other stream does (SET_INTERFACE,
\* streaming_*_enable, cs8427_boot_init).
StreamReady ==
    Online => \A d \in Dirs : g_alt[d] = 1 =>
        running[d] /\ dma[d] /\ iso[d] /\ word_out.reset /\ panel_out.streaming

\* Whatever the host mutes stays silent, through rate changes, reopened
\* streams, resets and suspends: no word ever latched raises a muted path
\* (g_host_mute in streaming_set_rate and codec_apply_mute).
MuteRespected == word_out.pair \cap g_host_mute = {}

\* The two shift chains agree: each latch holds the variable it was shifted
\* from, and the panel's analog lamp shows the source the codec word routes
\* (codec_source_changed; every path that changes one publishes both).
LatchesAgree ==
    /\ word_out = word /\ panel_out = panel
    /\ panel_out.analog = ~word_out.spdif

\* A calibration latched as the one for the whole power-up was taken after
\* the reference settled (g_cal_done, streaming.c).
CalibrationStands == g_cal_done /\ adc # "held" => adc = "settled"

\* Release build: while the S/PDIF input is routed the clock is slaved to it,
\* whatever rates the host sets in between (selector_set_source and the
\* SET_CUR rate arm of VEC_OEP0).
SlavedWhileSpdif == ~bench /\ word_out.spdif => g_clock_mode = 1

\* From any rate change to the next suspend the pair is the pure function of
\* the paths enabled and the paths muted that codec_apply_mute's comment
\* makes it, though it has three writers.
PairIsPure == acg_on => word_out.pair = g_path_enabled \ g_host_mute

\* With the analog source routed and the clocks on, the converters run at the
\* rate the device reports, also after an excursion to S/PDIF
\* (g_internal_rate).
ReportedRateRuns ==
    acg_on /\ ~word_out.spdif /\ g_sample_rate # 0
        => g_clock_mode = Mode(g_sample_rate)
=============================================================================
