------------------------------ MODULE Feedback ------------------------------
(***************************************************************************)
(* What the start-of-frame interrupt does for playback (streaming.c):      *)
(* streaming_acg_sample() measures the master clock against the USB frames *)
(* for the feedback endpoint, streaming_sof() restarts the DMA when the    *)
(* buffer no longer holds whole sample frames.                             *)
(*                                                                         *)
(* The counter of the clock, the DMA's pointers and the S/PDIF input are   *)
(* external.  An interrupt handler is one action; a frame that begins      *)
(* before the handler of the last has run is a missed one.  The bench      *)
(* figures over 1024 frames are left out.                                  *)
(***************************************************************************)
EXTENDS Integers

CONSTANTS
    Rates,             \* internal sample rates
    Count,             \* counts of the master clock in a frame, for each rate
    Nominal,           \* the nominal of each rate over a window
    Modulus,           \* 2^16, the counter's
    FB_WINDOW_FRAMES, FB_ARM_EVERY,
    Slack,             \* 2^8, the plausible part of the nominal
    Contents,          \* fill levels of the playback buffer, in bytes
    MaxMissed, MaxChanges   \* bounds on the frames missed and the rates set

SAMPLE_FRAME == 6   \* AUDIO_NUM_CHANNELS * AUDIO_SUBFRAME_BYTES
NoCount == 65535    \* both shadow bytes at their reset value

ASSUME FeedbackAssumption ==
    /\ Rates \subseteq Nat \ {0} /\ Modulus \in Nat \ {0} /\ Slack \in Nat \ {0}
    /\ Count \in [Rates -> Nat \ {0}] /\ Nominal \in [Rates -> Nat \ {0}]
    /\ FB_WINDOW_FRAMES \in Nat \ {0} /\ FB_ARM_EVERY \in Nat \ {0}
    /\ \A c \in Contents : c \in Nat /\ c < NoCount
    /\ MaxMissed \in Nat /\ MaxChanges \in Nat

VARIABLES
    stream_rate,         \* 0 while slaved to the S/PDIF input
    input,               \* the rate of the S/PDIF input
    current,             \* counts the running frame will have
    cap, pending,        \* ACGCAP, latched at each SOF; the SOF interrupt
    acg_prev, acg_primed, fb_sum, fb_frames, fb_nominal, fb_value, fb_arm,
    packet,              \* what the feedback endpoint holds
    playback_running,
    content, slipped,    \* DMABCNT0; the DMA is off by part of a sample frame
    sof_bcnt,            \* the watchdog's shadow of DMABCNT0
    unheard,             \* history: the latched count was off, and the DMA not restarted
    seen,                \* history: an SOF has been served in this stream
    missed, changes

window   == <<acg_prev, acg_primed, fb_sum, fb_frames>>
feedback == <<fb_nominal, fb_value, fb_arm, packet>>
watchdog == <<content, slipped, sof_bcnt, unheard, seen>>
feedbackVars == <<stream_rate, input, current, cap, pending, window, feedback,
          playback_running, watchdog, missed, changes>>

\* The rate the device really runs at when hz is set.
RunsAt(hz) == IF hz = 0 THEN input ELSE hz
Clock == RunsAt(stream_rate)

-----------------------------------------------------------------------------
(* The hardware.                                                           *)

\* A frame begins: the counter and the fill level are latched.
FrameBegins ==
    /\ pending => missed < MaxMissed
    /\ missed' = IF pending THEN missed + 1 ELSE missed
    /\ pending' = TRUE
    /\ cap' = (cap + current) % Modulus
    /\ current' = Count[Clock]
    /\ IF playback_running
       THEN content' \in {c \in Contents : (c % SAMPLE_FRAME # 0) = slipped}
       ELSE UNCHANGED content
    /\ unheard' = (content' % SAMPLE_FRAME # 0)
    /\ UNCHANGED <<stream_rate, input, window, feedback, playback_running, slipped,
                   sof_bcnt, seen, changes>>

\* The DMA loses its place; not again before a whole count has been seen.
Slips ==
    /\ ~slipped /\ slipped' = TRUE
    /\ sof_bcnt = NoCount \/ sof_bcnt % SAMPLE_FRAME = 0
    /\ UNCHANGED <<stream_rate, input, current, cap, pending, window, feedback,
                   playback_running, content, sof_bcnt, unheard, seen, missed, changes>>

-----------------------------------------------------------------------------
(* Control requests.                                                       *)

\* The window in progress is discarded.
DiscardWindow ==
    /\ fb_sum' = 0 /\ fb_frames' = 0 /\ acg_primed' = FALSE
    /\ UNCHANGED acg_prev

\* The clock part of streaming_set_rate(); the frame it falls in has counts of
\* both clocks.  Slaving keeps the standing nominal.
streaming_set_rate(hz) ==
    /\ changes < MaxChanges /\ changes' = changes + 1
    /\ stream_rate' = hz
    /\ \E n \in {current, Count[RunsAt(hz)]} : current' = n
    /\ IF hz = 0 THEN UNCHANGED <<fb_nominal, fb_value>>
       ELSE fb_nominal' = Nominal[hz] /\ fb_value' = Nominal[hz]
    /\ DiscardWindow
    /\ UNCHANGED <<input, cap, pending, fb_arm, packet, playback_running, watchdog, missed>>

\* Mutant: the shadow is kept from the last stream.
KeepsShadow == UNCHANGED sof_bcnt

ResetShadow == sof_bcnt' = NoCount

\* streaming_playback_enable(): opening arms the feedback endpoint at once.
streaming_playback_enable(on) ==
    /\ playback_running' = on /\ seen' = FALSE
    /\ IF on THEN ResetShadow /\ fb_arm' = 0 /\ packet' = fb_value
       ELSE UNCHANGED <<sof_bcnt, fb_arm, packet>>
    /\ UNCHANGED <<stream_rate, input, current, cap, pending, window, fb_nominal,
                   fb_value, content, slipped, unheard, missed, changes>>

-----------------------------------------------------------------------------
(* The start-of-frame interrupt.                                           *)

Plausible(sum) == /\ sum >= fb_nominal - fb_nominal \div Slack
                  /\ sum <= fb_nominal + fb_nominal \div Slack

\* Mutant: the window is one frame longer.
OneFrameMore(delta) ==
    LET sum == fb_sum + delta IN
    IF fb_frames >= FB_WINDOW_FRAMES
    THEN /\ fb_value' = IF Plausible(sum) THEN sum ELSE fb_value
         /\ fb_sum' = 0 /\ fb_frames' = 0
    ELSE fb_sum' = sum /\ fb_frames' = fb_frames + 1 /\ UNCHANGED fb_value

\* A full window is published if it is plausible, and cleared in any case.
Accumulate(delta) ==
    LET sum == fb_sum + delta IN
    IF fb_frames + 1 >= FB_WINDOW_FRAMES
    THEN /\ fb_value' = IF Plausible(sum) THEN sum ELSE fb_value
         /\ fb_sum' = 0 /\ fb_frames' = 0
    ELSE fb_sum' = sum /\ fb_frames' = fb_frames + 1 /\ UNCHANGED fb_value

\* The endpoint is armed on the cadence its descriptor advertises.
Rearm ==
    LET due == fb_arm + 1 >= FB_ARM_EVERY IN
    IF ~playback_running THEN UNCHANGED <<fb_arm, packet>>
    ELSE /\ fb_arm' = IF due THEN 0 ELSE fb_arm + 1
         /\ packet' = IF due THEN fb_value' ELSE packet

\* The first capture after a discard has nothing to be subtracted from.
streaming_acg_sample ==
    /\ acg_prev' = cap /\ acg_primed' = TRUE
    /\ IF acg_primed THEN Accumulate((cap - acg_prev) % Modulus) /\ Rearm
       ELSE UNCHANGED <<fb_sum, fb_frames, fb_value, fb_arm, packet>>
    /\ UNCHANGED fb_nominal

\* Eight sample frames at a time, then one.
Remainder(bytes) ==
    LET rem[n \in 0..bytes] == IF n >= 8 * SAMPLE_FRAME THEN rem[n - 8 * SAMPLE_FRAME]
                               ELSE IF n >= SAMPLE_FRAME THEN rem[n - SAMPLE_FRAME]
                               ELSE n
    IN  rem[bytes]

\* A count that has changed and is not whole restarts the DMA.
streaming_sof ==
    /\ seen' = playback_running
    /\ IF ~playback_running \/ content = sof_bcnt THEN UNCHANGED <<sof_bcnt, slipped, unheard>>
       ELSE /\ sof_bcnt' = content
            /\ IF Remainder(content) = 0 THEN UNCHANGED <<slipped, unheard>>
               ELSE slipped' = FALSE /\ unheard' = FALSE
    /\ UNCHANGED content

usb_isr_sof ==
    /\ pending /\ pending' = FALSE
    /\ streaming_acg_sample /\ streaming_sof
    /\ UNCHANGED <<stream_rate, input, current, cap, playback_running, missed, changes>>

-----------------------------------------------------------------------------
\* After main()'s streaming_set_rate(48000); the input may carry any rate.
FeedbackInit ==
    /\ stream_rate \in Rates /\ input \in Rates /\ current = Count[stream_rate]
    /\ cap = 0 /\ pending = FALSE
    /\ acg_prev = 0 /\ acg_primed = FALSE /\ fb_sum = 0 /\ fb_frames = 0
    /\ fb_nominal = Nominal[stream_rate] /\ fb_value = Nominal[stream_rate]
    /\ fb_arm = 0 /\ packet = Nominal[stream_rate]
    /\ playback_running = FALSE
    /\ content = 0 /\ slipped = FALSE /\ sof_bcnt = NoCount
    /\ unheard = FALSE /\ seen = FALSE
    /\ missed = 0 /\ changes = 0

-----------------------------------------------------------------------------
(* Properties                                                              *)

\* Once rates are no longer changed and frames no longer missed, the packet the
\* host polls is the count of the running clock over a window, exactly, and
\* neither the nominal it was seeded with nor a mixture of two clocks
\* (streaming_acg_sample, streaming_set_rate).
Measured == packet = FB_WINDOW_FRAMES * Count[Clock]
TracksClock == <>[](playback_running /\ stream_rate # 0 => Measured)

\* A stream is never left playing split samples: a count that is not whole has
\* restarted the DMA by the end of the interrupt that read it, in the first
\* frame of a stream as well (streaming_sof, streaming_playback_enable).
NeverSplitsSamples == playback_running /\ seen /\ ~pending => ~unheard
=============================================================================
