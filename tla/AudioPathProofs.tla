--------------------------- MODULE AudioPathProofs ---------------------------
(***************************************************************************)
(* The safety of the audio path, proved from its handlers' definitions.    *)
(*                                                                         *)
(* The actions that touch the codec word share four operators, so the      *)
(* lemmas are about these: what each makes of the word, the ADC and the    *)
(* panel.  Each theorem then goes through the actions once.                *)
(***************************************************************************)
EXTENDS AudioPath, TLAPS

-----------------------------------------------------------------------------
(* Type correctness.                                                       *)

LEMMA WordType ==
    ASSUME NEW w \in Word, NEW pair \in SUBSET Dirs, NEW b \in BOOLEAN
    PROVE  /\ [w EXCEPT !.pair = pair] \in Word
           /\ [w EXCEPT !.spdif = b] \in Word
           /\ [w EXCEPT !.done = TRUE, !.reset = TRUE] \in Word
  BY DEF Word

LEMMA AdcType ==
    ASSUME TypeOK, NEW before, NEW after
    PROVE  AdcAfter(before, after) \in {"held", "early", "settled"}
  BY DEF TypeOK, AdcAfter

\* streaming_set_rate() leaves everything it assigns in its type.
LEMMA SetRateType ==
    ASSUME TypeOK, NEW hz \in Rates, NEW w \in Word, streaming_set_rate(hz, w)
    PROVE  /\ g_clock_mode' \in 1..3 /\ acg_on' \in BOOLEAN
           /\ word' \in Word /\ word_out' \in Word
           /\ g_path_enabled' \in SUBSET Dirs /\ iso' \in [Dirs -> BOOLEAN]
           /\ g_cal_done' \in BOOLEAN
           /\ adc' \in {"held", "early", "settled"}
  <1>1. Raised(Dirs, g_host_mute) \in SUBSET Dirs
    BY DEF Raised
  <1>2. word' \in Word /\ word_out' \in Word
    BY <1>1, WordType DEF streaming_set_rate, Publish
  <1>3. adc' \in {"held", "early", "settled"}
    BY AdcType DEF streaming_set_rate
  <1>4. g_cal_done' \in BOOLEAN
    BY DEF streaming_set_rate, LatchCalibration, TypeOK
  <1>5. g_clock_mode' \in 1..3
    BY DEF streaming_set_rate, Mode
  <1> QED
    BY <1>2, <1>3, <1>4, <1>5 DEF streaming_set_rate

\* Every variable keeps its type (all handlers of the audio path).
THEOREM TypeCorrect == Spec => []TypeOK
  <1>1. Init => TypeOK
    <2> SUFFICES ASSUME Init
                 PROVE  TypeOK
      OBVIOUS
    <2>1. word \in Word /\ word_out \in Word
      BY DEF Init, Word
    <2>2. panel \in Panel /\ panel_out \in Panel
      BY DEF Init, Panel, PanelOff
    <2>3. /\ g_alt \in [Dirs -> 0..1] /\ running \in [Dirs -> BOOLEAN]
          /\ dma \in [Dirs -> BOOLEAN] /\ iso \in [Dirs -> BOOLEAN]
      BY DEF Init
    <2>4. /\ g_configured \in BOOLEAN /\ acg_on \in BOOLEAN
          /\ g_ref_settled \in BOOLEAN /\ g_cal_done \in BOOLEAN
      <3>1. g_configured = FALSE /\ acg_on = TRUE
        BY DEF Init
      <3>2. g_ref_settled = FALSE /\ g_cal_done = FALSE
        BY DEF Init
      <3> QED
        BY <3>1, <3>2, Zenon
    <2>5. /\ g_sample_rate \in Rates /\ g_internal_rate \in Rates \ {0}
          /\ g_clock_mode \in 1..3
      <3>1. g_sample_rate = 48000 /\ g_internal_rate = 48000 /\ g_clock_mode = 3
        BY DEF Init
      <3> QED
        BY <3>1 DEF Rates
    <2>6. /\ g_host_mute \in SUBSET Dirs /\ g_path_enabled \in SUBSET Dirs
          /\ adc \in {"held", "early", "settled"}
          /\ g_work_code \in {"NONE", "BRINGUP", "SUSPEND"}
          /\ power \in {"on", "asleep", "detached"} /\ bench \in BOOLEAN
      BY DEF Init
    <2> QED
      BY <2>1, <2>2, <2>3, <2>4, <2>5, <2>6 DEF TypeOK
  <1>2. TypeOK /\ [Next]_vars => TypeOK'
    <2> SUFFICES ASSUME TypeOK, [Next]_vars
                 PROVE  TypeOK'
      OBVIOUS
    <2>1. ASSUME NEW v \in 0..1, handle_set_configuration(v)
          PROVE  TypeOK'
      BY <2>1 DEF handle_set_configuration, TypeOK, rates, clock, codec, mutes,
                  panels, streams, cal
    <2>2. ASSUME NEW d \in Dirs, NEW alt \in 0..1, handle_set_interface(d, alt)
          PROVE  TypeOK'
      <3>1. word' \in Word /\ word_out' \in Word
        BY <2>2, WordType DEF handle_set_interface, cs8427_boot_init, Publish,
                              codec, TypeOK
      <3>2. panel' \in Panel /\ panel_out' \in Panel
        BY <2>2 DEF handle_set_interface, panel_update_streaming, TypeOK, Panel
      <3> QED
        BY <2>2, <3>1, <3>2 DEF handle_set_interface, TypeOK, rates, clock,
                                mutes, cal
    <2>3. ASSUME NEW hz \in Rates, SetSampleFreq(hz)
          PROVE  TypeOK'
      <3>1. ClockFor(hz) \in Rates /\ InternalRate(hz) \in Rates \ {0}
        BY DEF ClockFor, InternalRate, Rates, TypeOK
      <3>2. streaming_set_rate(ClockFor(hz), word) /\ word \in Word
        BY <2>3 DEF SetSampleFreq, TypeOK
      <3> QED
        BY <2>3, <3>1, <3>2, SetRateType
           DEF SetSampleFreq, TypeOK, usbState, panels
    <2>4. ASSUME NEW hz \in Rates, NEW spdif \in BOOLEAN, selector_set_source(spdif, hz)
          PROVE  /\ g_clock_mode' \in 1..3 /\ acg_on' \in BOOLEAN
                 /\ word' \in Word /\ word_out' \in Word
                 /\ g_path_enabled' \in SUBSET Dirs /\ iso' \in [Dirs -> BOOLEAN]
                 /\ g_cal_done' \in BOOLEAN
                 /\ adc' \in {"held", "early", "settled"}
                 /\ panel' \in Panel /\ panel_out' \in Panel
      <3>1. [word EXCEPT !.spdif = spdif] \in Word
        BY WordType DEF TypeOK
      <3>2. panel' \in Panel /\ panel_out' \in Panel
        BY <2>4 DEF selector_set_source, codec_source_changed, TypeOK, Panel
      <3> QED
        BY <2>4, <3>1, <3>2, SetRateType DEF selector_set_source
    <2>5. ASSUME NEW spdif \in BOOLEAN, selector_apply_position(spdif)
          PROVE  TypeOK'
      <3>1. /\ (IF spdif THEN 0 ELSE RestoredRate) \in Rates
            /\ selector_set_source(spdif, IF spdif THEN 0 ELSE RestoredRate)
        BY <2>5 DEF selector_apply_position, RestoredRate, Rates, TypeOK
      <3> QED
        BY <2>4, <2>5, <3>1 DEF selector_apply_position, TypeOK, usbState, rates
    <2>6. ASSUME NEW hz \in Rates, NEW source \in {"analog", "spdif", "same"},
                 handle_set_clock(hz, source)
          PROVE  TypeOK'
      <3>1. InternalRate(hz) \in Rates \ {0}
        BY DEF InternalRate, Rates, TypeOK
      <3>2. CASE selector_set_source(source = "spdif", hz)
        <4>1. (source = "spdif") \in BOOLEAN
          OBVIOUS
        <4> QED
          BY <2>4, <2>6, <3>1, <3>2, <4>1 DEF handle_set_clock, TypeOK, usbState
      <3>3. CASE streaming_set_rate(hz, word) /\ UNCHANGED panels
        <4>1. word \in Word
          BY DEF TypeOK
        <4> QED
          BY <2>6, <3>1, <3>3, <4>1, SetRateType
             DEF handle_set_clock, TypeOK, usbState, panels
      <3> QED
        BY <2>6, <3>2, <3>3 DEF handle_set_clock
    <2>7. ASSUME NEW d \in Dirs, NEW on \in BOOLEAN, SetMute(d, on)
          PROVE  TypeOK'
      <3>1. g_host_mute' \in SUBSET Dirs
        BY <2>7 DEF SetMute, TypeOK
      <3>2. Raised(g_path_enabled, g_host_mute') \in SUBSET Dirs
        BY DEF Raised, TypeOK
      <3>3. word' \in Word /\ word_out' \in Word
        BY <2>7, <3>2, WordType DEF SetMute, codec_apply_mute, Publish, TypeOK
      <3>4. adc' \in {"held", "early", "settled"}
        BY <2>7, AdcType DEF SetMute, codec_apply_mute
      <3> QED
        BY <2>7, <3>1, <3>3, <3>4 DEF SetMute, TypeOK, usbState, rates, clock,
                                      panels, streams
    <2>8. CASE handle_diag_mode
      BY <2>8 DEF handle_diag_mode, TypeOK, usbState, rates, clock, codec, mutes,
                  panels, streams
    <2>9. CASE BusReset
      <3>1. g_alt' \in [Dirs -> 0..1]
        BY <2>9 DEF BusReset
      <3> QED
        BY <2>9, <3>1 DEF BusReset, TypeOK, rates, clock, codec, mutes, panels,
                          streams, cal
    <2>10. CASE streaming_sof
      BY <2>10 DEF streaming_sof, TypeOK, usbState, rates, clock, codec, mutes,
                   panels, cal
    <2>11. CASE RefSettles
      BY <2>11 DEF RefSettles, TypeOK, usbState, rates, clock, codec, mutes,
                   panels, streams
    <2>12. CASE SuspendIrq
      BY <2>12 DEF SuspendIrq, TypeOK, usbState, rates, clock, codec, mutes,
                   panels, streams, cal
    <2>13. CASE work_bringup
      <3>1. word' \in Word /\ word_out' \in Word
        BY <2>13, WordType DEF work_bringup, cs8427_boot_init, Publish, codec, TypeOK
      <3> QED
        BY <2>13, <3>1 DEF work_bringup, TypeOK, usbState, rates, clock, mutes,
                           panels, streams, cal
    <2>14. CASE suspend_ignored
      BY <2>14 DEF suspend_ignored, TypeOK, usbState, rates, clock, codec, mutes,
                   panels, streams, cal
    <2>15. CASE do_suspend
      BY <2>15 DEF do_suspend, TypeOK, Publish, WordAtSuspend, WordOff, Word,
                   BlankPanel, PanelOff, Panel, usbState, rates, mutes, streams
    <2>16. CASE resume
      BY <2>16 DEF resume, TypeOK, BlankPanel, PanelOff, Panel, usbState, rates,
                   clock, codec, mutes, cal
    <2>17. CASE UNCHANGED vars
      BY <2>17 DEF TypeOK, vars, usbState, rates, clock, codec, mutes, panels,
                   streams, cal
    <2> QED
      BY <2>1, <2>2, <2>3, <2>5, <2>6, <2>7, <2>8, <2>9, <2>10, <2>11, <2>12,
         <2>13, <2>14, <2>15, <2>16, <2>17 DEF Next, HostRequest
  <1> QED
    BY <1>1, <1>2, PTL DEF Spec

-----------------------------------------------------------------------------
(* What the shared operators make of the codec word.                       *)

LEMMA SetRateWord ==
    ASSUME NEW hz, NEW w \in Word, streaming_set_rate(hz, w)
    PROVE  /\ word_out' = word'
           /\ word'.spdif = w.spdif /\ word'.done = w.done /\ word'.reset = w.reset
           /\ word'.pair = Dirs \ g_host_mute
  BY DEF streaming_set_rate, Publish, Raised, Word

LEMMA SelectorWord ==
    ASSUME TypeOK, NEW hz, NEW spdif \in BOOLEAN, selector_set_source(spdif, hz)
    PROVE  /\ word_out' = word'
           /\ word'.spdif = spdif /\ word'.done = word.done /\ word'.reset = word.reset
           /\ word'.pair = Dirs \ g_host_mute
           /\ panel_out' = panel' /\ panel'.analog = ~spdif
           /\ panel'.streaming = panel.streaming
  <1>1. /\ [word EXCEPT !.spdif = spdif] \in Word
        /\ streaming_set_rate(hz, [word EXCEPT !.spdif = spdif])
    BY WordType DEF selector_set_source, TypeOK
  <1>2. /\ [word EXCEPT !.spdif = spdif].spdif = spdif
        /\ [word EXCEPT !.spdif = spdif].done = word.done
        /\ [word EXCEPT !.spdif = spdif].reset = word.reset
    BY DEF TypeOK, Word
  <1>3. /\ panel_out' = panel' /\ panel'.analog = ~spdif
        /\ panel'.streaming = panel.streaming
    BY DEF selector_set_source, codec_source_changed, TypeOK, Panel
  <1> QED
    BY <1>1, <1>2, <1>3, SetRateWord

LEMMA BootInitWord ==
    ASSUME TypeOK, word_out = word, cs8427_boot_init
    PROVE  /\ word_out' = word'
           /\ word'.spdif = word.spdif /\ word'.pair = word.pair /\ word'.done
           /\ word'.reset = (word.reset \/ ~word.done)
  BY DEF cs8427_boot_init, Publish, codec, TypeOK, Word

LEMMA MuteWord ==
    ASSUME TypeOK, codec_apply_mute
    PROVE  /\ word_out' = word'
           /\ word'.spdif = word.spdif /\ word'.done = word.done
           /\ word'.reset = word.reset
           /\ word'.pair = g_path_enabled \ g_host_mute'
  BY DEF codec_apply_mute, Publish, Raised, TypeOK, Word

\* The panel's streaming lamp after SET_INTERFACE.
LEMMA StreamLamp ==
    ASSUME TypeOK, panel_out = panel, panel_update_streaming
    PROVE  /\ panel_out' = panel' /\ panel'.analog = panel.analog
           /\ panel'.streaming = (\E d \in Dirs : running'[d])
  BY DEF panel_update_streaming, TypeOK, Panel

-----------------------------------------------------------------------------
(* The two latch chains.  A resume writes the panel alone, so the panel can *)
(* agree with the codec word only if the suspend left the word without the *)
(* S/PDIF routing and nothing set it since.                                *)

SleepsAnalog == power = "asleep" => ~word.spdif

LEMMA LatchesInductive == Spec => [](LatchesAgree /\ SleepsAnalog)
  <1>1. Init => LatchesAgree /\ SleepsAnalog
    <2> SUFFICES ASSUME Init
                 PROVE  LatchesAgree /\ SleepsAnalog
      OBVIOUS
    <2>1. panel.analog /\ ~word.spdif
      BY DEF Init, PanelOff
    <2>2. word_out = word /\ panel_out = panel
      BY DEF Init
    <2>3. power = "on" /\ panel.analog = TRUE /\ word.spdif = FALSE
      BY DEF Init, PanelOff
    <2> QED
      BY <2>2, <2>3 DEF LatchesAgree, SleepsAnalog
  <1>2. TypeOK /\ LatchesAgree /\ SleepsAnalog /\ [Next]_vars
            => LatchesAgree' /\ SleepsAnalog'
    <2> SUFFICES ASSUME TypeOK, LatchesAgree, SleepsAnalog, [Next]_vars
                 PROVE  LatchesAgree' /\ SleepsAnalog'
      OBVIOUS
    <2>1. ASSUME NEW d \in Dirs, NEW alt \in 0..1, handle_set_interface(d, alt)
          PROVE  LatchesAgree' /\ SleepsAnalog'
      <3>1. panel_out' = panel' /\ panel'.analog = panel.analog
        BY <2>1, StreamLamp DEF handle_set_interface, LatchesAgree
      <3>2. word_out' = word' /\ word'.spdif = word.spdif
        BY <2>1, BootInitWord DEF handle_set_interface, LatchesAgree, codec
      <3>3. power' = "on"
        BY <2>1 DEF handle_set_interface, Online
      <3> QED
        BY <3>1, <3>2, <3>3 DEF LatchesAgree, SleepsAnalog
    <2>2. ASSUME NEW hz, streaming_set_rate(hz, word), UNCHANGED panels
          PROVE  LatchesAgree'
      BY <2>2, SetRateWord DEF TypeOK, LatchesAgree, panels
    <2>3. ASSUME NEW hz \in Rates, SetSampleFreq(hz)
          PROVE  LatchesAgree' /\ SleepsAnalog'
      BY <2>2, <2>3 DEF SetSampleFreq, Online, SleepsAnalog
    <2>4. ASSUME NEW hz, NEW spdif \in BOOLEAN, selector_set_source(spdif, hz)
          PROVE  LatchesAgree'
      BY <2>4, SelectorWord DEF LatchesAgree
    <2>5. ASSUME NEW spdif \in BOOLEAN, selector_apply_position(spdif)
          PROVE  LatchesAgree' /\ SleepsAnalog'
      BY <2>4, <2>5 DEF selector_apply_position, Online, SleepsAnalog
    <2>6. ASSUME NEW hz \in Rates, NEW source \in {"analog", "spdif", "same"},
                 handle_set_clock(hz, source)
          PROVE  LatchesAgree' /\ SleepsAnalog'
      <3>1. (source = "spdif") \in BOOLEAN
        OBVIOUS
      <3> QED
        BY <2>2, <2>4, <2>6, <3>1 DEF handle_set_clock, Online, SleepsAnalog
    <2>7. ASSUME NEW d \in Dirs, NEW on \in BOOLEAN, SetMute(d, on)
          PROVE  LatchesAgree' /\ SleepsAnalog'
      BY <2>7, MuteWord DEF SetMute, Online, LatchesAgree, SleepsAnalog, panels
    <2>8. CASE work_bringup
      BY <2>8, BootInitWord DEF work_bringup, LatchesAgree, SleepsAnalog, panels
    <2>9. CASE do_suspend
      <3>1. /\ word_out' = word' /\ panel_out' = panel'
            /\ word'.spdif = FALSE /\ panel'.analog = TRUE
        BY <2>9 DEF do_suspend, Publish, WordAtSuspend, WordOff, BlankPanel, PanelOff
      <3> QED
        BY <3>1 DEF LatchesAgree, SleepsAnalog
    <2>10. CASE resume
      <3>1. /\ word_out' = word' /\ word' = word /\ panel_out' = panel'
            /\ panel'.analog = TRUE /\ power' = "detached"
        BY <2>10 DEF resume, BlankPanel, PanelOff, codec, LatchesAgree
      <3>2. word.spdif = FALSE
        BY <2>10 DEF resume, SleepsAnalog, TypeOK, Word
      <3> QED
        BY <3>1, <3>2 DEF LatchesAgree, SleepsAnalog
    <2>11. ASSUME UNCHANGED <<codec, panels>>, power' = "asleep" => power = "asleep"
           PROVE  LatchesAgree' /\ SleepsAnalog'
      BY <2>11 DEF LatchesAgree, SleepsAnalog, codec, panels
    <2>12. \/ \E v \in 0..1 : handle_set_configuration(v)
           \/ handle_diag_mode \/ BusReset \/ streaming_sof \/ RefSettles
           \/ SuspendIrq \/ suspend_ignored \/ UNCHANGED vars
           => UNCHANGED <<codec, panels>> /\ (power' = "asleep" => power = "asleep")
      BY DEF handle_set_configuration, handle_diag_mode, BusReset, streaming_sof,
             RefSettles, SuspendIrq, suspend_ignored, vars
    <2> QED
      BY <2>1, <2>3, <2>5, <2>6, <2>7, <2>8, <2>9, <2>10, <2>11, <2>12
         DEF Next, HostRequest
  <1> QED
    BY <1>1, <1>2, TypeCorrect, PTL DEF Spec

\* Both latch chains hold the state variables they were shifted from and the
\* panel's analog lamp follows the source the codec word routes, also after a
\* suspend (codec_source_changed, do_suspend, hw_init).
THEOREM LatchesCoherent == Spec => []LatchesAgree
  BY LatchesInductive, PTL

-----------------------------------------------------------------------------
\* No word ever latched raises a path the host has muted (streaming_set_rate,
\* codec_apply_mute): boot_init relies on the latches holding the variable.
THEOREM MutedStaysMuted == Spec => []MuteRespected
  <1>1. Init => MuteRespected
    BY DEF Init, MuteRespected
  <1>2. TypeOK /\ LatchesAgree /\ MuteRespected /\ [Next]_vars => MuteRespected'
    <2> SUFFICES ASSUME TypeOK, LatchesAgree, MuteRespected, [Next]_vars
                 PROVE  MuteRespected'
      OBVIOUS
    <2>1. ASSUME cs8427_boot_init \/ UNCHANGED codec, UNCHANGED g_host_mute
          PROVE  MuteRespected'
      BY <2>1, BootInitWord DEF LatchesAgree, MuteRespected, codec
    <2>2. ASSUME NEW hz, NEW w \in Word, streaming_set_rate(hz, w), UNCHANGED g_host_mute
          PROVE  MuteRespected'
      BY <2>2, SetRateWord DEF MuteRespected
    <2>3. ASSUME NEW hz, NEW spdif \in BOOLEAN, selector_set_source(spdif, hz),
                 UNCHANGED g_host_mute
          PROVE  MuteRespected'
      BY <2>3, SelectorWord DEF MuteRespected
    <2>4. ASSUME NEW d \in Dirs, NEW alt \in 0..1, handle_set_interface(d, alt)
          PROVE  MuteRespected'
      BY <2>1, <2>4 DEF handle_set_interface, mutes
    <2>5. ASSUME NEW hz \in Rates, SetSampleFreq(hz)
          PROVE  MuteRespected'
      BY <2>2, <2>5 DEF SetSampleFreq, TypeOK
    <2>6. ASSUME NEW spdif \in BOOLEAN, selector_apply_position(spdif)
          PROVE  MuteRespected'
      BY <2>3, <2>6 DEF selector_apply_position
    <2>7. ASSUME NEW hz \in Rates, NEW source \in {"analog", "spdif", "same"},
                 handle_set_clock(hz, source)
          PROVE  MuteRespected'
      <3>1. (source = "spdif") \in BOOLEAN
        OBVIOUS
      <3> QED
        BY <2>2, <2>3, <2>7, <3>1 DEF handle_set_clock, TypeOK
    <2>8. ASSUME NEW d \in Dirs, NEW on \in BOOLEAN, SetMute(d, on)
          PROVE  MuteRespected'
      BY <2>8, MuteWord DEF SetMute, MuteRespected
    <2>9. CASE work_bringup
      BY <2>1, <2>9 DEF work_bringup, mutes
    <2>10. CASE do_suspend
      BY <2>10 DEF do_suspend, Publish, WordAtSuspend, WordOff, MuteRespected
    <2>11. \/ \E v \in 0..1 : handle_set_configuration(v)
           \/ handle_diag_mode \/ BusReset \/ streaming_sof \/ RefSettles
           \/ SuspendIrq \/ suspend_ignored \/ resume \/ UNCHANGED vars
           => UNCHANGED <<codec, g_host_mute>>
      BY DEF handle_set_configuration, handle_diag_mode, BusReset, streaming_sof,
             RefSettles, SuspendIrq, suspend_ignored, resume, vars, mutes
    <2> QED
      BY <2>1, <2>4, <2>5, <2>6, <2>7, <2>8, <2>9, <2>10, <2>11
         DEF Next, HostRequest
  <1> QED
    BY <1>1, <1>2, TypeCorrect, LatchesCoherent, PTL DEF Spec

-----------------------------------------------------------------------------
\* The build is chosen once.
LEMMA BuildFixed == [Next]_vars => bench' = bench
  <1> SUFFICES ASSUME [Next]_vars
               PROVE  bench' = bench
    OBVIOUS
  <1>1. HostRequest => bench' = bench
    BY DEF HostRequest, handle_set_configuration, handle_set_interface,
           SetSampleFreq, selector_apply_position, handle_set_clock, SetMute,
           handle_diag_mode
  <1>2. \/ BusReset \/ streaming_sof \/ RefSettles \/ SuspendIrq \/ work_bringup
        \/ suspend_ignored \/ do_suspend \/ resume \/ UNCHANGED vars
        => bench' = bench
    BY DEF BusReset, streaming_sof, RefSettles, SuspendIrq, work_bringup,
           suspend_ignored, do_suspend, resume, vars
  <1> QED
    BY <1>1, <1>2 DEF Next

\* In the release build the clock stays slaved to the S/PDIF input for as long
\* as that is what is routed, whatever rate the host sets (selector_set_source
\* and the SET_CUR rate arm of VEC_OEP0).
THEOREM SpdifKeepsClockSlaved == Spec => []SlavedWhileSpdif
  <1>1. Init => SlavedWhileSpdif
    BY DEF Init, SlavedWhileSpdif
  <1>2. TypeOK /\ LatchesAgree /\ SlavedWhileSpdif /\ [Next]_vars
            => SlavedWhileSpdif'
    <2> SUFFICES ASSUME TypeOK, LatchesAgree, SlavedWhileSpdif, [Next]_vars, ~bench
                 PROVE  SlavedWhileSpdif'
      BY BuildFixed DEF SlavedWhileSpdif
    <2>1. ASSUME cs8427_boot_init \/ UNCHANGED codec, UNCHANGED clock
          PROVE  SlavedWhileSpdif'
      BY <2>1, BootInitWord DEF LatchesAgree, SlavedWhileSpdif, codec, clock
    <2>2. ASSUME NEW d \in Dirs, NEW alt \in 0..1, handle_set_interface(d, alt)
          PROVE  SlavedWhileSpdif'
      BY <2>1, <2>2 DEF handle_set_interface
    <2>3. ASSUME NEW hz \in Rates, SetSampleFreq(hz)
          PROVE  SlavedWhileSpdif'
      <3>1. word'.spdif = word.spdif /\ word_out' = word'
        BY <2>3, SetRateWord DEF SetSampleFreq, TypeOK
      <3>2. word.spdif => g_clock_mode' = 1
        BY <2>3 DEF SetSampleFreq, streaming_set_rate, ClockFor, Mode
      <3> QED
        BY <3>1, <3>2 DEF SlavedWhileSpdif
    <2>4. ASSUME NEW spdif \in BOOLEAN, selector_apply_position(spdif)
          PROVE  SlavedWhileSpdif'
      <3>1. word'.spdif = spdif /\ word_out' = word'
        BY <2>4, SelectorWord DEF selector_apply_position
      <3>2. spdif => g_clock_mode' = 1
        BY <2>4 DEF selector_apply_position, selector_set_source,
                    streaming_set_rate, Mode
      <3> QED
        BY <3>1, <3>2 DEF SlavedWhileSpdif
    <2>5. ASSUME NEW d \in Dirs, NEW on \in BOOLEAN, SetMute(d, on)
          PROVE  SlavedWhileSpdif'
      BY <2>5, MuteWord DEF SetMute, LatchesAgree, SlavedWhileSpdif, clock
    <2>6. CASE work_bringup
      BY <2>1, <2>6 DEF work_bringup
    <2>7. CASE do_suspend
      BY <2>7 DEF do_suspend, Publish, WordAtSuspend, WordOff, SlavedWhileSpdif
    <2>8. \/ \E v \in 0..1 : handle_set_configuration(v)
          \/ BusReset \/ streaming_sof \/ RefSettles
          \/ SuspendIrq \/ suspend_ignored \/ resume \/ UNCHANGED vars
          => UNCHANGED <<codec, clock>>
      BY DEF handle_set_configuration, BusReset, streaming_sof, RefSettles,
             SuspendIrq, suspend_ignored, resume, vars
    <2>9. ~handle_diag_mode
          /\ ~\E hz \in Rates, source \in {"analog", "spdif", "same"} :
                handle_set_clock(hz, source)
      BY DEF handle_diag_mode, handle_set_clock
    <2> QED
      BY <2>1, <2>2, <2>3, <2>4, <2>5, <2>6, <2>7, <2>8, <2>9 DEF Next, HostRequest
  <1> QED
    BY <1>1, <1>2, TypeCorrect, LatchesCoherent, PTL DEF Spec

-----------------------------------------------------------------------------
(* The calibration.  What it takes to prove the property: the latch is only *)
(* set once the reference has settled, and the ADC is held exactly while    *)
(* its bit of the pair is low.                                              *)

CalInv ==
    /\ g_cal_done => g_ref_settled
    /\ "capture" \in word_out.pair => adc # "held"
    /\ g_cal_done /\ adc # "held" => adc = "settled"

\* streaming_set_rate() restarts the ADC until a calibration stands.
LEMMA SetRateCal ==
    ASSUME TypeOK, CalInv, NEW hz, NEW w \in Word, streaming_set_rate(hz, w),
           UNCHANGED g_ref_settled
    PROVE  CalInv'
  <1>1. word_out'.pair = Raised(Dirs, g_host_mute)
    BY DEF streaming_set_rate, Publish, Word
  <1>2. g_cal_done' => g_ref_settled'
    BY DEF streaming_set_rate, LatchCalibration, CalInv
  <1>3. CASE g_cal_done
    BY <1>1, <1>2, <1>3 DEF streaming_set_rate, AdcAfter, CalInv
  <1>4. CASE ~g_cal_done
    BY <1>1, <1>2, <1>4 DEF streaming_set_rate, AdcAfter, LatchCalibration, CalInv
  <1> QED
    BY <1>3, <1>4

\* A calibration latched as good for the whole power-up was taken after the
\* reference had settled (g_ref_settled, g_cal_done in streaming_set_rate).
THEOREM CalibrationSound == Spec => []CalibrationStands
  <1>1. Init => CalInv
    BY DEF Init, CalInv
  <1>2. TypeOK /\ LatchesAgree /\ CalInv /\ [Next]_vars => CalInv'
    <2> SUFFICES ASSUME TypeOK, LatchesAgree, CalInv, [Next]_vars
                 PROVE  CalInv'
      OBVIOUS
    <2>1. ASSUME cs8427_boot_init \/ UNCHANGED codec, UNCHANGED cal
          PROVE  CalInv'
      BY <2>1, BootInitWord DEF LatchesAgree, CalInv, codec, cal
    <2>2. ASSUME NEW d \in Dirs, NEW alt \in 0..1, handle_set_interface(d, alt)
          PROVE  CalInv'
      BY <2>1, <2>2 DEF handle_set_interface
    <2>3. ASSUME NEW hz \in Rates, SetSampleFreq(hz)
          PROVE  CalInv'
      BY <2>3, SetRateCal DEF SetSampleFreq, TypeOK
    <2>4. ASSUME NEW hz, NEW spdif \in BOOLEAN, selector_set_source(spdif, hz),
                 UNCHANGED g_ref_settled
          PROVE  CalInv'
      <3>1. [word EXCEPT !.spdif = spdif] \in Word
        BY WordType DEF TypeOK
      <3> QED
        BY <2>4, <3>1, SetRateCal DEF selector_set_source
    <2>5. ASSUME NEW spdif \in BOOLEAN, selector_apply_position(spdif)
          PROVE  CalInv'
      BY <2>4, <2>5 DEF selector_apply_position
    <2>6. ASSUME NEW hz \in Rates, NEW source \in {"analog", "spdif", "same"},
                 handle_set_clock(hz, source)
          PROVE  CalInv'
      <3>1. (source = "spdif") \in BOOLEAN /\ word \in Word
        BY DEF TypeOK
      <3> QED
        BY <2>4, <2>6, <3>1, SetRateCal DEF handle_set_clock
    <2>7. ASSUME NEW d \in Dirs, NEW on \in BOOLEAN, SetMute(d, on)
          PROVE  CalInv'
      <3>1. /\ word_out'.pair = Raised(g_path_enabled, g_host_mute')
            /\ adc' = AdcAfter(word_out.pair, Raised(g_path_enabled, g_host_mute'))
        BY <2>7 DEF SetMute, codec_apply_mute, Publish, TypeOK, Word
      <3> QED
        BY <2>7, <3>1 DEF SetMute, AdcAfter, CalInv
    <2>8. CASE handle_diag_mode
      BY <2>8 DEF handle_diag_mode, CalInv, codec
    <2>9. CASE RefSettles
      BY <2>9 DEF RefSettles, CalInv, codec
    <2>10. CASE work_bringup
      BY <2>1, <2>10 DEF work_bringup
    <2>11. CASE do_suspend
      BY <2>11 DEF do_suspend, Publish, WordAtSuspend, WordOff, CalInv
    <2>12. \/ \E v \in 0..1 : handle_set_configuration(v)
           \/ BusReset \/ streaming_sof \/ SuspendIrq \/ suspend_ignored
           \/ resume \/ UNCHANGED vars
           => UNCHANGED <<codec, cal>>
      BY DEF handle_set_configuration, BusReset, streaming_sof, SuspendIrq,
             suspend_ignored, resume, vars
    <2> QED
      BY <2>1, <2>2, <2>3, <2>5, <2>6, <2>7, <2>8, <2>9, <2>10, <2>11, <2>12
         DEF Next, HostRequest
  <1>3. CalInv => CalibrationStands
    BY DEF CalInv, CalibrationStands
  <1> QED
    BY <1>1, <1>2, <1>3, TypeCorrect, LatchesCoherent, PTL DEF Spec

-----------------------------------------------------------------------------
(* An open stream.  SET_INTERFACE brings the chips up only when the guard   *)
(* bit is clear, so the guard has to imply what it guards: the chips are    *)
(* out of reset.  A suspend clears both.                                    *)

ReadyInv == StreamReady /\ (word.done => word.reset)

\* Requests that change neither the streams nor the chips' reset.
LEMMA ReadyKept ==
    ASSUME TypeOK, LatchesAgree, ReadyInv,
           UNCHANGED <<g_alt, running, dma, power>>,
           word_out' = word', word'.reset = word.reset, word'.done = word.done,
           panel_out'.streaming = panel.streaming,
           UNCHANGED iso \/ iso' = [d \in Dirs |-> TRUE]
    PROVE  ReadyInv'
  <1>1. word'.done => word'.reset
    BY DEF ReadyInv
  <1>2. ASSUME Online', NEW d \in Dirs, g_alt'[d] = 1
        PROVE  running'[d] /\ dma'[d] /\ iso'[d] /\ word_out'.reset /\ panel_out'.streaming
    BY <1>2 DEF ReadyInv, StreamReady, LatchesAgree, Online
  <1> QED
    BY <1>1, <1>2 DEF ReadyInv, StreamReady

\* What a selected stream needs is up, after any history of requests, resets
\* and suspends (handle_set_interface, streaming_playback_enable,
\* streaming_capture_enable, cs8427_boot_init, do_suspend).
THEOREM SelectedStreamIsReady == Spec => []StreamReady
  <1>1. Init => ReadyInv
    BY DEF Init, ReadyInv, StreamReady
  <1>2. TypeOK /\ LatchesAgree /\ ReadyInv /\ [Next]_vars => ReadyInv'
    <2> SUFFICES ASSUME TypeOK, LatchesAgree, ReadyInv, [Next]_vars
                 PROVE  ReadyInv'
      OBVIOUS
    <2>1. ASSUME NEW d \in Dirs, NEW alt \in 0..1, handle_set_interface(d, alt)
          PROVE  ReadyInv'
      <3>1. /\ panel_out' = panel'
            /\ panel'.streaming = (\E e \in Dirs : running'[e])
        BY <2>1, StreamLamp DEF handle_set_interface, LatchesAgree
      <3>2. CASE alt = 0
        <4>1. /\ g_alt' = [g_alt EXCEPT ![d] = 0]
              /\ running' = [running EXCEPT ![d] = FALSE]
              /\ dma' = [dma EXCEPT ![d] = FALSE] /\ iso' = [iso EXCEPT ![d] = FALSE]
              /\ word' = word /\ word_out' = word_out
          BY <2>1, <3>2 DEF handle_set_interface, codec
        <4>2. ASSUME NEW e \in Dirs, g_alt'[e] = 1
              PROVE  e # d /\ g_alt[e] = 1
          BY <4>1, <4>2 DEF TypeOK
        <4>3. ASSUME NEW e \in Dirs, g_alt'[e] = 1
              PROVE  running'[e] /\ dma'[e] /\ iso'[e] /\ word_out'.reset
          BY <2>1, <4>1, <4>2, <4>3
             DEF handle_set_interface, ReadyInv, StreamReady, TypeOK
        <4>4. word'.done => word'.reset
          BY <4>1 DEF ReadyInv
        <4> QED
          BY <3>1, <4>3, <4>4 DEF ReadyInv, StreamReady
      <3>3. CASE alt = 1
        <4>1. /\ g_alt' = [g_alt EXCEPT ![d] = 1]
              /\ running' = [running EXCEPT ![d] = TRUE]
              /\ dma' = [dma EXCEPT ![d] = TRUE] /\ iso' = [iso EXCEPT ![d] = TRUE]
              /\ cs8427_boot_init /\ Online
          <5>1. (alt # 0) = TRUE
            BY <3>3
          <5> QED
            BY <2>1, <3>3, <5>1 DEF handle_set_interface
        <4>2. word_out' = word' /\ word'.reset
          BY <4>1, BootInitWord DEF LatchesAgree, ReadyInv
        <4>3. ASSUME NEW e \in Dirs, g_alt'[e] = 1
              PROVE  running'[e] /\ dma'[e] /\ iso'[e]
          BY <4>1, <4>3 DEF ReadyInv, StreamReady, TypeOK
        <4> QED
          BY <3>1, <4>2, <4>3 DEF ReadyInv, StreamReady
      <3> QED
        BY <3>2, <3>3
    <2>2. ASSUME NEW hz \in Rates, SetSampleFreq(hz)
          PROVE  ReadyInv'
      <3>1. streaming_set_rate(ClockFor(hz), word) /\ word \in Word
        BY <2>2 DEF SetSampleFreq, TypeOK
      <3>2. /\ word_out' = word' /\ word'.reset = word.reset /\ word'.done = word.done
            /\ iso' = [d \in Dirs |-> TRUE]
        BY <3>1, SetRateWord DEF streaming_set_rate
      <3> QED
        BY <2>2, <3>2, ReadyKept DEF SetSampleFreq, usbState, panels, LatchesAgree
    <2>3. ASSUME NEW hz, NEW spdif \in BOOLEAN, selector_set_source(spdif, hz),
                 UNCHANGED <<g_alt, running, dma, power>>
          PROVE  ReadyInv'
      <3>1. iso' = [d \in Dirs |-> TRUE]
        BY <2>3 DEF selector_set_source, streaming_set_rate
      <3> QED
        BY <2>3, <3>1, SelectorWord, ReadyKept
    <2>4. ASSUME NEW spdif \in BOOLEAN, selector_apply_position(spdif)
          PROVE  ReadyInv'
      BY <2>3, <2>4 DEF selector_apply_position, usbState
    <2>5. ASSUME NEW hz \in Rates, NEW source \in {"analog", "spdif", "same"},
                 handle_set_clock(hz, source)
          PROVE  ReadyInv'
      <3>1. CASE selector_set_source(source = "spdif", hz)
        <4>1. (source = "spdif") \in BOOLEAN
          OBVIOUS
        <4> QED
          BY <2>3, <2>5, <3>1, <4>1 DEF handle_set_clock, usbState
      <3>2. CASE streaming_set_rate(hz, word) /\ UNCHANGED panels
        <4>1. /\ word_out' = word' /\ word'.reset = word.reset /\ word'.done = word.done
              /\ iso' = [d \in Dirs |-> TRUE]
          BY <3>2, SetRateWord DEF streaming_set_rate, TypeOK
        <4> QED
          BY <2>5, <3>2, <4>1, ReadyKept DEF handle_set_clock, usbState, panels, LatchesAgree
      <3> QED
        BY <2>5, <3>1, <3>2 DEF handle_set_clock
    <2>6. ASSUME NEW d \in Dirs, NEW on \in BOOLEAN, SetMute(d, on)
          PROVE  ReadyInv'
      BY <2>6, MuteWord, ReadyKept DEF SetMute, usbState, panels, streams, LatchesAgree
    <2>7. CASE BusReset
      <3>1. \A d \in Dirs : g_alt'[d] = 0
        BY <2>7 DEF BusReset
      <3> QED
        BY <2>7, <3>1 DEF BusReset, ReadyInv, StreamReady, codec
    <2>8. CASE streaming_sof
      <3>1. /\ \A d \in Dirs : dma[d] => dma'[d]
            /\ \A d \in Dirs : iso[d] => iso'[d]
        BY <2>8 DEF streaming_sof, TypeOK
      <3> QED
        BY <2>8, <3>1 DEF streaming_sof, ReadyInv, StreamReady, Online, usbState,
                          codec, panels
    <2>9. CASE work_bringup
      <3>1. word_out' = word' /\ word'.reset
        BY <2>9, BootInitWord DEF work_bringup, LatchesAgree, ReadyInv
      <3>2. UNCHANGED <<g_alt, running, dma, iso, power, panel_out>>
        BY <2>9 DEF work_bringup, usbState, streams, panels
      <3> QED
        BY <3>1, <3>2 DEF ReadyInv, StreamReady, Online
    <2>10. CASE do_suspend
      BY <2>10 DEF do_suspend, Publish, WordAtSuspend, WordOff, ReadyInv,
                   StreamReady, Online
    <2>11. CASE resume
      BY <2>11 DEF resume, ReadyInv, StreamReady, Online, codec
    <2>12. ASSUME UNCHANGED <<g_alt, streams, codec, panels, power>>
           PROVE  ReadyInv'
      BY <2>12 DEF ReadyInv, StreamReady, Online, streams, codec, panels
    <2>13. \/ \E v \in 0..1 : handle_set_configuration(v)
           \/ handle_diag_mode \/ RefSettles \/ SuspendIrq \/ suspend_ignored
           \/ UNCHANGED vars
           => UNCHANGED <<g_alt, streams, codec, panels, power>>
      BY DEF handle_set_configuration, handle_diag_mode, RefSettles, SuspendIrq,
             suspend_ignored, vars, usbState
    <2> QED
      BY <2>1, <2>2, <2>4, <2>5, <2>6, <2>7, <2>8, <2>9, <2>10, <2>11, <2>12, <2>13
         DEF Next, HostRequest
  <1>3. ReadyInv => StreamReady
    BY DEF ReadyInv
  <1> QED
    BY <1>1, <1>2, <1>3, TypeCorrect, LatchesCoherent, PTL DEF Spec

-----------------------------------------------------------------------------
(* The mute pair and the converters' rate while the clocks are on.         *)

\* From a rate change to the next suspend the pair is what is enabled and not
\* muted, though streaming_set_rate, codec_apply_mute and the bring-up each
\* publish a word of their own.
THEOREM PairStaysPure == Spec => []PairIsPure
  <1>1. Init => PairIsPure
    BY DEF Init, PairIsPure
  <1>2. TypeOK /\ LatchesAgree /\ PairIsPure /\ [Next]_vars => PairIsPure'
    <2> SUFFICES ASSUME TypeOK, LatchesAgree, PairIsPure, [Next]_vars
                 PROVE  PairIsPure'
      OBVIOUS
    <2>1. ASSUME cs8427_boot_init \/ UNCHANGED codec, UNCHANGED <<mutes, clock>>
          PROVE  PairIsPure'
      BY <2>1, BootInitWord DEF LatchesAgree, PairIsPure, codec, mutes, clock
    <2>2. ASSUME NEW hz, NEW w \in Word, streaming_set_rate(hz, w), UNCHANGED g_host_mute
          PROVE  PairIsPure'
      BY <2>2, SetRateWord DEF PairIsPure, streaming_set_rate
    <2>3. ASSUME NEW hz, NEW spdif \in BOOLEAN, selector_set_source(spdif, hz),
                 UNCHANGED g_host_mute
          PROVE  PairIsPure'
      BY <2>3, SelectorWord DEF PairIsPure, selector_set_source, streaming_set_rate
    <2>4. ASSUME NEW d \in Dirs, NEW alt \in 0..1, handle_set_interface(d, alt)
          PROVE  PairIsPure'
      BY <2>1, <2>4 DEF handle_set_interface
    <2>5. ASSUME NEW hz \in Rates, SetSampleFreq(hz)
          PROVE  PairIsPure'
      BY <2>2, <2>5 DEF SetSampleFreq, TypeOK
    <2>6. ASSUME NEW spdif \in BOOLEAN, selector_apply_position(spdif)
          PROVE  PairIsPure'
      BY <2>3, <2>6 DEF selector_apply_position
    <2>7. ASSUME NEW hz \in Rates, NEW source \in {"analog", "spdif", "same"},
                 handle_set_clock(hz, source)
          PROVE  PairIsPure'
      <3>1. (source = "spdif") \in BOOLEAN
        OBVIOUS
      <3> QED
        BY <2>2, <2>3, <2>7, <3>1 DEF handle_set_clock, TypeOK
    <2>8. ASSUME NEW d \in Dirs, NEW on \in BOOLEAN, SetMute(d, on)
          PROVE  PairIsPure'
      BY <2>8, MuteWord DEF SetMute, PairIsPure
    <2>9. CASE work_bringup
      BY <2>1, <2>9 DEF work_bringup
    <2>10. CASE do_suspend
      <3>1. acg_on' = FALSE
        BY <2>10 DEF do_suspend
      <3>2. ~acg_on'
        BY <3>1, Zenon
      <3> QED
        BY <3>2 DEF PairIsPure
    <2>11. \/ \E v \in 0..1 : handle_set_configuration(v)
           \/ handle_diag_mode \/ BusReset \/ streaming_sof \/ RefSettles
           \/ SuspendIrq \/ suspend_ignored \/ resume \/ UNCHANGED vars
           => UNCHANGED codec /\ UNCHANGED <<mutes, clock>>
      BY DEF handle_set_configuration, handle_diag_mode, BusReset, streaming_sof,
             RefSettles, SuspendIrq, suspend_ignored, resume, vars
    <2> QED
      BY <2>1, <2>4, <2>5, <2>6, <2>7, <2>8, <2>9, <2>10, <2>11
         DEF Next, HostRequest
  <1> QED
    BY <1>1, <1>2, TypeCorrect, LatchesCoherent, PTL DEF Spec

\* What has to hold of the rates for the analog position to restore the right
\* clock: the internal rate is the reported one, unless that is zero.
RatesInv ==
    /\ g_sample_rate # 0 => g_internal_rate = g_sample_rate
    /\ ReportedRateRuns

\* With the analog source routed and the clocks on, the converters run at the
\* rate the device reports, also after an excursion to S/PDIF and in the bench
\* build (g_internal_rate, selector_apply_position, handle_set_clock).
THEOREM ReportedRateHolds == Spec => []ReportedRateRuns
  <1>1. Init => RatesInv
    BY DEF Init, RatesInv, ReportedRateRuns, Mode
  <1>2. TypeOK /\ LatchesAgree /\ RatesInv /\ [Next]_vars => RatesInv'
    <2> SUFFICES ASSUME TypeOK, LatchesAgree, RatesInv, [Next]_vars
                 PROVE  RatesInv'
      OBVIOUS
    <2> USE DEF RatesInv
    <2>1. ASSUME cs8427_boot_init \/ UNCHANGED codec, UNCHANGED <<rates, clock>>
          PROVE  RatesInv'
      BY <2>1, BootInitWord DEF LatchesAgree, ReportedRateRuns, codec, rates, clock
    <2>2. ASSUME NEW hz \in Rates, SetSampleFreq(hz)
          PROVE  RatesInv'
      <3>1. word'.spdif = word.spdif /\ word_out' = word'
        BY <2>2, SetRateWord DEF SetSampleFreq, TypeOK
      <3>2. ~word.spdif => g_clock_mode' = Mode(hz)
        BY <2>2 DEF SetSampleFreq, streaming_set_rate, ClockFor
      <3> QED
        BY <2>2, <3>1, <3>2 DEF SetSampleFreq, InternalRate, ReportedRateRuns
    <2>3. ASSUME NEW spdif \in BOOLEAN, selector_apply_position(spdif)
          PROVE  RatesInv'
      <3>1. word'.spdif = spdif /\ word_out' = word' /\ UNCHANGED rates
        BY <2>3, SelectorWord DEF selector_apply_position
      <3>2. ~spdif => g_clock_mode' = Mode(g_internal_rate)
        BY <2>3 DEF selector_apply_position, selector_set_source,
                    streaming_set_rate, RestoredRate
      <3> QED
        BY <3>1, <3>2 DEF ReportedRateRuns, rates
    <2>4. ASSUME NEW hz \in Rates, NEW source \in {"analog", "spdif", "same"},
                 handle_set_clock(hz, source)
          PROVE  RatesInv'
      BY <2>4 DEF handle_set_clock, InternalRate, ReportedRateRuns,
                  selector_set_source, streaming_set_rate
    <2>5. ASSUME NEW d \in Dirs, NEW on \in BOOLEAN, SetMute(d, on)
          PROVE  RatesInv'
      BY <2>5, MuteWord DEF SetMute, LatchesAgree, ReportedRateRuns, rates, clock
    <2>6. ASSUME NEW d \in Dirs, NEW alt \in 0..1, handle_set_interface(d, alt)
          PROVE  RatesInv'
      BY <2>1, <2>6 DEF handle_set_interface
    <2>7. CASE work_bringup
      BY <2>1, <2>7 DEF work_bringup
    <2>8. CASE do_suspend
      <3>1. acg_on' = FALSE /\ UNCHANGED rates
        BY <2>8 DEF do_suspend
      <3>2. ~acg_on'
        BY <3>1, Zenon
      <3> QED
        BY <3>1, <3>2 DEF ReportedRateRuns, rates
    <2>9. \/ \E v \in 0..1 : handle_set_configuration(v)
          \/ handle_diag_mode \/ BusReset \/ streaming_sof \/ RefSettles
          \/ SuspendIrq \/ suspend_ignored \/ resume \/ UNCHANGED vars
          => UNCHANGED codec /\ UNCHANGED <<rates, clock>>
      BY DEF handle_set_configuration, handle_diag_mode, BusReset, streaming_sof,
             RefSettles, SuspendIrq, suspend_ignored, resume, vars
    <2> QED
      BY <2>1, <2>2, <2>3, <2>4, <2>5, <2>6, <2>7, <2>8, <2>9 DEF Next, HostRequest
  <1>3. RatesInv => ReportedRateRuns
    BY DEF RatesInv
  <1> QED
    BY <1>1, <1>2, <1>3, TypeCorrect, LatchesCoherent, PTL DEF Spec
=============================================================================
