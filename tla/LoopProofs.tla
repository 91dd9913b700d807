------------------------------ MODULE LoopProofs ------------------------------
(***************************************************************************)
(* The main loop and the panel poll it runs on a tick.  Of the loop: the   *)
(* device never sits on the bus with its interrupts off, because the       *)
(* positions of main() and do_suspend() say when interrupts may be off and *)
(* when the device may be attached, and no handler changes either.  Of the *)
(* poll: the panel's byte and the codec's, for any number of presses and   *)
(* any interrupts; the argument follows which of the two variables and of  *)
(* the two latches already names the source the press selects.             *)
(***************************************************************************)
EXTENDS PanelUpdate, TLAPS

-----------------------------------------------------------------------------
(* The main loop.                                                          *)

VARIABLES loop_pc, EA, connected, g_timer0_pending, tickFree, g_work_code, susr,
          g_configured, g_dfu_request_pending

Loop == INSTANCE MainLoop WITH pc <- loop_pc

\* Positions at which the device is off the bus.
OffBus == {"usb_init", "hw_init", "ea", "usb_attach", "rebuild", "resume_ea", "attach",
           "dfu_write", "halt"}

\* Positions at which interrupts may be off.
Masked == {"usb_init", "hw_init", "ea", "rebuild", "resume_ea", "dfu_write", "halt"}

LoopInv ==
    /\ loop_pc \in OffBus => ~connected
    /\ loop_pc \notin Masked => EA

LEMMA LoopStep ==
    ASSUME Loop!TypeOK, LoopInv, [Loop!Next]_Loop!vars
    PROVE  LoopInv'
  <1> USE DEF Loop!TypeOK, LoopInv, OffBus, Masked, Loop!At
  <1>1. CASE Loop!boot
    BY <1>1 DEF Loop!boot, Loop!enable_interrupts
  <1>2. CASE Loop!loop_top \/ Loop!buttons_polled \/ Loop!loop_tail
    BY <1>2 DEF Loop!loop_top, Loop!buttons_polled, Loop!loop_tail, Loop!Boot, Loop!Handler
  <1>3. CASE Loop!enter_dfu
    BY <1>3 DEF Loop!enter_dfu
  <1>4. CASE Loop!work_dispatch \/ Loop!suspend_guard \/ Loop!clear_work
    BY <1>4 DEF Loop!work_dispatch, Loop!suspend_guard, Loop!clear_work
  <1>5. CASE Loop!do_suspend
    BY <1>5 DEF Loop!do_suspend, Loop!DetachAndRebuild, Loop!ResumeEA
  <1>6. CASE Loop!wake
    BY <1>6 DEF Loop!wake
  <1>7. CASE Loop!isr
    BY <1>7 DEF Loop!isr, Loop!isr_timer0, Loop!isr_susr, Loop!isr_set_interface,
       Loop!isr_set_configuration, Loop!isr_bus_reset, Loop!isr_enter_dfu, Loop!loopVars
  <1>8. CASE Loop!BusIdle
    BY <1>8 DEF Loop!BusIdle, Loop!loopVars
  <1>9. CASE UNCHANGED Loop!vars
    BY <1>9 DEF Loop!vars
  <1> QED
    BY <1>1, <1>2, <1>3, <1>4, <1>5, <1>6, <1>7, <1>8, <1>9 DEF Loop!Next, Loop!main

\* Every flag is a flag and the work code one the dispatcher knows, at every
\* position of main() (work_dispatch's codes).
THEOREM LoopTyped == Loop!Spec => []Loop!TypeOK
  <1>1. Loop!Init => Loop!TypeOK
    BY DEF Loop!Init, Loop!TypeOK, Loop!Boot, Loop!Codes
  <1>2. Loop!TypeOK /\ [Loop!Next]_Loop!vars => Loop!TypeOK'
    <2> SUFFICES ASSUME Loop!TypeOK, [Loop!Next]_Loop!vars PROVE Loop!TypeOK'
      OBVIOUS
    <2> USE DEF Loop!TypeOK, Loop!Boot, Loop!Handler, Loop!Codes, Loop!At, Loop!loopVars, Loop!timer
    <2>1. CASE Loop!boot
      BY <2>1 DEF Loop!boot, Loop!enable_interrupts
    <2>2. CASE Loop!loop_top
      BY <2>2 DEF Loop!loop_top
    <2>3. CASE Loop!buttons_polled
      BY <2>3 DEF Loop!buttons_polled, Loop!ConsumeTick
    <2>4. CASE Loop!loop_tail
      BY <2>4 DEF Loop!loop_tail
    <2>5. CASE Loop!enter_dfu
      BY <2>5 DEF Loop!enter_dfu
    <2>6. CASE Loop!work_dispatch
      BY <2>6 DEF Loop!work_dispatch
    <2>7. CASE Loop!suspend_guard
      BY <2>7 DEF Loop!suspend_guard
    <2>8. CASE Loop!clear_work
      BY <2>8 DEF Loop!clear_work
    <2>9. CASE Loop!do_suspend
      BY <2>9 DEF Loop!do_suspend, Loop!DetachAndRebuild, Loop!ResumeEA
    <2>10. CASE Loop!wake
      BY <2>10 DEF Loop!wake
    <2>11. CASE Loop!BusIdle
      BY <2>11 DEF Loop!BusIdle
    <2>12. CASE Loop!isr_timer0
      BY <2>12 DEF Loop!isr_timer0
    <2>13. CASE Loop!isr_susr
      BY <2>13 DEF Loop!isr_susr, Loop!Post
    <2>14. CASE Loop!isr_set_interface
      BY <2>14 DEF Loop!isr_set_interface, Loop!Post
    <2>15. CASE Loop!isr_set_configuration \/ Loop!isr_bus_reset
      BY <2>15 DEF Loop!isr_set_configuration, Loop!isr_bus_reset
    <2>16. CASE Loop!isr_enter_dfu
      BY <2>16 DEF Loop!isr_enter_dfu
    <2>17. CASE UNCHANGED Loop!vars
      BY <2>17 DEF Loop!vars
    <2> QED
      BY <2>1, <2>2, <2>3, <2>4, <2>5, <2>6, <2>7, <2>8, <2>9, <2>10, <2>11, <2>12, <2>13,
         <2>14, <2>15, <2>16, <2>17 DEF Loop!Next, Loop!main, Loop!isr
  <1> QED
    BY <1>1, <1>2, PTL DEF Loop!Spec

\* On the bus the device takes interrupts: at boot, through every suspend and
\* resume, and when it leaves for DFU (main, do_suspend, hw_init).
THEOREM AttachedDeviceListens == Loop!Spec => []Loop!NeverDeafOnBus
  <1>1. Loop!Init => LoopInv
    BY DEF Loop!Init, LoopInv, OffBus, Masked
  <1>2. Loop!TypeOK /\ LoopInv /\ [Loop!Next]_Loop!vars => LoopInv'
    BY LoopStep
  <1>3. LoopInv => Loop!NeverDeafOnBus
    BY DEF LoopInv, Loop!NeverDeafOnBus, OffBus, Masked
  <1> QED
    BY <1>1, <1>2, <1>3, LoopTyped, PTL DEF Loop!Spec

-----------------------------------------------------------------------------
(* The panel poll.                                                         *)

\* Positions at which the panel latch names the source of g_mux_state.
Shown == {"wait", "cycle", "write", "codec"}

\* Positions at which the codec's code is that source's, and its latch's.
Coded == {"wait", "cycle", "write", "test", "lamp_on", "lamp_off", "mux", "codec"}
Latched == {"wait", "cycle", "write"}

Counts ==
    /\ g_mux_state.src = SourceAfter[presses % 3]
    /\ pc = "write" => cur.src = g_mux_state.src
    /\ pc \in Shown => mux_out.src = g_mux_state.src

Matches ==
    /\ pc = "nibble" => s1 = src_state[g_mux_state.src]
    /\ pc \in Coded => g_codec_state.code = src_state[g_mux_state.src]
    /\ pc \in Latched => codec_out.code = g_codec_state.code

\* Undisturbed, the poll carries both lamps along.
Lamps ==
    /\ g_mux_state.idle = ~running /\ mux_out.idle = ~running
    /\ g_mux_state.analog = ~g_codec_state.spdif
    /\ mux_out.analog = ~g_codec_state.spdif
    /\ codec_out.spdif = g_codec_state.spdif
    /\ pc = "write" => cur = g_mux_state
    /\ pc = "lamp_on" => ~g_codec_state.spdif
    /\ pc = "lamp_off" => g_codec_state.spdif

Cycle == ~raced => Lamps

LEMMA Sources ==
    ASSUME NEW n \in Nat
    PROVE  /\ SourceAfter[n % 3] \in Patterns
           /\ NextSource[SourceAfter[n % 3]] = SourceAfter[(n + 1) % 3]
  <1>1. n % 3 \in 0..2 /\ (n + 1) % 3 = IF n % 3 = 2 THEN 0 ELSE (n % 3) + 1
    OBVIOUS
  <1> QED
    BY <1>1 DEF SourceAfter, NextSource, Patterns

LEMMA SourceCodes == \A src \in Patterns : src_state[src] \in 0..3 /\ NextSource[src] \in Patterns
  BY DEF src_state, NextSource, Patterns

\* A press is taken up only below the bound.
Room == pc \in {"cycle", "write"} => presses < MaxPresses

\* Every variable is of its type, with the source codes two bits wide
\* (src_state, codec_source_changed).
THEOREM PanelTyped == Spec => []TypeOK
  <1>1. Init => TypeOK /\ Room
    <2> SUFFICES ASSUME Init PROVE TypeOK /\ Room
      OBVIOUS
    <2>1. g_mux_state \in Mux /\ g_codec_state \in Codec
      BY DEF Init, Mux, Codec, Patterns
    <2> QED
      <3>1. /\ mux_out = g_mux_state /\ cur = g_mux_state /\ codec_out = g_codec_state
            /\ running = FALSE /\ raced = FALSE /\ s1 = 0 /\ presses = 0 /\ pc = "wait"
        BY DEF Init
      <3>2. mux_out \in Mux /\ cur \in Mux /\ codec_out \in Codec
        BY <2>1, <3>1
      <3>3. running \in BOOLEAN /\ raced \in BOOLEAN
        BY <3>1
      <3>4. s1 \in 0..3 /\ presses \in 0..MaxPresses
        BY <3>1, PanelAssumption
      <3> QED
        BY <2>1, <3>1, <3>2, <3>3, <3>4 DEF TypeOK, Room
  <1>2. TypeOK /\ Room /\ [Next]_vars => (TypeOK /\ Room)'
    <2> SUFFICES ASSUME TypeOK, Room, [Next]_vars PROVE TypeOK' /\ Room'
      OBVIOUS
    <2> USE PanelAssumption, SourceCodes DEF TypeOK, Room, Mux, Codec, local
    <2>1. CASE press \/ read_mux \/ read_source \/ test_spdif
      BY <2>1 DEF press, read_mux, read_source, test_spdif
    <2>2. CASE write_mux \/ write_nibble
      BY <2>2 DEF write_mux, write_nibble
    <2>3. CASE set_lamp
      <3>1. (pc = "lamp_on") \in BOOLEAN
        OBVIOUS
      <3> QED
        BY <2>3, <3>1 DEF set_lamp
    <2>4. CASE publish_mux \/ publish_codec
      BY <2>4 DEF publish_mux, publish_codec
    <2>5. ASSUME NEW on \in BOOLEAN, panel_update_streaming(on)
          PROVE  TypeOK' /\ Room'
      <3>1. IdleBit(on) \in BOOLEAN /\ raced' \in BOOLEAN
        BY <2>5, Zenon DEF IdleBit, panel_update_streaming
      <3> QED
        BY <2>5, <3>1 DEF panel_update_streaming
    <2>6. ASSUME NEW spdif \in BOOLEAN, selector_set_source(spdif)
          PROVE  TypeOK' /\ Room'
      <3>1. (~spdif) \in BOOLEAN /\ raced' \in BOOLEAN
        BY <2>6, Zenon DEF selector_set_source
      <3> QED
        BY <2>6, <3>1 DEF selector_set_source, CodeFor
    <2>7. CASE UNCHANGED vars
      BY <2>7 DEF vars
    <2> QED
      BY <2>1, <2>2, <2>3, <2>4, <2>5, <2>6, <2>7 DEF Next, buttons_poll, isr
  <1> QED
    BY <1>1, <1>2, PTL DEF Spec

\* Bit 7 alone is written by a stream, bits 6 and the code by the Selector.
LEMMA StreamBits ==
    ASSUME TypeOK, NEW on \in BOOLEAN, panel_update_streaming(on)
    PROVE  /\ g_mux_state'.src = g_mux_state.src /\ g_mux_state'.analog = g_mux_state.analog
           /\ g_mux_state'.idle = ~on
           /\ mux_out' = IF g_mux_state' # g_mux_state THEN g_mux_state' ELSE mux_out
           /\ UNCHANGED <<g_codec_state, codec_out, pc, cur, s1, presses>>
  BY DEF TypeOK, Mux, panel_update_streaming, IdleBit, local

LEMMA SelectorBits ==
    ASSUME TypeOK, NEW spdif \in BOOLEAN, selector_set_source(spdif)
    PROVE  /\ g_mux_state'.src = g_mux_state.src /\ g_mux_state'.idle = g_mux_state.idle
           /\ g_mux_state'.analog = ~spdif
           /\ g_codec_state'.code = src_state[g_mux_state.src] /\ g_codec_state'.spdif = spdif
           /\ mux_out' = g_mux_state' /\ codec_out' = g_codec_state'
           /\ UNCHANGED <<running, pc, cur, s1, presses>>
  BY DEF TypeOK, Mux, selector_set_source, CodeFor, local

LEMMA CountsInvariant == Spec => []Counts
  <1>1. Init => Counts
    BY DEF Init, Counts, SourceAfter
  <1>2. TypeOK /\ Counts /\ [Next]_vars => Counts'
    <2> SUFFICES ASSUME TypeOK, Counts, [Next]_vars PROVE Counts'
      OBVIOUS
    <2> USE DEF Counts, Shown
    <2>1. CASE write_mux
      <3>1. presses \in Nat /\ cur \in Mux
        BY <2>1, PanelAssumption DEF TypeOK
      <3>2. g_mux_state'.src = NextSource[cur.src] /\ presses' = presses + 1 /\ pc' = "source"
        BY <2>1, <3>1 DEF write_mux, Mux
      <3> QED
        BY <2>1, <3>1, <3>2, Sources DEF write_mux
    <2>2. CASE set_lamp
      <3>1. g_mux_state'.src = g_mux_state.src /\ UNCHANGED presses /\ pc' = "mux"
        BY <2>2 DEF set_lamp, TypeOK, Mux
      <3> QED
        BY <3>1
    <2>3. CASE press \/ read_mux \/ read_source \/ write_nibble \/ test_spdif
               \/ publish_mux \/ publish_codec \/ UNCHANGED vars
      BY <2>3 DEF press, read_mux, read_source, write_nibble, test_spdif, publish_mux,
         publish_codec, vars
    <2>4. CASE isr
      BY <2>4, StreamBits, SelectorBits DEF isr
    <2> QED
      BY <2>1, <2>2, <2>3, <2>4 DEF Next, buttons_poll
  <1> QED
    BY <1>1, <1>2, PanelTyped, PTL DEF Spec

\* No press is lost or counted twice, whatever interrupts the poll, for any
\* number of presses (cycle_source, buttons_poll).
THEOREM EveryPressCounts == Spec => []PressesCount
  <1>1. Counts => PressesCount
    BY DEF Counts, PressesCount, Settled, Shown
  <1> QED
    BY <1>1, CountsInvariant, PTL

\* The preamplifiers' code and the panel name one source between polls,
\* whatever the Selector did (codec_source_changed, buttons_poll).
THEOREM CodeFollowsPanel == Spec => []CodeMatchesPanel
  <1>1. Init => Matches
    BY DEF Init, Matches, src_state
  <1>2. TypeOK /\ Matches /\ [Next]_vars => Matches'
    <2> SUFFICES ASSUME TypeOK, Matches, [Next]_vars PROVE Matches'
      OBVIOUS
    <2> USE DEF Matches, Coded, Latched
    <2>1. CASE write_mux
      BY <2>1 DEF write_mux
    <2>2. CASE write_nibble
      <3>1. g_codec_state'.code = s1 /\ pc = "nibble" /\ pc' = "test" /\ UNCHANGED g_mux_state
        BY <2>2 DEF write_nibble, TypeOK, Codec
      <3> QED
        BY <3>1
    <2>3. CASE set_lamp
      <3>1. g_mux_state'.src = g_mux_state.src /\ UNCHANGED g_codec_state
            /\ pc \in {"lamp_on", "lamp_off"} /\ pc' = "mux"
        BY <2>3 DEF set_lamp, TypeOK, Mux
      <3> QED
        BY <3>1
    <2>4. CASE press \/ read_mux \/ read_source \/ test_spdif
               \/ publish_mux \/ publish_codec \/ UNCHANGED vars
      BY <2>4 DEF press, read_mux, read_source, test_spdif, publish_mux, publish_codec, vars
    <2>5. CASE isr
      BY <2>5, StreamBits, SelectorBits DEF isr
    <2> QED
      BY <2>1, <2>2, <2>3, <2>4, <2>5 DEF Next, buttons_poll
  <1>3. Counts /\ Matches => CodeMatchesPanel
    BY DEF Counts, Matches, CodeMatchesPanel, Settled, Shown, Coded, Latched
  <1> QED
    BY <1>1, <1>2, <1>3, CountsInvariant, PanelTyped, PTL DEF Spec

\* As long as no request has interrupted a poll both lamps are right between
\* polls (panel_update_streaming, codec_source_changed, cycle_source).
THEOREM UndisturbedLamps == Spec => []QuietLamps
  <1>1. Init => Cycle
    <2> SUFFICES ASSUME Init PROVE Lamps
      BY DEF Cycle
    <2>1. /\ g_mux_state.idle = TRUE /\ g_mux_state.analog = TRUE
          /\ g_codec_state.spdif = FALSE /\ running = FALSE /\ pc = "wait"
          /\ mux_out = g_mux_state /\ codec_out = g_codec_state
      BY DEF Init
    <2> QED
      BY <2>1 DEF Lamps
  <1>2. TypeOK /\ Cycle /\ [Next]_vars => Cycle'
    <2> SUFFICES ASSUME TypeOK, Cycle, [Next]_vars, ~raced' PROVE Lamps'
      BY DEF Cycle
    <2>r. raced \in BOOLEAN /\ running \in BOOLEAN
      BY DEF TypeOK
    <2>1. CASE isr
      <3>1. ~raced /\ pc = "wait"
        BY <2>1, <2>r DEF isr, panel_update_streaming, selector_set_source
      <3>2. Lamps
        BY <3>1 DEF Cycle
      <3>3. ASSUME NEW on \in BOOLEAN, panel_update_streaming(on)
            PROVE  Lamps'
        <4>1. running' = on
          BY <3>3 DEF panel_update_streaming
        <4> QED
          BY <3>1, <3>2, <3>3, <4>1, StreamBits DEF Lamps
      <3>4. ASSUME NEW spdif \in BOOLEAN, selector_set_source(spdif)
            PROVE  Lamps'
        BY <3>1, <3>2, <3>4, SelectorBits DEF Lamps
      <3> QED
        BY <2>1, <3>3, <3>4 DEF isr
    <2>2. CASE write_mux
      <3>1. /\ g_mux_state'.idle = cur.idle /\ g_mux_state'.analog = cur.analog
            /\ pc = "write" /\ pc' = "source" /\ ~raced
        BY <2>2 DEF write_mux, TypeOK, Mux
      <3> QED
        BY <2>2, <3>1 DEF write_mux, Cycle, Lamps
    <2>3. CASE write_nibble
      <3>1. g_codec_state'.spdif = g_codec_state.spdif /\ pc' = "test" /\ ~raced
        BY <2>3 DEF write_nibble, TypeOK, Codec
      <3> QED
        BY <2>3, <3>1 DEF write_nibble, Cycle, Lamps
    <2>4. CASE set_lamp
      <3>1. /\ g_mux_state'.idle = g_mux_state.idle /\ g_mux_state'.analog = (pc = "lamp_on")
            /\ pc' = "mux" /\ pc \in {"lamp_on", "lamp_off"} /\ ~raced
        BY <2>4 DEF set_lamp, TypeOK, Mux
      <3> QED
        BY <2>4, <3>1 DEF set_lamp, Cycle, Lamps
    <2>5. CASE press \/ read_mux \/ read_source \/ test_spdif
               \/ publish_mux \/ publish_codec \/ UNCHANGED vars
      BY <2>5 DEF press, read_mux, read_source, test_spdif, publish_mux, publish_codec, vars,
         Cycle, Lamps
    <2> QED
      BY <2>1, <2>2, <2>3, <2>4, <2>5 DEF Next, buttons_poll
  <1>3. Cycle => QuietLamps
    BY DEF Cycle, Lamps, QuietLamps
  <1> QED
    BY <1>1, <1>2, <1>3, PanelTyped, PTL DEF Spec
=============================================================================
