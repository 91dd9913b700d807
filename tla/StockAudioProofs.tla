--------------------------- MODULE StockAudioProofs ---------------------------
(***************************************************************************)
(* What a configured device of Rev 22 does agrees with what the host has   *)
(* selected, unless an event was lost.  The argument follows one event:    *)
(* it is pending, or begun, or what it asks for has been done; any other   *)
(* event in its way is in lost.                                            *)
(***************************************************************************)
EXTENDS StockAudio, TLAPS

Pending(e) == g_event = e /\ (Idle \/ fresh)
Begun(e) == pc = "run" /\ job.cmd = e
Awake == pc \notin {"asleep", "rebuilt"}

\* From SET_CONFIGURATION on: the chips are up once it has been carried out.
ConfigureDone ==
    /\ pc = "rebuilt" => ~f_configured
    /\ Pending(Configure) => ~f_iface1_alt /\ ~f_iface2_alt
    /\ Awake /\ f_configured /\ Configure \notin lost /\ ~Pending(Configure) =>
          /\ Begun(Configure) => job.configured /\ ~job.capture /\ ~job.playback
          /\ ~Begun(Configure) => cpten /\ f_ext_ready

\* The last of SET_CONFIGURATION and SET_INTERFACE decides on capture, and the
\* recording lamp is lit no later than the channel.
CaptureDone ==
    Awake /\ f_configured /\ Configure \notin lost /\ Capture \notin lost
    /\ ~Pending(Configure) /\ ~Pending(Capture) =>
        /\ Begun(Configure) => ~f_iface1_alt
        /\ Begun(Capture) => job.configured /\ job.capture = f_iface1_alt
        /\ ~Begun(Configure) /\ ~Begun(Capture) => dma1 = f_iface1_alt

\* No command leaves a word unpublished, chips that are set up are heard.
Published == panel_out = panel /\ word_out = [w |-> word, ready |-> f_ext_ready]
Heard == f_ext_ready => word.reset /\ word.up /\ mclko
Lamp == dma1 /\ pc # "asleep" => panel

Words == [up : BOOLEAN, reset : BOOLEAN, spdif : BOOLEAN]
WordTyped == word \in Words

AudioInv == WordTyped /\ Published /\ Heard /\ Lamp

\* EventsTypeOK by its parts: what is on or off, what is not, and what goes
\* with what.
Switches ==
    /\ f_configured \in BOOLEAN /\ f_iface1_alt \in BOOLEAN /\ f_iface2_alt \in BOOLEAN
    /\ waiting \in BOOLEAN /\ fresh \in BOOLEAN /\ f_panel_tick \in BOOLEAN
    /\ g_p31_latch \in BOOLEAN /\ f_ext_ready \in BOOLEAN /\ cpten \in BOOLEAN
    /\ dma0 \in BOOLEAN /\ dma1 \in BOOLEAN /\ susr \in BOOLEAN /\ conn \in BOOLEAN
Job == [cmd : Events \cup {0}, configured : BOOLEAN, capture : BOOLEAN,
        playback : BOOLEAN, tick : BOOLEAN]
Values ==
    /\ g_event \in Events \cup {0} /\ lost \subseteq Deferred /\ job \in Job
    /\ pc \in {"loop", "dispatch", "run", "asleep", "rebuilt"}
Shape ==
    /\ pc = "run" => job.cmd \in Events
    /\ pc = "dispatch" => g_event # 0
    /\ pc = "dispatch" \/ job.tick => f_panel_tick
    /\ fresh => ~Idle /\ g_event # 0
    /\ Idle => ~job.tick
    /\ conn <=> pc # "rebuilt"

EventsInv == Switches /\ Values /\ Shape /\ ConfigureDone /\ CaptureDone

LEMMA Parts == Switches /\ Values /\ Shape => EventsTypeOK
  BY DEF EventsTypeOK, Switches, Values, Shape, Job

LEMMA Codes ==
    /\ Configure = 1 /\ Capture = 2 /\ Playback = 3 /\ Setting = 4 /\ SelfTest = 11
    /\ SelfTestEnd = 12 /\ Suspend = 14
    /\ Deferred = {1, 2, 3} /\ Events = {1, 2, 3, 4, 11, 12, 14} /\ 0 \notin Events
  BY DEF Configure, Capture, Playback, Setting, SelfTest, SelfTestEnd, Suspend, Deferred,
         Events

-----------------------------------------------------------------------------
(* Posting an event, beginning it and ending it.                           *)

LEMMA PostEffect ==
    ASSUME NEW e \in Events, Values, Switches, Post(e)
    PROVE  /\ g_event' = e /\ fresh' = ~Idle
           /\ lost' \subseteq Deferred
           /\ \A c \in {Configure, Capture} :
                 c \in lost' <=> e # Configure /\ e # c /\ (c \in lost \/ Pending(c))
  BY Codes DEF Post, Pending, Values

\* A poster changes what is selected by the event it posts, and nothing else
\* that the invariant relates.
LEMMA PostKeeps ==
    ASSUME EventsInv, NEW e \in Events, Post(e), Awake,
           UNCHANGED <<job, cpten, f_ext_ready, dma1>>,
           pc' = pc \/ (pc = "loop" /\ pc' = "dispatch"),
           IF e = Configure THEN ~f_iface1_alt' /\ ~f_iface2_alt'
           ELSE f_configured' = f_configured /\ (e # Capture => UNCHANGED f_iface1_alt)
    PROVE  ConfigureDone' /\ CaptureDone'
  <1>1. /\ g_event' = e /\ fresh' = ~Idle /\ Idle' = Idle
        /\ \A c \in {Configure, Capture} :
              c \in lost' <=> e # Configure /\ e # c /\ (c \in lost \/ Pending(c))
    BY PostEffect DEF EventsInv, Idle
  <1>2. \A c : Pending(c)' <=> e = c
    BY <1>1 DEF Pending
  <1>3. \A c : Begun(c)' <=> Begun(c)
    BY DEF Begun
  <1>4. Awake' /\ pc' # "rebuilt"
    BY DEF Awake
  <1>5. ConfigureDone'
    BY <1>1, <1>2, <1>3, <1>4, Codes DEF EventsInv, ConfigureDone
  <1>6. CaptureDone'
    BY <1>1, <1>2, <1>3, <1>4, Codes DEF EventsInv, CaptureDone, Switches
  <1> QED
    BY <1>5, <1>6

LEMMA EpilogueEffect ==
    ASSUME Values, Switches, evt_dispatch_epilogue
    PROVE  /\ pc' = "loop" /\ job' = NoJob /\ g_event' = 0 /\ fresh' = FALSE
           /\ f_panel_tick' = (f_panel_tick /\ ~job.tick)
           /\ lost' \subseteq Deferred /\ job' \in Job
           /\ \A c \in Deferred : c \in lost' <=> c \in lost \/ (fresh /\ g_event = c)
  BY Codes DEF evt_dispatch_epilogue, Values, NoJob, Job

\* A command that does what its event asks for ends with it done.
Serves ==
    /\ pc = "run" /\ evt_dispatch_epilogue /\ UNCHANGED selected
    /\ job.cmd = Configure =>
          /\ dma1' = FALSE
          /\ job.configured /\ ~job.capture /\ ~job.playback => cpten' /\ f_ext_ready'
    /\ job.cmd # Configure => cpten' = cpten /\ (f_ext_ready => f_ext_ready')
    /\ job.cmd = Capture /\ job.configured => dma1' = job.capture
    /\ job.cmd \notin {Configure, Capture} => dma1' = dma1

LEMMA CommandServes ==
    ASSUME EventsInv, Serves
    PROVE  ConfigureDone' /\ CaptureDone'
  <1> USE DEF Serves
  <1>1. /\ pc' = "loop" /\ g_event' = 0
        /\ \A c \in Deferred : c \in lost' <=> c \in lost \/ (fresh /\ g_event = c)
    BY EpilogueEffect DEF EventsInv
  <1>2. \A c \in {Configure, Capture} : c \notin lost' => c \notin lost /\ ~Pending(c)
    BY <1>1, Codes DEF Pending, Idle
  <1>3. \A c : Begun(c) <=> job.cmd = c
    BY DEF Begun
  <1>4. /\ \A c \in {Configure, Capture} : ~Pending(c)' /\ ~Begun(c)'
        /\ Awake' /\ Awake
    BY <1>1, Codes DEF Pending, Begun, Awake
  <1>5. ConfigureDone'
    BY <1>1, <1>2, <1>3, <1>4, Codes DEF EventsInv, ConfigureDone, selected
  <1>6. CaptureDone'
    <2>1. CASE job.cmd = Configure
      BY <1>1, <1>2, <1>3, <1>4, <2>1, Codes DEF EventsInv, CaptureDone, selected, Switches
    <2>2. CASE job.cmd = Capture
      BY <1>1, <1>2, <1>3, <1>4, <2>2, Codes DEF EventsInv, CaptureDone, selected
    <2>3. CASE job.cmd \notin {Configure, Capture}
      BY <1>1, <1>2, <1>3, <1>4, <2>3, Codes DEF EventsInv, CaptureDone, selected
    <2> QED
      BY <2>1, <2>2, <2>3
  <1> QED
    BY <1>5, <1>6

-----------------------------------------------------------------------------
(* Every step.                                                             *)

LEMMA Started == Init => EventsInv
  <1> SUFFICES ASSUME Init PROVE EventsInv
    OBVIOUS
  <1>1. Switches /\ Values /\ Shape
    BY Codes DEF Init, Switches, Values, Shape, NoJob, Job, Idle
  <1>2. ConfigureDone /\ CaptureDone
    BY Codes DEF Init, ConfigureDone, CaptureDone, Pending, Awake
  <1> QED
    BY <1>1, <1>2 DEF EventsInv

LEMMA InterruptsKeep ==
    ASSUME EventsInv, Interrupts
    PROVE  EventsInv'
  <1> USE DEF selected, post, audio, usb, mainloop
  <1>a. Switches /\ Values /\ Shape
    BY DEF EventsInv
  <1>b. UNCHANGED <<pc, job, conn, cpten, f_ext_ready, dma1, dma0>> \/ sof_int_handler
    BY DEF Interrupts, std_set_configuration, std_set_interface, oep0_int_handler,
           usb_susr_handler, usb_rstr_handler, timer0_tick_isr
  <1>p. ASSUME NEW e \in Events, Post(e), Listening, UNCHANGED <<pc, job, conn, f_panel_tick>>
        PROVE  Values' /\ Shape' /\ fresh' \in BOOLEAN /\ Awake
    <2>1. Awake
      BY <1>a, <1>p DEF Awake, Listening, Shape
    <2>2. Values' /\ fresh' \in BOOLEAN
      BY <1>a, <1>p, PostEffect, Codes DEF Values, Idle
    <2>3. g_event' # 0 /\ fresh' = ~Idle /\ Idle' = Idle
      BY <1>a, <1>p, PostEffect, Codes DEF Idle
    <2>4. Shape'
      BY <1>a, <1>p, <2>3 DEF Shape
    <2> QED
      BY <2>1, <2>2, <2>4
  <1>1. CASE std_set_configuration
    <2>1. Configure \in Events
      BY Codes
    <2>2. Values' /\ Shape' /\ Switches'
      BY <1>1, <1>a, <1>p, <2>1 DEF std_set_configuration, Switches
    <2>3. ConfigureDone' /\ CaptureDone'
      BY <1>1, <1>p, <2>1, PostKeeps DEF std_set_configuration
    <2> QED
      BY <2>2, <2>3 DEF EventsInv
  <1>2. CASE std_set_interface
    <2>1. PICK e \in {Capture, Playback} :
             Post(e) /\ (e # Capture => UNCHANGED f_iface1_alt)
      BY <1>2 DEF std_set_interface
    <2>2. e \in Events /\ e # Configure
      BY Codes
    <2>3. Values' /\ Shape' /\ Switches'
      BY <1>2, <1>a, <1>p, <2>1, <2>2 DEF std_set_interface, Switches
    <2>4. ConfigureDone' /\ CaptureDone'
      BY <1>2, <1>p, <2>1, <2>2, PostKeeps DEF std_set_interface
    <2> QED
      BY <2>3, <2>4 DEF EventsInv
  <1>3. CASE oep0_int_handler \/ usb_susr_handler
    <2>1. PICK e \in {Setting, Suspend} : Post(e)
      BY <1>3 DEF oep0_int_handler, usb_susr_handler
    <2>2. e \in Events /\ e # Configure /\ e # Capture
      BY Codes
    <2>3. Values' /\ Shape' /\ fresh' \in BOOLEAN
      BY <1>3, <1>p, <2>1, <2>2 DEF oep0_int_handler, usb_susr_handler
    <2>s. Switches'
      <3>1. CASE oep0_int_handler
        BY <3>1, <1>a, <2>3 DEF oep0_int_handler, Switches
      <3>2. CASE usb_susr_handler
        BY <3>2, <1>a, <2>3 DEF usb_susr_handler, Switches
      <3> QED
        BY <1>3, <3>1, <3>2
    <2>4. ConfigureDone' /\ CaptureDone'
      BY <1>3, <1>p, <2>1, <2>2, PostKeeps DEF oep0_int_handler, usb_susr_handler
    <2> QED
      BY <2>3, <2>s, <2>4 DEF EventsInv
  <1>4. CASE usb_rstr_handler
    <2>1. Switches' /\ Values' /\ Shape'
      BY <1>4, <1>a DEF usb_rstr_handler, Switches, Values, Shape, Idle
    <2>2. ConfigureDone' /\ CaptureDone'
      BY <1>4 DEF usb_rstr_handler, ConfigureDone, CaptureDone
    <2> QED
      BY <2>1, <2>2 DEF EventsInv
  <1>5. CASE timer0_tick_isr \/ sof_int_handler
    <2>1. Values'
      BY <1>5, <1>a DEF timer0_tick_isr, sof_int_handler, Values
    <2>s. Switches'
      <3>1. CASE timer0_tick_isr
        BY <3>1, <1>a DEF timer0_tick_isr, Switches
      <3>2. CASE sof_int_handler
        BY <3>2, <1>a DEF sof_int_handler, Switches
      <3> QED
        BY <1>5, <3>1, <3>2
    <2>3. Shape'
      BY <1>5, <1>a DEF timer0_tick_isr, sof_int_handler, Shape, Idle
    <2>2. ConfigureDone' /\ CaptureDone'
      BY <1>5 DEF timer0_tick_isr, sof_int_handler, EventsInv, ConfigureDone, CaptureDone,
                  Pending, Begun, Awake, Idle
    <2> QED
      BY <2>1, <2>s, <2>2, <2>3 DEF EventsInv
  <1> QED
    BY <1>1, <1>2, <1>3, <1>4, <1>5 DEF Interrupts

LEMMA TickKeeps ==
    ASSUME EventsInv, ServeTick
    PROVE  EventsInv'
  <1> USE DEF ServeTick, selected, post, audio, usb
  <1>a. Switches /\ Values /\ Shape
    BY DEF EventsInv
  <1>1. CASE /\ Post(IF g_p31_latch THEN SelfTestEnd ELSE SelfTest)
             /\ g_p31_latch' = ~g_p31_latch /\ pc' = "dispatch" /\ UNCHANGED f_panel_tick
    <2>1. PICK e \in {SelfTest, SelfTestEnd} : Post(e)
      BY <1>1
    <2>2. e \in Events /\ e # Configure /\ e # Capture /\ e # 0
      BY Codes
    <2>e. g_event' = e /\ fresh' = ~Idle /\ lost' \subseteq Deferred
      BY <1>a, <2>1, <2>2, PostEffect
    <2>s. Switches'
      BY <1>a, <1>1, <2>e DEF Switches, Idle
    <2>v. Values'
      BY <1>a, <1>1, <2>e, <2>2 DEF Values
    <2>h. pc' = "dispatch" /\ Idle /\ Idle' /\ f_panel_tick'
      <3>1. pc = "loop" /\ pc' = "dispatch" /\ f_panel_tick' = f_panel_tick
        BY <1>1
      <3> QED
        BY <3>1 DEF Idle
    <2>3. Shape'
      BY <1>a, <2>e, <2>2, <2>h DEF Shape
    <2>4. Awake
      BY DEF Awake
    <2>5. ConfigureDone' /\ CaptureDone'
      BY <2>1, <2>2, <2>4, PostKeeps
    <2> QED
      BY <2>s, <2>v, <2>3, <2>5 DEF EventsInv
  <1>2. CASE f_panel_tick' = FALSE /\ UNCHANGED <<g_p31_latch, post, pc>>
    <2>s. Switches'
      BY <1>a, <1>2 DEF Switches
    <2>1. Values'
      BY <1>a, <1>2 DEF Values
    <2>3. ~job.tick
      BY <1>a DEF Shape, Idle
    <2>4. Shape'
      BY <1>a, <1>2, <2>3 DEF Shape, Idle
    <2>2. ConfigureDone' /\ CaptureDone'
      BY <1>2 DEF EventsInv, ConfigureDone, CaptureDone, Pending, Begun, Awake, Idle
    <2> QED
      BY <2>s, <2>1, <2>4, <2>2 DEF EventsInv
  <1> QED
    BY <1>1, <1>2

\* What was pending has begun, with the flags as they were.
LEMMA DispatchKeeps ==
    ASSUME EventsInv, usb_deferred_action_dispatch
    PROVE  EventsInv'
  <1> USE DEF usb_deferred_action_dispatch, selected, post, audio, usb
  <1>a. Switches /\ Values /\ Shape
    BY DEF EventsInv
  <1>1. /\ job'.cmd = g_event /\ job'.configured = f_configured
        /\ job'.capture = (g_event # Playback /\ f_iface1_alt)
        /\ job'.playback = (g_event # Capture /\ f_iface2_alt)
        /\ job'.tick = (pc = "dispatch") /\ job' \in Job
    BY <1>a, Codes DEF Flagged, Job, Switches, Values
  <1>2. Idle /\ ~fresh /\ g_event \in Events /\ pc' = "run" /\ UNCHANGED post
    BY <1>a DEF Idle, Shape, Values
  <1>3. Switches' /\ Values' /\ Shape'
    BY <1>a, <1>1, <1>2 DEF Switches, Values, Shape, Idle
  <1>4. \A c : ~Pending(c)' /\ (Begun(c)' <=> Pending(c)) /\ ~Begun(c)
    BY <1>1, <1>2 DEF Pending, Begun, Idle
  <1>5. Awake /\ Awake'
    BY <1>2 DEF Awake, Idle
  <1>6. ConfigureDone'
    BY <1>1, <1>2, <1>4, <1>5, Codes DEF EventsInv, ConfigureDone, Pending
  <1>7. CaptureDone'
    BY <1>1, <1>2, <1>4, <1>5, Codes DEF EventsInv, ConfigureDone, CaptureDone, Pending, Switches
  <1> QED
    BY <1>3, <1>6, <1>7 DEF EventsInv

\* A command that ends leaves the main loop idle, its switches in order.
LEMMA EndTypes ==
    ASSUME Switches, Values, Shape, pc = "run", evt_dispatch_epilogue,
           UNCHANGED <<selected, g_p31_latch, conn>>,
           waiting' \in BOOLEAN, f_ext_ready' \in BOOLEAN, cpten' \in BOOLEAN,
           dma0' \in BOOLEAN, dma1' \in BOOLEAN, susr' \in BOOLEAN
    PROVE  Switches' /\ Values' /\ Shape'
  <1>1. Switches'
    BY EpilogueEffect DEF Switches, selected
  <1>2. Values'
    BY EpilogueEffect DEF Values
  <1>3. Shape'
    <2>1. ~job'.tick /\ conn'
      BY EpilogueEffect DEF NoJob, Shape
    <2> QED
      BY <2>1, EpilogueEffect DEF Shape
  <1> QED
    BY <1>1, <1>2, <1>3

LEMMA CommandsKeep ==
    ASSUME EventsInv, Commands
    PROVE  EventsInv'
  <1> USE DEF selected, audio, usb, Does
  <1>a. Switches /\ Values /\ Shape /\ job \in Job
    BY DEF EventsInv, Values
  <1>1. CASE cmd1_apply_clock_mode
    <2>1. Switches' /\ Values' /\ Shape'
      BY <1>1, <1>a, EndTypes DEF cmd1_apply_clock_mode, ArmStatus, Switches, Job
    <2>2. ConfigureDone' /\ CaptureDone'
      <3>1. Serves
        <4>1. /\ pc = "run" /\ job.cmd = Configure /\ evt_dispatch_epilogue
              /\ UNCHANGED selected /\ dma1' = FALSE
          BY <1>1 DEF cmd1_apply_clock_mode
        <4>2. ASSUME job.configured, ~job.capture, ~job.playback
              PROVE  cpten' /\ f_ext_ready'
          BY <1>1, <4>2, Zenon DEF cmd1_apply_clock_mode
        <4> QED
          BY <4>1, <4>2, Codes DEF Serves
      <3> QED
        BY <3>1, CommandServes
    <2> QED
      BY <2>1, <2>2 DEF EventsInv
  <1>2. CASE cmd2_apply_iface1_alt
    <2>1. Switches' /\ Values' /\ Shape'
      BY <1>2, <1>a, EndTypes DEF cmd2_apply_iface1_alt, CaptureOff, ArmStatus, Switches
    <2>2. ConfigureDone' /\ CaptureDone'
      <3>1. Serves
        <4>1. /\ pc = "run" /\ job.cmd = Capture /\ evt_dispatch_epilogue
              /\ UNCHANGED <<selected, cpten>>
          BY <1>2 DEF cmd2_apply_iface1_alt
        <4>2. (f_ext_ready => f_ext_ready') /\ (job.configured => dma1' = job.capture)
          <5>1. job.capture \in BOOLEAN
            BY <1>a DEF Job
          <5>2. f_ext_ready => f_ext_ready'
            BY <1>2, Zenon DEF cmd2_apply_iface1_alt
          <5>3. CASE job.capture = TRUE
            BY <1>2, <5>2, <5>3 DEF cmd2_apply_iface1_alt
          <5>4. CASE job.capture = FALSE
            BY <1>2, <5>2, <5>4 DEF cmd2_apply_iface1_alt, CaptureOff
          <5> QED
            BY <5>1, <5>3, <5>4
        <4> QED
          BY <4>1, <4>2, Codes DEF Serves
      <3> QED
        BY <3>1, CommandServes
    <2> QED
      BY <2>1, <2>2 DEF EventsInv
  <1>3. CASE cmd3_apply_iface2_alt
    <2>1. Switches' /\ Values' /\ Shape'
      BY <1>3, <1>a, EndTypes DEF cmd3_apply_iface2_alt, ArmStatus, Switches, Job
    <2>2. ConfigureDone' /\ CaptureDone'
      <3>1. Serves
        <4>1. /\ pc = "run" /\ job.cmd = Playback /\ evt_dispatch_epilogue
              /\ UNCHANGED <<selected, cpten, dma1>>
          BY <1>3 DEF cmd3_apply_iface2_alt
        <4>2. f_ext_ready => f_ext_ready'
          BY <1>3, Zenon DEF cmd3_apply_iface2_alt
        <4> QED
          BY <4>1, <4>2, Codes DEF Serves
      <3> QED
        BY <3>1, CommandServes
    <2> QED
      BY <2>1, <2>2 DEF EventsInv
  <1>4. CASE SettingCommands \/ cmd11_eeprom_selftest \/ SuspendIgnored
    <2>1. Switches' /\ Values' /\ Shape'
      BY <1>4, <1>a, EndTypes DEF SettingCommands, cmd11_eeprom_selftest, SuspendIgnored,
                                  Switches
    <2>2. ConfigureDone' /\ CaptureDone'
      <3>1. Serves
        BY <1>4, Codes DEF SettingCommands, cmd11_eeprom_selftest, SuspendIgnored, Serves
      <3> QED
        BY <3>1, CommandServes
    <2> QED
      BY <2>1, <2>2 DEF EventsInv
  <1>5. CASE SuspendParks
    <2>1. Values'
      BY <1>5, <1>a DEF SuspendParks, post, Values
    <2>s. Switches'
      BY <1>5, <1>a DEF SuspendParks, post, Switches
    <2>3. Shape'
      BY <1>5, <1>a DEF SuspendParks, post, Shape, Idle
    <2>2. ConfigureDone' /\ CaptureDone'
      BY <1>5 DEF SuspendParks, post, EventsInv, ConfigureDone, CaptureDone, Pending, Awake, Idle
    <2> QED
      BY <2>1, <2>s, <2>2, <2>3 DEF EventsInv
  <1>6. CASE SuspendWakes
    <2>1. Switches' /\ Values' /\ Shape'
      BY <1>6, <1>a DEF SuspendWakes, Switches, Values, Shape, Idle
    <2>2. ConfigureDone' /\ CaptureDone'
      BY <1>6, Codes DEF SuspendWakes, ConfigureDone, CaptureDone, Pending, Awake
    <2> QED
      BY <2>1, <2>2 DEF EventsInv
  <1>7. CASE SuspendEnds
    <2>1. Switches' /\ Values' /\ Shape'
      <3>1. ~job'.tick /\ pc' = "loop" /\ conn' /\ fresh' = FALSE
        BY <1>7, <1>a, EpilogueEffect DEF SuspendEnds, NoJob
      <3>2. Switches' /\ Values'
        BY <1>7, <1>a, <3>1, EpilogueEffect DEF SuspendEnds, Switches, Values
      <3>3. Shape'
        BY <3>1 DEF Shape
      <3> QED
        BY <3>2, <3>3
    <2>2. ConfigureDone' /\ CaptureDone'
      BY <1>7, <1>a, EpilogueEffect, Codes DEF SuspendEnds, EventsInv, ConfigureDone,
         CaptureDone, Pending
    <2> QED
      BY <2>1, <2>2 DEF EventsInv
  <1> QED
    BY <1>1, <1>2, <1>3, <1>4, <1>5, <1>6, <1>7 DEF Commands

LEMMA EventsInvariant == Spec => []EventsInv
  <1>1. EventsInv /\ [Next]_vars => EventsInv'
    <2>1. EventsInv /\ UNCHANGED vars => EventsInv'
      BY DEF vars, selected, post, audio, usb, mainloop, EventsInv, Switches, Values, Shape,
             ConfigureDone, CaptureDone, Pending, Begun, Awake, Idle
    <2> QED
      BY <2>1, InterruptsKeep, TickKeeps, DispatchKeeps, CommandsKeep DEF Next, main_loop
  <1> QED
    BY <1>1, Started, PTL DEF Spec

\* Each event is one the dispatcher knows, and the byte, the tick and the
\* attachment are as the main loop expects them (usb_deferred_action_dispatch).
THEOREM EventsTyped == Spec => []EventsTypeOK
  <1>1. EventsInv => EventsTypeOK
    BY Parts DEF EventsInv
  <1> QED
    BY <1>1, EventsInvariant, PTL

\* With nothing pending and nothing lost the device captures exactly while the
\* host has interface 1 open (cmd1, cmd2, std_set_interface).
THEOREM CaptureIsAsSelected == Spec => []CaptureFollowsAlt
  <1>1. EventsInv => CaptureFollowsAlt
    <2> SUFFICES ASSUME EventsInv, pc = "loop", g_event = 0, f_configured,
                        lost \cap {Configure, Capture} = {}
                 PROVE  dma1 = f_iface1_alt /\ (f_iface1_alt => cpten /\ f_ext_ready)
      BY DEF CaptureFollowsAlt
    <2>1. \A c \in {Configure, Capture} : ~Pending(c) /\ ~Begun(c) /\ c \notin lost
      BY Codes DEF Pending, Begun
    <2>2. Awake
      BY DEF Awake
    <2>3. cpten /\ f_ext_ready
      BY <2>1, <2>2 DEF EventsInv, ConfigureDone
    <2>4. dma1 = f_iface1_alt
      BY <2>1, <2>2 DEF EventsInv, CaptureDone
    <2> QED
      BY <2>3, <2>4
  <1> QED
    BY <1>1, EventsInvariant, PTL

-----------------------------------------------------------------------------
(* The audio on the events.                                                *)

LEMMA AudioSteps == [AudioNext]_AudioVars => [Next]_vars
  BY DEF AudioNext, AudioLoop, CommandsWithAudio, AudioVars, Next, main_loop, Commands

\* The firmware with its audio is the firmware without it: every command
\* carries out one of StockEvents, or nothing it has (the commands' shape).
THEOREM AudioImplementsEvents == AudioSpec => Spec
  <1>1. AudioInit => Init
    BY DEF AudioInit
  <1> QED
    BY <1>1, AudioSteps, PTL DEF AudioSpec, Spec

LEMMA AudioStarted == AudioInit => AudioInv
  <1> SUFFICES ASSUME AudioInit PROVE AudioInv
    OBVIOUS
  <1>1. WordTyped /\ Published
    BY DEF AudioInit, Init, WordTyped, Words, Parked, Published
  <1>2. Heard /\ Lamp
    BY DEF AudioInit, Init, Heard, Lamp
  <1> QED
    BY <1>1, <1>2 DEF AudioInv

\* Each way a command touches the chains leaves them published and typed.
LEMMA ChainsKeep ==
    ASSUME AudioInv,
           \/ UNCHANGED <<word, word_out, f_ext_ready>>
           \/ \E w \in Words : shiftreg_out16_p1(w),
           UNCHANGED <<panel, panel_out>> \/ \E p \in BOOLEAN : shiftreg_out8_p1hi(p)
    PROVE  WordTyped' /\ Published'
  BY DEF AudioInv, WordTyped, Published, shiftreg_out16_p1, shiftreg_out8_p1hi

\* A word with the chips out of reset is heard once it has been reclocked.
LEMMA Reclocked ==
    ASSUME NEW w \in Words, w.reset, audio_clock_set_mode(w)
    PROVE  /\ Heard' /\ \E v \in Words : shiftreg_out16_p1(v)
  BY DEF Words, audio_clock_set_mode, shiftreg_out16_p1, Heard

\* What a command does to the words and the switches they go with.
Outcome ==
    /\ \/ UNCHANGED <<word, word_out, f_ext_ready>>
       \/ \E w \in Words : shiftreg_out16_p1(w)
    /\ UNCHANGED <<panel, panel_out>> \/ \E p \in BOOLEAN : shiftreg_out8_p1hi(p)
    /\ Heard' /\ Lamp'

LEMMA AudioKeeps ==
    ASSUME EventsInv, AudioInv, [AudioNext]_AudioVars
    PROVE  AudioInv'
  <1> USE DEF chains, audio
  <1>w. WordTyped /\ Heard /\ Lamp /\ word_out.ready = f_ext_ready /\ panel_out = panel
    BY DEF AudioInv, Published
  <1>t. f_ext_ready \in BOOLEAN
    BY DEF EventsInv, Switches
  <1>b. /\ BroughtUp \in Words
        /\ BroughtUp.reset /\ BroughtUp.up /\ (f_ext_ready => BroughtUp = word)
    BY <1>w DEF BroughtUp, Brought, Parked, WordTyped, Words, Heard
  <1>o. ASSUME Outcome PROVE AudioInv'
    BY <1>o, ChainsKeep DEF Outcome, AudioInv
  <1>1. ASSUME UNCHANGED chains, UNCHANGED f_ext_ready,
               dma1' = dma1, pc # "asleep" \/ dma1' = FALSE \/ pc' = pc
        PROVE  AudioInv'
    BY <1>1, <1>w, <1>o DEF Outcome, Heard, Lamp
  <1>2. CASE Interrupts /\ UNCHANGED chains
    <2>1. UNCHANGED <<pc, f_ext_ready, dma1>>
      BY <1>2 DEF Interrupts, std_set_configuration, std_set_interface, oep0_int_handler,
         usb_susr_handler, usb_rstr_handler, timer0_tick_isr, sof_int_handler, mainloop
    <2> QED
      BY <1>1, <1>2, <2>1
  <1>3. CASE ServeTick /\ (PressAudio \/ UNCHANGED chains)
    BY <1>3, <1>w, <1>o DEF ServeTick, PressAudio, shiftreg_out8_p1hi, shiftreg_out16_p1,
       Outcome, Heard, Lamp,
       WordTyped, Words
  <1>4. CASE usb_deferred_action_dispatch /\ UNCHANGED chains
    BY <1>1, <1>4 DEF usb_deferred_action_dispatch
  <1>5. CASE cmd1_apply_clock_mode /\ Cmd1Audio
    <2>1. UNCHANGED <<panel, panel_out>> /\ Lamp'
      BY <1>5 DEF cmd1_apply_clock_mode, Cmd1Audio, Lamp
    <2>2. CASE shiftreg_out16_p1(BroughtUp) /\ mclko' = (mclko \/ ~f_ext_ready)
      <3>1. word'.reset /\ word'.up /\ (f_ext_ready => mclko)
        BY <2>2, <1>b, <1>w DEF shiftreg_out16_p1, Heard
      <3>2. mclko'
        BY <2>2, <3>1, Zenon
      <3> QED
        BY <2>1, <2>2, <3>1, <3>2, <1>b, <1>o DEF Outcome, Heard
    <2>3. CASE ~job.configured /\ shiftreg_out16_p1(word) /\ UNCHANGED mclko
      <3>1. ~f_ext_ready'
        BY <1>5, <2>3, Zenon DEF cmd1_apply_clock_mode
      <3> QED
        BY <2>1, <2>3, <3>1, <1>w, <1>o DEF Outcome, Heard, WordTyped
    <2>4. CASE /\ job.configured /\ ~(~job.capture /\ ~job.playback)
               /\ UNCHANGED <<word, word_out, mclko>>
      <3>1. f_ext_ready' = f_ext_ready
        BY <1>5, <2>4, <1>t DEF cmd1_apply_clock_mode
      <3> QED
        BY <2>1, <2>4, <3>1, <1>w, <1>o DEF Outcome, Heard
    <2> QED
      BY <1>5, <2>2, <2>3, <2>4 DEF Cmd1Audio
  <1>6. CASE cmd2_apply_iface1_alt /\ Cmd2Audio
    <2>1. CASE /\ job.configured /\ job.capture /\ shiftreg_out8_p1hi(TRUE)
               /\ audio_clock_set_mode([BroughtUp EXCEPT !.spdif = FALSE])
      <3>1. /\ [BroughtUp EXCEPT !.spdif = FALSE] \in Words
            /\ [BroughtUp EXCEPT !.spdif = FALSE].reset
        BY <1>b DEF Words
      <3>2. Lamp'
        BY <2>1 DEF Lamp, shiftreg_out8_p1hi
      <3> QED
        BY <2>1, <3>1, <3>2, Reclocked, <1>o DEF Outcome
    <2>2. CASE /\ job.configured /\ ~job.capture /\ shiftreg_out8_p1hi(FALSE)
               /\ UNCHANGED <<word, word_out, mclko>>
      <3>1. dma1' = FALSE /\ UNCHANGED f_ext_ready
        BY <1>6, <2>2 DEF cmd2_apply_iface1_alt, CaptureOff
      <3> QED
        BY <2>2, <3>1, <1>w, <1>o DEF Outcome, Heard, Lamp
    <2>3. CASE ~job.configured /\ UNCHANGED chains
      <3>1. UNCHANGED <<f_ext_ready, dma1>> /\ pc = "run"
        BY <1>6, <2>3 DEF cmd2_apply_iface1_alt, Does
      <3> QED
        BY <1>1, <2>3, <3>1
    <2> QED
      BY <1>6, <2>1, <2>2, <2>3 DEF Cmd2Audio
  <1>7. CASE cmd3_apply_iface2_alt /\ Cmd3Audio
    <2>1. UNCHANGED <<panel, panel_out, dma1>> /\ pc = "run"
      BY <1>7 DEF cmd3_apply_iface2_alt, Cmd3Audio, Does
    <2>2. CASE job.configured /\ job.playback /\ audio_clock_set_mode(BroughtUp)
      <3>1. Lamp'
        BY <2>1, <1>w DEF Lamp
      <3> QED
        BY <2>1, <2>2, <3>1, <1>b, Reclocked, <1>o DEF Outcome
    <2>3. CASE ~(job.configured /\ job.playback) /\ UNCHANGED chains
      <3>1. f_ext_ready' = f_ext_ready
        BY <1>7, <2>3, <1>t DEF cmd3_apply_iface2_alt
      <3> QED
        BY <1>1, <2>1, <2>3, <3>1
    <2> QED
      BY <1>7, <2>2, <2>3 DEF Cmd3Audio
  <1>8. CASE SettingCommands /\ SettingAudio
    BY <1>8, <1>w, <1>o DEF SettingCommands, SettingAudio, Rate, Source, Does,
       audio_clock_set_mode, shiftreg_out16_p1, shiftreg_out8_p1hi, Outcome, Heard, Lamp,
       WordTyped, Words
  <1>9. CASE cmd11_eeprom_selftest /\ Cmd11Audio
    BY <1>9, <1>w, <1>b, <1>o DEF cmd11_eeprom_selftest, Cmd11Audio, Does,
       audio_clock_set_mode, shiftreg_out16_p1, shiftreg_out8_p1hi, Outcome, Heard, Lamp,
       WordTyped, Words
  <1>10. CASE SuspendIgnored /\ UNCHANGED chains
    BY <1>1, <1>10 DEF SuspendIgnored, Does
  <1>11. CASE (SuspendParks \/ SuspendWakes) /\ ParkAudio
    <2>1. Parked \in Words /\ f_ext_ready' = FALSE
      BY <1>11 DEF SuspendParks, SuspendWakes, Parked, Words
    <2>2. Lamp'
      BY <1>11 DEF SuspendParks, SuspendWakes, Lamp
    <2> QED
      BY <1>11, <2>1, <2>2, <1>o DEF ParkAudio, Outcome, Heard
  <1>12. CASE SuspendEnds /\ UNCHANGED chains
    BY <1>1, <1>12 DEF SuspendEnds
  <1>13. CASE UNCHANGED AudioVars
    BY <1>1, <1>13 DEF AudioVars, vars, mainloop
  <1> QED
    BY <1>2, <1>3, <1>4, <1>5, <1>6, <1>7, <1>8, <1>9, <1>10, <1>11, <1>12, <1>13
       DEF AudioNext, AudioLoop, CommandsWithAudio

LEMMA AudioInvariant == AudioSpec => []AudioInv
  <1>1. EventsInv /\ AudioInv /\ [AudioNext]_AudioVars => AudioInv'
    BY AudioKeeps
  <1> QED
    BY <1>1, AudioStarted, EventsInvariant, AudioImplementsEvents, PTL DEF AudioSpec

\* Between commands each latch holds the variable it was shifted from, the
\* bring-up bit included (shiftreg_out16_p1, shiftreg_out8_p1hi).
THEOREM LatchesFollowWords == AudioSpec => []ChainsAgree
  <1>1. AudioInv => ChainsAgree
    BY DEF AudioInv, Published, ChainsAgree
  <1> QED
    BY <1>1, AudioInvariant, PTL

\* An open stream of a device at rest can be heard, and the lamp shows it,
\* unless an event was lost (f_ext_ready, audio_hw_bringup, cmd1 to cmd3).
THEOREM OpenStreamsAreAudible == AudioSpec => []StreamAudible
  <1>1. EventsInv /\ AudioInv => StreamAudible
    <2> SUFFICES ASSUME EventsInv, AudioInv, pc = "loop", g_event = 0, f_configured,
                        lost = {}
                 PROVE  /\ f_iface1_alt \/ f_iface2_alt =>
                              word_out.ready /\ word_out.w.reset /\ word_out.w.up /\ mclko
                        /\ f_iface1_alt => panel_out
      BY DEF StreamAudible
    <2>1. \A c \in {Configure, Capture} : ~Pending(c) /\ ~Begun(c) /\ c \notin lost
      BY Codes DEF Pending, Begun
    <2>2. Awake
      BY DEF Awake
    <2>3. f_ext_ready /\ dma1 = f_iface1_alt
      BY <2>1, <2>2 DEF EventsInv, ConfigureDone, CaptureDone
    <2> QED
      BY <2>2, <2>3 DEF AudioInv, Published, Heard, Lamp
  <1> QED
    BY <1>1, AudioInvariant, EventsInvariant, AudioImplementsEvents, PTL

===============================================================================
