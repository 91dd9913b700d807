----------------------------- MODULE StockEvents -----------------------------
(***************************************************************************)
(* The main loop of Digidesign's Rev 22 firmware, as recovered in          *)
(* firmware_stock/decomp/cand (the rev22 files).  Interrupt handlers post  *)
(* work by writing one byte, g_event; the main loop carries it out and     *)
(* clears the byte when it is done, whatever it holds by then.             *)
(* SET_CONFIGURATION and SET_INTERFACE leave endpoint 0 NAKed until their  *)
(* event has been carried out.                                             *)
(*                                                                         *)
(* The host, the pin P3.1 and the sample clock are external.  The source,  *)
(* the sample rate, the lamps and the boot EEPROM, which the commands      *)
(* write and nothing here reads, are left out; so is f_cfg_alt, which the  *)
(* image never sets.                                                       *)
(***************************************************************************)
EXTENDS Integers

VARIABLES
    f_configured, f_iface1_alt, f_iface2_alt,   \* what the host has selected
    waiting,        \* endpoint 0 NAKed for a request the host waits on
    g_event,        \* the one event byte
    fresh,          \* g_event was written while a job was running
    lost,           \* history: deferred requests nobody will carry out
    f_panel_tick,   \* raised by timer 0
    g_p31_latch,    \* the P3.1 edge latch
    f_ext_ready,    \* the external chips have been set up
    cpten,          \* the codec port is enabled
    dma0, dma1,     \* playback and capture DMA are enabled
    susr,           \* USBIMSK lets the suspend interrupt through
    conn,           \* USBCTL.CONN
    pc, job         \* the main loop: where it is, and what it is carrying out

selected == <<f_configured, f_iface1_alt, f_iface2_alt>>
post     == <<g_event, fresh, lost>>
audio    == <<f_ext_ready, cpten, dma0, dma1>>
usb      == <<susr, conn>>
mainloop == <<pc, job>>
vars == <<selected, waiting, post, f_panel_tick, g_p31_latch, audio, usb, mainloop>>

Configure == 1
Capture == 2
Playback == 3
Setting == 4
SelfTest == 11
SelfTestEnd == 12
Suspend == 14
Deferred == {Configure, Capture, Playback}
Events == Deferred \cup {Setting, SelfTest, SelfTestEnd, Suspend}

\* A job is the event, the flags its command branches on, and whether it is
\* part of a tick.
Flagged(e) == [cmd |-> e, configured |-> f_configured,
               capture |-> e # Playback /\ f_iface1_alt,
               playback |-> e # Capture /\ f_iface2_alt, tick |-> pc = "dispatch"]
NoJob == [cmd |-> 0, configured |-> FALSE, capture |-> FALSE, playback |-> FALSE,
          tick |-> FALSE]

Idle == pc \in {"loop", "dispatch"}

\* What every variable holds; a job is a posted event's, an event posted during
\* one is in the byte, and the device is detached only while it is being built
\* anew after a suspend (usb_deferred_action_dispatch, cmd 14).
EventsTypeOK ==
    /\ f_configured \in BOOLEAN /\ f_iface1_alt \in BOOLEAN /\ f_iface2_alt \in BOOLEAN
    /\ waiting \in BOOLEAN /\ fresh \in BOOLEAN /\ f_panel_tick \in BOOLEAN
    /\ g_p31_latch \in BOOLEAN /\ f_ext_ready \in BOOLEAN /\ cpten \in BOOLEAN
    /\ dma0 \in BOOLEAN /\ dma1 \in BOOLEAN /\ susr \in BOOLEAN /\ conn \in BOOLEAN
    /\ g_event \in Events \cup {0} /\ lost \subseteq Deferred
    /\ pc \in {"loop", "dispatch", "run", "asleep", "rebuilt"}
    /\ job \in [cmd : Events \cup {0}, configured : BOOLEAN, capture : BOOLEAN,
                playback : BOOLEAN, tick : BOOLEAN]
    /\ pc = "run" => job.cmd \in Events
    /\ pc = "dispatch" => g_event # 0
    /\ pc = "dispatch" \/ job.tick => f_panel_tick
    /\ fresh => ~Idle /\ g_event # 0
    /\ conn = (pc # "rebuilt")

-----------------------------------------------------------------------------
(* Posting an event.  Nothing looks at what the byte holds.                *)

\* An event the main loop has not begun is overwritten and lost.  A new event
\* makes up for a lost one of its kind, SET_CONFIGURATION for the streams as
\* well.
Post(e) ==
    LET unserved == IF Idle \/ fresh THEN {g_event} \cap Deferred ELSE {}
        redone   == IF e = Configure THEN Deferred ELSE {e} IN
    /\ g_event' = e /\ fresh' = ~Idle
    /\ lost' = (lost \cup unserved) \ redone

-----------------------------------------------------------------------------
(* Interrupt handlers, each with interrupts off.  The host talks to a      *)
(* device that is connected and awake; it may give up on a request.        *)

Listening == conn /\ pc # "asleep"

std_set_configuration ==
    /\ Listening
    /\ f_configured' \in BOOLEAN
    /\ f_iface1_alt' = FALSE /\ f_iface2_alt' = FALSE
    /\ Post(Configure) /\ waiting' = TRUE
    /\ UNCHANGED <<f_panel_tick, g_p31_latch, audio, usb, mainloop>>

std_set_interface ==
    /\ Listening /\ f_configured
    /\ \/ f_iface1_alt' \in BOOLEAN /\ Post(Capture) /\ UNCHANGED f_iface2_alt
       \/ f_iface2_alt' \in BOOLEAN /\ Post(Playback) /\ UNCHANGED f_iface1_alt
    /\ waiting' = TRUE
    /\ UNCHANGED <<f_configured, f_panel_tick, g_p31_latch, audio, usb, mainloop>>

\* The data stage of a class write, and the enter-DFU trigger: acknowledged at
\* once, carried out by the main loop.
oep0_int_handler ==
    /\ Listening
    /\ Post(Setting) /\ waiting' = FALSE
    /\ UNCHANGED <<selected, f_panel_tick, g_p31_latch, audio, usb, mainloop>>

usb_susr_handler ==
    /\ Listening /\ susr
    /\ Post(Suspend)
    /\ UNCHANGED <<selected, waiting, f_panel_tick, g_p31_latch, audio, usb, mainloop>>

\* The streams go on running; only what the host has selected is reset.
usb_rstr_handler ==
    /\ Listening
    /\ f_configured' = FALSE /\ f_iface1_alt' = FALSE /\ f_iface2_alt' = FALSE
    /\ susr' = FALSE /\ waiting' = FALSE
    /\ UNCHANGED <<post, f_panel_tick, g_p31_latch, audio, conn, mainloop>>

timer0_tick_isr ==
    /\ pc # "asleep" /\ ~f_panel_tick /\ f_panel_tick' = TRUE
    /\ UNCHANGED <<selected, waiting, post, g_p31_latch, audio, usb, mainloop>>

\* A buffer content that has changed and is no multiple of 6 restarts the
\* playback DMA, whether or not it was running.
sof_int_handler ==
    /\ Listening
    /\ dma0' = TRUE
    /\ UNCHANGED <<selected, waiting, post, f_panel_tick, g_p31_latch, f_ext_ready, cpten,
                   dma1, usb, mainloop>>

Interrupts == std_set_configuration \/ std_set_interface \/ oep0_int_handler
              \/ usb_susr_handler \/ usb_rstr_handler \/ timer0_tick_isr
              \/ sof_int_handler

-----------------------------------------------------------------------------
(* The main loop.                                                          *)

\* The tick, served before any event: a P3.1 edge goes through the event byte
\* and is dispatched at once.  The flag is cleared last, with any tick raised
\* meanwhile.
ServeTick ==
    /\ pc = "loop" /\ f_panel_tick
    /\ \/ /\ g_p31_latch' = ~g_p31_latch
          /\ Post(IF g_p31_latch THEN SelfTestEnd ELSE SelfTest)
          /\ pc' = "dispatch" /\ UNCHANGED f_panel_tick
       \/ f_panel_tick' = FALSE /\ UNCHANGED <<g_p31_latch, post, pc>>
    /\ UNCHANGED <<selected, waiting, audio, usb, job>>

\* The dispatcher reads the byte, and the command the flags it branches on.
usb_deferred_action_dispatch ==
    /\ \/ pc = "loop" /\ ~f_panel_tick /\ g_event # 0
       \/ pc = "dispatch"
    /\ pc' = "run" /\ job' = Flagged(g_event)
    /\ UNCHANGED <<selected, waiting, post, f_panel_tick, g_p31_latch, audio, usb>>

\* The byte is cleared, whatever it holds; then the tick, at the end of one.
evt_dispatch_epilogue ==
    /\ pc' = "loop" /\ job' = NoJob
    /\ f_panel_tick' = (f_panel_tick /\ ~job.tick)
    /\ g_event' = 0 /\ fresh' = FALSE
    /\ lost' = IF fresh THEN lost \cup ({g_event} \cap Deferred) ELSE lost

\* Mutant: the endpoint stays NAKed.
NothingArmed == UNCHANGED waiting

\* evt_arm_zlp_and_finish: both halves of endpoint 0 armed.
ArmStatus == waiting' = FALSE

Does(c) == pc = "run" /\ job.cmd = c

\* The codec port is on while nothing streams; chips not set up are set up.
cmd1_apply_clock_mode ==
    LET first == job.configured /\ ~job.capture /\ ~job.playback IN
    /\ Does(Configure)
    /\ dma0' = FALSE /\ dma1' = FALSE
    /\ cpten' = first
    /\ f_ext_ready' = (first \/ (job.configured /\ f_ext_ready))
    /\ ArmStatus /\ evt_dispatch_epilogue
    /\ UNCHANGED <<selected, g_p31_latch, usb>>

\* Mutant: closing capture leaves its DMA running.
CaptureLeftOn == dma0' = FALSE /\ UNCHANGED dma1

\* Closing capture stops both channels.
CaptureOff == dma0' = FALSE /\ dma1' = FALSE

\* Opening capture sets up the chips and starts both channels; the suspend
\* interrupt is unmasked either way.
cmd2_apply_iface1_alt ==
    /\ Does(Capture)
    /\ \/ job.configured /\ job.capture /\ f_ext_ready' = TRUE /\ dma0' = TRUE /\ dma1' = TRUE
       \/ job.configured /\ ~job.capture /\ CaptureOff /\ UNCHANGED f_ext_ready
       \/ ~job.configured /\ UNCHANGED <<f_ext_ready, dma0, dma1>>
    /\ susr' = TRUE
    /\ ArmStatus /\ evt_dispatch_epilogue
    /\ UNCHANGED <<selected, g_p31_latch, cpten, conn>>

cmd3_apply_iface2_alt ==
    /\ Does(Playback)
    /\ dma0' = IF job.configured THEN job.playback ELSE dma0
    /\ f_ext_ready' = (f_ext_ready \/ (job.configured /\ job.playback))
    /\ ArmStatus /\ evt_dispatch_epilogue
    /\ UNCHANGED <<selected, g_p31_latch, cpten, dma1, usb>>

\* Events 4 to 8, 12 and 13: the source, the rate, the end of the self-test,
\* and the boot EEPROM invalidated.
SettingCommands ==
    /\ Does(Setting) \/ Does(SelfTestEnd)
    /\ evt_dispatch_epilogue
    /\ UNCHANGED <<selected, waiting, g_p31_latch, audio, usb>>

cmd11_eeprom_selftest ==
    /\ Does(SelfTest)
    /\ f_ext_ready' = TRUE
    /\ evt_dispatch_epilogue
    /\ UNCHANGED <<selected, waiting, g_p31_latch, cpten, dma0, dma1, usb>>

\* An unconfigured device has nothing to suspend.
SuspendIgnored ==
    /\ Does(Suspend) /\ ~job.configured
    /\ evt_dispatch_epilogue
    /\ UNCHANGED <<selected, waiting, g_p31_latch, audio, usb>>

\* A configured one parks its chips, stops its clocks and idles the CPU.
SuspendParks ==
    /\ Does(Suspend) /\ job.configured
    /\ pc' = "asleep" /\ f_ext_ready' = FALSE
    /\ UNCHANGED <<selected, waiting, post, f_panel_tick, g_p31_latch, cpten, dma0, dma1,
                   usb, job>>

\* Any interrupt wakes the CPU, which detaches and builds everything anew.
SuspendWakes ==
    /\ pc = "asleep" /\ pc' = "rebuilt"
    /\ conn' = FALSE /\ susr' = FALSE
    /\ f_ext_ready' = FALSE /\ cpten' = TRUE /\ dma0' = FALSE /\ dma1' = FALSE
    /\ f_configured' = FALSE /\ f_iface1_alt' = FALSE /\ f_iface2_alt' = FALSE
    /\ g_event' = 0 /\ fresh' = FALSE /\ lost' = {} /\ waiting' = FALSE
    /\ UNCHANGED <<f_panel_tick, g_p31_latch, job>>

SuspendEnds ==
    /\ pc = "rebuilt"
    /\ conn' = TRUE /\ evt_dispatch_epilogue
    /\ UNCHANGED <<selected, waiting, g_p31_latch, audio, susr>>

Commands == cmd1_apply_clock_mode \/ cmd2_apply_iface1_alt \/ cmd3_apply_iface2_alt
            \/ SettingCommands \/ cmd11_eeprom_selftest
            \/ SuspendIgnored \/ SuspendParks \/ SuspendWakes \/ SuspendEnds

main_loop == ServeTick \/ usb_deferred_action_dispatch \/ Commands

-----------------------------------------------------------------------------
\* hw_clock_codec_init and usb_ep_dma_init have run; the device has attached.
Init ==
    /\ f_configured = FALSE /\ f_iface1_alt = FALSE /\ f_iface2_alt = FALSE
    /\ waiting = FALSE
    /\ g_event = 0 /\ fresh = FALSE /\ lost = {}
    /\ f_panel_tick = FALSE /\ g_p31_latch = FALSE
    /\ f_ext_ready = FALSE /\ cpten = TRUE /\ dma0 = FALSE /\ dma1 = FALSE
    /\ susr = FALSE /\ conn = TRUE
    /\ pc = "loop" /\ job = NoJob

Next == Interrupts \/ main_loop

Spec == Init /\ [][Next]_vars

\* The main loop runs on; ticks are 4 ms apart, and between two of them it
\* comes round often enough to see an event.
FairSpec == Spec /\ WF_vars(main_loop) /\ SF_vars(usb_deferred_action_dispatch)

-----------------------------------------------------------------------------
(* Properties                                                              *)

\* A host left waiting by SET_CONFIGURATION or SET_INTERFACE gets its status
\* stage, unless the event was written over or cleared unserved: by a second
\* poster, or by the end of a job during which it was posted (g_event,
\* evt_dispatch_epilogue).
DeferredAnswered == waiting ~> (~waiting \/ lost # {})

\* With nothing pending and nothing lost, a configured device captures exactly
\* while interface 1 is open, and then its codec port is enabled and its
\* external chips are up (cmd1, cmd2; the flags of std_set_interface).
CaptureFollowsAlt ==
    pc = "loop" /\ g_event = 0 /\ f_configured /\ lost \cap {Configure, Capture} = {} =>
        /\ dma1 = f_iface1_alt
        /\ f_iface1_alt => cpten /\ f_ext_ready
==============================================================================
