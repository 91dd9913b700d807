------------------------------ MODULE MainLoop ------------------------------
(***************************************************************************)
(* The firmware's main(): bring-up and attach, then the two-rate loop that *)
(* polls the buttons on Timer 0's tick and dispatches deferred work        *)
(* (power.c), the suspend it may run, and the halt after enter-DFU -- with *)
(* the interrupt handlers of isr.c that post to it at any point while      *)
(* interrupts are enabled.                                                 *)
(***************************************************************************)
EXTENDS Integers

VARIABLES pc,
          EA, connected,        \* interrupts enabled; USBCTL.CONN
          g_timer0_pending,
          tickFree,             \* a pass has found no tick since the last one
          g_work_code,
          susr,                 \* the suspend event waits in VECINT
          g_configured,
          g_dfu_request_pending

vars == <<pc, EA, connected, g_timer0_pending, tickFree, g_work_code,
          susr, g_configured, g_dfu_request_pending>>
loopVars == <<pc, EA, connected>>
timer    == <<g_timer0_pending, tickFree>>

Boot    == {"usb_init", "hw_init", "ea", "usb_attach", "codec_init"}
Handler == {"work", "suspend", "idle", "asleep", "detach", "rebuild", "resume_ea",
            "attach", "clear"}
Codes   == {"NONE", "BRINGUP", "SUSPEND"}

TypeOK ==
    /\ pc \in Boot \cup Handler \cup {"top", "poll", "tail", "dfu_detach", "dfu_write", "halt"}
    /\ EA \in BOOLEAN /\ connected \in BOOLEAN
    /\ g_timer0_pending \in BOOLEAN /\ tickFree \in BOOLEAN
    /\ g_work_code \in Codes
    /\ susr \in BOOLEAN /\ g_configured \in BOOLEAN
    /\ g_dfu_request_pending \in BOOLEAN

\* One step of the loop from one position to another.
At(from, to) == pc = from /\ pc' = to

-----------------------------------------------------------------------------
(* Boot: interrupts before the attach, the audio bring-up after it.        *)

\* Mutant: the attach precedes the interrupt enable.
AttachFirst == /\ At("ea", "usb_attach") /\ connected' = TRUE /\ UNCHANGED EA

enable_interrupts == At("ea", "usb_attach") /\ EA' = TRUE /\ UNCHANGED connected

boot ==
    /\ \/ At("usb_init", "hw_init") /\ UNCHANGED <<EA, connected>>
       \/ At("hw_init", "ea") /\ EA' = FALSE /\ UNCHANGED connected
       \/ enable_interrupts
       \/ At("usb_attach", "codec_init") /\ connected' = TRUE /\ UNCHANGED EA
       \/ At("codec_init", "top") /\ UNCHANGED <<EA, connected>>
    /\ UNCHANGED <<g_work_code, timer, susr, g_configured, g_dfu_request_pending>>

-----------------------------------------------------------------------------
(* The loop.                                                               *)

loop_top ==
    /\ \/ g_timer0_pending /\ At("top", "poll")
       \/ ~g_timer0_pending /\ g_work_code # "NONE" /\ At("top", "work")
       \/ ~g_timer0_pending /\ g_work_code = "NONE" /\ At("top", "tail")
    /\ tickFree' = (tickFree \/ ~g_timer0_pending)
    /\ UNCHANGED <<EA, connected, g_work_code, g_timer0_pending, susr, g_configured, g_dfu_request_pending>>

\* Mutant: the tick is not consumed.
TickKept == UNCHANGED g_timer0_pending

ConsumeTick == g_timer0_pending' = FALSE

buttons_polled ==
    /\ At("poll", "tail") /\ ConsumeTick
    /\ UNCHANGED <<EA, connected, g_work_code, tickFree, susr, g_configured, g_dfu_request_pending>>

\* Mutant: the flag is looked at only when a tick is pending.
DfuOnTick ==
    /\ \/ g_dfu_request_pending /\ g_timer0_pending /\ At("tail", "dfu_detach")
       \/ ~(g_dfu_request_pending /\ g_timer0_pending) /\ At("tail", "top")
    /\ UNCHANGED <<EA, connected, g_work_code, timer, susr, g_configured,
                   g_dfu_request_pending>>

\* Nothing to do, or the enter-DFU flag.
loop_tail ==
    /\ \/ g_dfu_request_pending /\ At("tail", "dfu_detach")
       \/ ~g_dfu_request_pending /\ At("tail", "top")
    /\ UNCHANGED <<EA, connected, g_work_code, timer, susr, g_configured, g_dfu_request_pending>>

\* Off the bus, interrupts off, signature invalidated, halt.
enter_dfu ==
    /\ \/ At("dfu_detach", "dfu_write") /\ connected' = FALSE /\ EA' = FALSE
       \/ At("dfu_write", "halt") /\ UNCHANGED <<EA, connected>>
    /\ UNCHANGED <<g_work_code, timer, susr, g_configured, g_dfu_request_pending>>

-----------------------------------------------------------------------------
(* work_dispatch() and do_suspend().                                       *)

work_dispatch ==
    /\ pc = "work"
    /\ pc' = IF g_work_code = "SUSPEND" THEN "suspend" ELSE "clear"
    /\ UNCHANGED <<EA, connected, g_work_code, timer, susr, g_configured, g_dfu_request_pending>>

\* The guard, and the clocks, codec word and panel turned off.
suspend_guard ==
    /\ pc = "suspend" /\ pc' = IF g_configured THEN "idle" ELSE "clear"
    /\ UNCHANGED <<EA, connected, g_work_code, timer, susr, g_configured, g_dfu_request_pending>>

\* Mutant: interrupts stay as hw_init() left them.
ResumeDeaf == UNCHANGED EA

ResumeEA == EA' = TRUE

\* Detach first, then rebuild with interrupts off (hw_init writes IE = 3).
DetachAndRebuild ==
    \/ At("detach", "rebuild") /\ connected' = FALSE /\ UNCHANGED EA
    \/ At("rebuild", "resume_ea") /\ EA' = FALSE /\ UNCHANGED connected

do_suspend ==
    /\ \/ At("idle", "asleep") /\ UNCHANGED <<EA, connected>>
       \/ DetachAndRebuild
       \/ At("resume_ea", "attach") /\ ResumeEA /\ UNCHANGED connected
       \/ At("attach", "clear") /\ connected' = TRUE /\ UNCHANGED EA
    /\ UNCHANGED <<g_work_code, timer, susr, g_configured, g_dfu_request_pending>>

\* Any interrupt ends the idle mode (external: the bus resumes).
wake ==
    /\ At("asleep", "detach")
    /\ UNCHANGED <<EA, connected, g_work_code, timer, susr, g_configured, g_dfu_request_pending>>

clear_work ==
    /\ At("clear", "tail") /\ g_work_code' = "NONE"
    /\ UNCHANGED <<EA, connected, timer, susr, g_configured, g_dfu_request_pending>>

main == boot \/ loop_top \/ buttons_polled \/ loop_tail \/ enter_dfu
        \/ work_dispatch \/ suspend_guard \/ do_suspend \/ clear_work

-----------------------------------------------------------------------------
(* Interrupt handlers, at any point while interrupts are enabled and the   *)
(* processor runs.                                                         *)

Interruptible == EA /\ pc # "asleep"

Post(c) == g_work_code' = c

\* Timer 0's period, 6.4 ms at the least, is longer than a pass of the loop:
\* between two of its interrupts some pass finds no tick.
isr_timer0 ==
    /\ Interruptible /\ tickFree
    /\ g_timer0_pending' = TRUE /\ tickFree' = FALSE
    /\ UNCHANGED <<loopVars, g_work_code, susr, g_configured, g_dfu_request_pending>>

\* VEC_SUSR.  The bus has been idle for 5 ms (external).
BusIdle ==
    /\ connected /\ ~susr /\ pc \notin Boot
    /\ susr' = TRUE
    /\ UNCHANGED <<loopVars, g_work_code, timer, g_configured, g_dfu_request_pending>>

isr_susr ==
    /\ Interruptible /\ susr
    /\ susr' = FALSE /\ Post("SUSPEND")
    /\ UNCHANGED <<loopVars, timer, g_configured, g_dfu_request_pending>>

\* SET_INTERFACE with alternate setting 1.
isr_set_interface ==
    /\ Interruptible /\ connected
    /\ Post("BRINGUP")
    /\ UNCHANGED <<loopVars, timer, susr, g_configured, g_dfu_request_pending>>

isr_set_configuration ==
    /\ Interruptible /\ connected
    /\ g_configured' = TRUE
    /\ UNCHANGED <<loopVars, g_work_code, timer, susr, g_dfu_request_pending>>

isr_bus_reset ==
    /\ Interruptible /\ connected
    /\ g_configured' = FALSE
    /\ UNCHANGED <<loopVars, g_work_code, timer, susr, g_dfu_request_pending>>

isr_enter_dfu ==
    /\ Interruptible /\ connected
    /\ g_dfu_request_pending' = TRUE
    /\ UNCHANGED <<loopVars, g_work_code, timer, susr, g_configured>>

isr == isr_timer0 \/ isr_susr \/ isr_set_interface \/ isr_set_configuration
       \/ isr_bus_reset \/ isr_enter_dfu

-----------------------------------------------------------------------------
Init ==
    /\ pc = "usb_init" /\ EA = FALSE /\ connected = FALSE
    /\ g_timer0_pending = FALSE /\ tickFree = TRUE
    /\ g_work_code = "NONE"
    /\ susr = FALSE /\ g_configured = FALSE
    /\ g_dfu_request_pending = FALSE

Next == main \/ isr \/ wake  \/ BusIdle

\* The processor runs, and every suspend ends.
Spec == Init /\ [][Next]_vars
FairSpec == Spec /\ WF_vars(main) /\ WF_vars(wake)

-----------------------------------------------------------------------------
\* The device is on the bus only while it takes interrupts: the host never
\* meets a device that is attached and deaf (main's order of EA and attach,
\* do_suspend's of CONN, hw_init and EA).
NeverDeafOnBus == connected => EA

\* A suspend request of a configured device puts it to sleep unless another
\* request or a reset comes between, however often the timer ticks (the
\* tick and the work share the loop, which serves the tick first).
SuspendServed ==
    (pc = "top" /\ g_work_code = "SUSPEND" /\ g_configured) ~>
        (pc = "asleep" \/ g_work_code # "SUSPEND" \/ ~g_configured
         \/ g_dfu_request_pending)

\* A device that has slept returns to its loop rebuilt: on the bus, listening
\* (do_suspend, all of its tail).
ComesBack == (pc = "asleep") ~> (pc = "tail" /\ connected /\ EA)

\* Once the host has asked for DFU the device leaves the bus and halts,
\* whatever g_work_code, ticks and suspends it is in the middle of (main's tail
\* test of g_dfu_request_pending).
EnterDfuHalts == g_dfu_request_pending ~> (pc = "halt" /\ ~connected)
=============================================================================
