----------------------------- MODULE ControlPort -----------------------------
(***************************************************************************)
(* The CS8427's control port (mboxfw/src/cs8427.c): the bring-up step by   *)
(* step in the main loop, with interrupts enabled, beside the handlers     *)
(* that bring the chip up themselves (streaming.c:746, :808) and write its *)
(* clock source (streaming.c:499).                                         *)
(*                                                                         *)
(* The chip is external, as cs8427.c:17-28 describes it: reset low clears  *)
(* it, and the first select after reset chooses SPI.  Of its registers the *)
(* clock source (4) and the data flow (3) are kept.  Two frames that run   *)
(* into each other may write anything.  A publish of the latch word is one *)
(* step; ShiftChain is about its bits.                                     *)
(***************************************************************************)
EXTENDS Integers, Sequences

VARIABLES
    done,       \* 0x25.6, the bring-up guard
    reset_n,    \* 0x23.4 as latched
    mode,       \* the chip: "reset", "i2c" or "spi"
    regs,       \* its registers
    slaved,     \* g_clock_mode is 1
    work,       \* g_work_code
    pc, k,      \* the main loop, and the write of the bring-up in hand
    booting,    \* the first pass, which ends with the rate
    clash,      \* a handler's frame has cut through the main loop's
    disturbed   \* history: one used the port since the bring-up began

port == <<done, reset_n, mode, regs>>
mainloop == <<pc, k, booting>>
history == <<clash, disturbed>>
vars == <<port, slaved, work, mainloop, history>>

Values == {"zero", "lrck", "aes3", "receiver", "junk"}
AtReset == [r \in 3 .. 4 |-> "zero"]

TypeOK ==
    /\ done \in BOOLEAN /\ reset_n \in BOOLEAN /\ slaved \in BOOLEAN
    /\ mode \in {"reset", "i2c", "spi"} /\ (mode = "reset") = ~reset_n
    /\ regs \in [3 .. 4 -> Values] /\ (~reset_n => regs = AtReset)
    /\ work \in {"none", "bringup", "suspend"}
    /\ pc \in {"loop", "claimed", "released", "next", "frame", "rate", "rateframe", "parked", "asleep"}
    /\ k \in 1 .. 4 /\ booting \in BOOLEAN
    /\ clash \in BOOLEAN /\ disturbed \in BOOLEAN

-----------------------------------------------------------------------------
(* The port.                                                               *)

\* The chip after its select has gone low.
cs8427_select(m) == IF m = "reset" THEN m ELSE "spi"

\* A frame of its own.
Takes(m, rs, r, x) == IF m = "spi" THEN [rs EXCEPT ![r] = x] ELSE rs

cs8427_write(r, x) ==
    /\ mode' = cs8427_select(mode) /\ regs' = Takes(mode', regs, r, x)

\* The first three, the fourth and the last five writes of ten.
Writes == <<[r |-> 4, x |-> "zero"], [r |-> 4, x |-> "lrck"], [r |-> 3, x |-> "receiver"]>>

\* Mutant: the bring-up ends one write short.
OneShort == 2

WriteCount == 3

ClockSource(slave) == IF slave THEN "aes3" ELSE "lrck"

-----------------------------------------------------------------------------
(* The main loop.                                                          *)

BringupDone == done

\* main() calls it at boot, work_dispatch() later.
BringupCalled == pc = "loop" /\ (booting \/ work = "bringup")

\* The slot is cleared after the work, whatever it holds by then; at boot
\* streaming_set_rate(48000) follows, clock first and chip after it.
Returned ==
    IF booting THEN pc' = "rate" /\ slaved' = FALSE /\ UNCHANGED work
    ELSE pc' = "loop" /\ work' = "none" /\ UNCHANGED slaved

Skips ==
    /\ BringupCalled /\ BringupDone /\ Returned
    /\ UNCHANGED <<port, k, booting, history>>

\* cs8427_boot_init(): the guard is claimed before the work.
Claims ==
    /\ BringupCalled /\ ~BringupDone
    /\ done' = TRUE /\ pc' = "claimed" /\ k' = 1
    /\ clash' = FALSE /\ disturbed' = FALSE
    /\ UNCHANGED <<reset_n, mode, regs, slaved, work, booting>>

\* Chip select and reset released in one publish.
Releases ==
    /\ pc = "claimed" /\ pc' = "released"
    /\ reset_n' = TRUE /\ mode' = "i2c"
    /\ UNCHANGED <<done, regs, slaved, work, k, booting, history>>

\* The bare select pulse.
Pulses ==
    /\ pc = "released" /\ pc' = "next"
    /\ mode' = cs8427_select(mode)
    /\ UNCHANGED <<done, reset_n, regs, slaved, work, k, booting, history>>

Selects ==
    /\ \/ pc = "next" /\ k <= WriteCount /\ pc' = "frame"
       \/ pc = "rate" /\ pc' = "rateframe"
    /\ mode' = cs8427_select(mode) /\ clash' = FALSE
    /\ UNCHANGED <<done, reset_n, regs, slaved, work, k, booting, disturbed>>

\* What is left of a frame that was cut through goes nowhere.
Shifts ==
    /\ pc = "frame" /\ pc' = "next" /\ k' = k + 1
    /\ regs' = IF clash THEN regs ELSE Takes(mode, regs, Writes[k].r, Writes[k].x)
    /\ UNCHANGED <<done, reset_n, mode, slaved, work, booting, history>>

Ends ==
    /\ pc = "next" /\ k > WriteCount /\ Returned
    /\ UNCHANGED <<port, k, booting, history>>

BootRate ==
    /\ pc = "rateframe" /\ pc' = "loop" /\ booting' = FALSE
    /\ regs' = IF clash THEN regs ELSE Takes(mode, regs, 4, "lrck")
    /\ UNCHANGED <<done, reset_n, mode, slaved, work, k, clash, disturbed>>

\* Mutant: the suspend keeps the guard.
GuardKept == done

GuardAfterSuspend == FALSE

\* do_suspend(): the whole codec word goes to zero, with interrupts enabled,
\* and the processor idles; an unconfigured device does neither.
Suspends ==
    /\ pc = "loop" /\ ~booting /\ work = "suspend" /\ pc' = "parked"
    /\ done' = GuardAfterSuspend
    /\ reset_n' = FALSE /\ mode' = "reset" /\ regs' = AtReset
    /\ UNCHANGED <<slaved, work, k, booting, clash, disturbed>>

SuspendIgnored ==
    /\ pc = "loop" /\ ~booting /\ work = "suspend" /\ work' = "none"
    /\ UNCHANGED <<port, slaved, mainloop, history>>

Sleeps ==
    /\ pc = "parked" /\ pc' = "asleep"
    /\ UNCHANGED <<port, slaved, work, k, booting, history>>

Resumes ==
    /\ pc = "asleep" /\ pc' = "loop" /\ work' = "none"
    /\ UNCHANGED <<port, slaved, k, booting, history>>

Main == Skips \/ Claims \/ Releases \/ Pulses \/ Selects \/ Shifts \/ Ends \/ BootRate
        \/ Suspends \/ SuspendIgnored \/ Sleeps \/ Resumes

-----------------------------------------------------------------------------
(* Handlers, each from start to end.                                       *)

InFrame == pc \in {"frame", "rateframe"}

\* A frame while the main loop is in one of its own.
Collides ==
    /\ regs' \in {regs} \cup {[regs EXCEPT ![r] = x] : r \in 3 .. 4, x \in Values}
    /\ clash' = TRUE /\ UNCHANGED mode

\* streaming_set_rate(): SET_CUR of a rate or of the Selector.
streaming_set_rate(slave) ==
    /\ pc # "asleep"
    /\ slaved' = slave
    /\ IF InFrame THEN Collides
       ELSE cs8427_write(4, ClockSource(slave)) /\ UNCHANGED clash
    /\ disturbed' = (disturbed \/ pc # "loop")
    /\ UNCHANGED <<done, reset_n, work, mainloop>>

\* SET_INTERFACE of an alternate setting that streams: the bring-up at once,
\* and once more as work.
streaming_enable ==
    /\ pc # "asleep" /\ work' = "bringup"
    /\ IF BringupDone THEN UNCHANGED port
       ELSE /\ done' = TRUE /\ reset_n' = TRUE /\ mode' = "spi"
            /\ regs' = [r \in 3 .. 4 |-> IF r = 4 THEN "lrck" ELSE "receiver"]
    /\ UNCHANGED <<slaved, mainloop, history>>

SuspendIrq ==
    /\ pc # "asleep" /\ work' = "suspend"
    /\ UNCHANGED <<port, slaved, mainloop, history>>

Handlers == (\E slave \in BOOLEAN : streaming_set_rate(slave)) \/ streaming_enable \/ SuspendIrq

-----------------------------------------------------------------------------
\* main() calls the bring-up itself, attached and with interrupts enabled.
Init ==
    /\ done = FALSE /\ reset_n = FALSE /\ mode = "reset" /\ regs = AtReset
    /\ slaved = FALSE /\ work = "none" /\ pc = "loop" /\ k = 1 /\ booting = TRUE
    /\ clash = FALSE /\ disturbed = FALSE

Next == Main \/ Handlers

\* The main loop goes on while the processor is awake.
Spec == Init /\ [][Next]_vars /\ WF_vars(pc # "asleep" /\ Main)

-----------------------------------------------------------------------------
(* Properties                                                              *)

\* Whoever brought the chip up and whatever came in between, a guard that is
\* set means a chip out of reset and listening, but for the steps in which it
\* is being released (cs8427.c:174-195; the suspend clears both).
GuardMeansUsable == done /\ pc \notin {"claimed", "released"} => mode = "spi"

\* A bring-up that has set its guard is carried to its last write, unless a
\* handler has used the port meanwhile (cs8427.c:178-229).
BringupCompletes == done ~> (regs[3] = "receiver" \/ ~done \/ disturbed)

\* The clock mode and the chip's clock source belong together
\* (streaming.c:447-450), left alone by the interrupt at least.
SourceFollows == pc = "loop" /\ done /\ ~booting /\ ~disturbed => regs[4] = ClockSource(slaved)
=============================================================================
