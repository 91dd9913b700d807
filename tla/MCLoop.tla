-------------------------------- MODULE MCLoop --------------------------------
(* The main loop and the panel poll it calls on a tick.  A behaviour shows    *)
(* either the loop, where the poll is part of one step, or the poll, step by  *)
(* step, and the requests that interrupt it.                                  *)
EXTENDS PanelUpdate

VARIABLES
    shown,   \* "loop" or "poll"
    loop_pc, EA, connected, g_timer0_pending, tickFree, g_work_code, susr,
    g_configured, g_dfu_request_pending       \* the loop's

Loop == INSTANCE MainLoop WITH pc <- loop_pc

loopVars == <<loop_pc, EA, connected, g_timer0_pending, tickFree, g_work_code, susr,
              g_configured, g_dfu_request_pending>>
mcVars   == <<shown, vars, loopVars>>

Looping(A) == shown = "loop" /\ A /\ UNCHANGED <<shown, vars>>
Polling(A) == shown = "poll" /\ A /\ UNCHANGED <<shown, loopVars>>

MCInit == Init /\ Loop!Init /\ shown \in {"loop", "poll"}

MCNext == Looping(Loop!Next) \/ Polling(Next)

MCSpec ==
    /\ MCInit /\ [][MCNext]_mcVars
    /\ WF_mcVars(Looping(Loop!main)) /\ WF_mcVars(Looping(Loop!wake))

\* The loop's properties; the poll's are PanelUpdate's.
SuspendServed == Loop!SuspendServed
ComesBack     == Loop!ComesBack
EnterDfuHalts == Loop!EnterDfuHalts
===============================================================================
