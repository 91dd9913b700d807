------------------------------ MODULE StockPipe ------------------------------
(***************************************************************************)
(* Endpoint 0 of Digidesign's Rev 22 firmware, as recovered in             *)
(* firmware_stock/decomp/cand (the rev22 files), on the bus of ControlBus: *)
(* the SETUP prologue arms both directions with an empty packet before the *)
(* request is looked at; two flags name the stage the transfer is in; the  *)
(* dispatcher acknowledges VECINT after the handler has run.               *)
(*                                                                         *)
(* SET_CONFIGURATION and SET_INTERFACE leave the endpoint NAKed; the main  *)
(* loop (module StockEvents) arms it when it has done the work.            *)
(***************************************************************************)
EXTENDS ControlBus

CONSTANTS ByteBase,      \* 256 in the code: the weight of a length's high byte
          PromptAck,     \* no packet moves while an IN or OUT event is being served
          PromptLoop     \* no SETUP arrives while the main loop owes an answer

VARIABLES
    f_stage_out, f_stage_in,   \* stage of the transfer; the first also means
                               \* "more IN packets" during a read
    f_short_wanted,            \* an empty packet is owed after a full one
    g_class_tag,               \* what an OUT data stage, or IN completion, is for
    g_pending_addr,
    g_xfer_len, g_src,         \* what is left of a descriptor, and where
    deferred                   \* the main loop has still to arm the status stage

stock == <<f_stage_out, f_stage_in, f_short_wanted, g_class_tag, g_pending_addr,
           g_xfer_len, g_src, deferred>>

ASSUME StockAssumption ==
    ByteBase \in Nat \ {0, 1} /\ PromptAck \in BOOLEAN /\ PromptLoop \in BOOLEAN

\* What this image is asked.  It takes any data a write brings, accepts any
\* address, and does not clamp its short replies to wLength.
StockRequests ==
    {r \in Requests :
        /\ r.kind \in OutKinds \cup {"SET_ADDRESS"} => r.good
        /\ r.kind = "IMMEDIATE" => r.len <= r.wLen}

StockTypeOK ==
    /\ BusTypeOK
    /\ f_stage_out \in BOOLEAN /\ f_stage_in \in BOOLEAN /\ f_short_wanted \in BOOLEAN
    /\ ~(f_stage_out /\ f_stage_in)
    /\ g_class_tag \in {0, 1, 2, 5}
    /\ g_pending_addr \in Addresses
    /\ g_xfer_len \in 0..MAX_REPLY
    /\ g_src \in [for : Request, off : 0..MAX_REPLY]
    /\ deferred \in BOOLEAN

-----------------------------------------------------------------------------
(* The leaf routines.                                                      *)

\* ep0_set_both_dcnt with 0, ep0_flush_arm: both halves armed, IN with nothing.
ArmBoth == inPkt' = [inPkt EXCEPT !.len = 0] /\ inNak' = FALSE /\ outNak' = FALSE

Stage(out, in) == f_stage_out' = out /\ f_stage_in' = in

ep0_done_no_data == Stage(FALSE, FALSE)

ep0_clear_stall_toggle == stall' = FALSE /\ inToggle' = 0 /\ outToggle' = 0

\* The code's order on lengths: the low byte first, the high byte on a tie.
SwappedLess(a, b) ==
    \/ a % ByteBase < b % ByteBase
    \/ a % ByteBase = b % ByteBase /\ a \div ByteBase < b \div ByteBase

\* ep0_clamp_len_to_wlength: the clamp compares rightly, the flag does not.
ShortWanted(r) == SwappedLess(Total(r), r.wLen)

\* ep0_in_stage_and_go: the next chunk of a reply with `left` bytes to go.
ep0_in_send_chunk(r, off, left, want) ==
    LET chunk == Lesser(left, EP0_MAX_PACKET) IN
    /\ ArmIn(r, off, chunk)
    /\ g_src' = [for |-> r, off |-> off + chunk]
    /\ g_xfer_len' = left - chunk
    /\ f_short_wanted' = want
    /\ IF left - chunk > 0 \/ (chunk = EP0_MAX_PACKET /\ want)
       THEN Stage(TRUE, FALSE) ELSE Stage(FALSE, TRUE)

-----------------------------------------------------------------------------
(* The SETUP handler.  Each case ends the prologue's arming its own way.   *)

NoReply == g_xfer_len' = 0 /\ f_short_wanted' = FALSE /\ UNCHANGED g_src

Refused == ~SETPACK.good /\ ArmBoth /\ ep0_done_no_data /\ NoReply
           /\ UNCHANGED <<g_class_tag, g_pending_addr, deferred>>

ClassOut ==
    /\ SETPACK.kind \in OutKinds
    /\ g_class_tag' = IF SETPACK.kind = "SET_SAMPLE_FREQ" THEN 1 ELSE 2
    /\ ArmBoth /\ Stage(TRUE, FALSE) /\ NoReply
    /\ UNCHANGED <<g_pending_addr, deferred>>

ShortReply ==
    /\ SETPACK.good /\ SETPACK.kind = "IMMEDIATE"
    /\ ArmIn(SETPACK, 0, SETPACK.len) /\ outNak' = FALSE
    /\ Stage(FALSE, TRUE) /\ NoReply
    /\ UNCHANGED <<g_class_tag, g_pending_addr, deferred>>

std_get_descriptor ==
    /\ SETPACK.good /\ SETPACK.kind = "GET_DESCRIPTOR"
    /\ ep0_in_send_chunk(SETPACK, 0, Total(SETPACK), ShortWanted(SETPACK))
    /\ outNak' = FALSE
    /\ UNCHANGED <<g_class_tag, g_pending_addr, deferred>>

std_set_address ==
    /\ SETPACK.kind = "SET_ADDRESS"
    /\ g_class_tag' = 5 /\ g_pending_addr' = SETPACK.addr
    /\ ArmBoth /\ ep0_done_no_data /\ NoReply
    /\ UNCHANGED deferred

NoData ==
    /\ SETPACK.good /\ SETPACK.kind = "NO_DATA"
    /\ ArmBoth /\ ep0_done_no_data /\ NoReply
    /\ UNCHANGED <<g_class_tag, g_pending_addr, deferred>>

\* SET_CONFIGURATION, SET_INTERFACE: an event is posted, both halves NAKed.
Deferred ==
    /\ SETPACK.good /\ SETPACK.kind = "DEFERRED"
    /\ deferred' = TRUE
    /\ inPkt' = [inPkt EXCEPT !.len = 0] /\ inNak' = TRUE /\ outNak' = TRUE
    /\ ep0_done_no_data /\ NoReply
    /\ UNCHANGED <<g_class_tag, g_pending_addr>>

usb_setup_handler ==
    /\ isr = "SETUP" /\ isr' = "SETUP_DONE"
    /\ inToggle' = 1 /\ outToggle' = 1
    /\ stall' = ~SETPACK.good
    /\ \/ Refused \/ ClassOut \/ ShortReply \/ std_get_descriptor
       \/ std_set_address \/ NoData \/ Deferred
    /\ UNCHANGED <<USBFADR, fen, SETPACK, outOk, vecs, host>>

-----------------------------------------------------------------------------
(* The other handlers and the dispatcher.                                  *)

ep0_in_done_handler ==
    /\ isr = "IEP0" /\ isr' = "IEP0_DONE"
    /\ \/ /\ f_stage_out
          /\ ep0_in_send_chunk(g_src.for, g_src.off, g_xfer_len, f_short_wanted)
          /\ UNCHANGED <<g_class_tag, USBFADR, stall, inToggle, outToggle, outNak>>
       \/ /\ ~f_stage_out /\ f_stage_in
          /\ Stage(FALSE, FALSE) /\ outToggle' = 1 /\ ArmBoth
          /\ UNCHANGED <<g_class_tag, USBFADR, stall, inToggle, f_short_wanted,
                         g_xfer_len, g_src>>
       \/ /\ ~f_stage_out /\ ~f_stage_in
          /\ USBFADR' = IF g_class_tag = 5 THEN g_pending_addr ELSE USBFADR
          /\ g_class_tag' = IF g_class_tag = 5 THEN 0 ELSE g_class_tag
          /\ ep0_clear_stall_toggle /\ ArmBoth
          /\ UNCHANGED <<f_stage_out, f_stage_in, f_short_wanted, g_xfer_len, g_src>>
    /\ UNCHANGED <<g_pending_addr, deferred, fen, SETPACK, outOk, vecs, host>>

\* Any data of a write is taken; a status stage ends the transfer.
oep0_int_handler ==
    /\ isr = "OEP0" /\ isr' = "OEP0_DONE"
    /\ ArmBoth
    /\ \/ /\ f_stage_out
          /\ Stage(FALSE, FALSE) /\ inToggle' = 1
          /\ UNCHANGED <<stall, outToggle>>
       \/ /\ ~f_stage_out
          /\ ep0_clear_stall_toggle
          /\ UNCHANGED <<f_stage_out, f_stage_in>>
    /\ UNCHANGED <<f_short_wanted, g_class_tag, g_pending_addr, g_xfer_len, g_src,
                   deferred, USBFADR, fen, SETPACK, outOk, vecs, host>>

\* Stage flags, tag, pending address and the main loop's debt survive a reset.
usb_rstr_handler ==
    /\ isr = "RSTR" /\ isr' = "RSTR_DONE"
    /\ ArmBoth
    /\ USBFADR' = 0 /\ fen' = TRUE
    /\ stall' = FALSE /\ inToggle' = 0 /\ outToggle' = 0
    /\ UNCHANGED <<stock, SETPACK, outOk, vecs, host>>

StockEnter ==
    /\ isr = "IDLE" /\ vecs # {}
    /\ isr' = TopVector
    /\ UNCHANGED <<stock, USBFADR, fen, SETPACK, inEp, outEp, stall, vecs, host>>

\* VECINT = 0 after the handler: it takes whatever VECINT shows by then.
StockAck ==
    /\ isr \in {"SETUP_DONE", "IEP0_DONE", "OEP0_DONE", "RSTR_DONE"}
    /\ isr' = "IDLE"
    /\ vecs' = vecs \ {TopVector}
    /\ UNCHANGED <<stock, USBFADR, fen, SETPACK, inEp, outEp, stall, host>>

usb_isr_int0_vecdispatch ==
    \/ StockEnter \/ usb_setup_handler \/ ep0_in_done_handler \/ oep0_int_handler
    \/ usb_rstr_handler \/ StockAck

\* The main loop has carried out the request: evt_arm_zlp_and_finish.
evt_arm_zlp_and_finish ==
    /\ deferred /\ isr = "IDLE"
    /\ deferred' = FALSE
    /\ ArmBoth
    /\ UNCHANGED <<f_stage_out, f_stage_in, f_short_wanted, g_class_tag, g_pending_addr,
                   g_xfer_len, g_src, USBFADR, fen, SETPACK, inToggle, outOk, outToggle,
                   stall, vecs, isr, host>>

-----------------------------------------------------------------------------
\* usb_ep_dma_init leaves both halves of the endpoint armed.
StockInit ==
    /\ f_stage_out = FALSE /\ f_stage_in = FALSE /\ f_short_wanted = FALSE
    /\ g_class_tag = 0 /\ g_pending_addr = 0
    /\ g_xfer_len = 0 /\ g_src = [for |-> SETPACK, off |-> 0]
    /\ deferred = FALSE

\* A host asks a device that has no address yet for a short reply only.
StockSends ==
    /\ PromptLoop => ~deferred
    /\ \E r \in StockRequests : (r.wLen >= ByteBase => h_addr # 0) /\ HostSetup(r)
    /\ UNCHANGED stock

StockPolls ==
    /\ PromptAck => isr = "IDLE" /\ vecs \cap {"IEP0", "OEP0"} = {}
    /\ HostTransaction /\ UNCHANGED stock

StockReset == BusReset /\ UNCHANGED stock

StockNext ==
    \/ usb_isr_int0_vecdispatch
    \/ evt_arm_zlp_and_finish
    \/ StockSends
    \/ StockPolls
    \/ StockReset

StockSpec ==
    /\ BusInit(FALSE) /\ StockInit /\ [][StockNext]_<<stock, bus>>
    /\ WF_<<stock, bus>>(usb_isr_int0_vecdispatch)
    /\ WF_<<stock, bus>>(evt_arm_zlp_and_finish)
    /\ WF_<<stock, bus>>(StockPolls)
==============================================================================
