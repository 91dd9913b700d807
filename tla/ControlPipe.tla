----------------------------- MODULE ControlPipe -----------------------------
(***************************************************************************)
(* mboxfw's endpoint 0: the SETUP, IN and OUT handlers of mboxfw/src/usb.c *)
(* run by the INT0 handler.  The registers, the UBM and the host are those *)
(* of ControlBus.                                                          *)
(***************************************************************************)
EXTENDS ControlBus

VARIABLES g_pending_address, g_ep0_reply_remaining, g_ep0_reply_src,
          g_ep0_out_pending

firmware == <<g_pending_address, g_ep0_reply_remaining, g_ep0_reply_src,
              g_ep0_out_pending>>
vars == <<firmware, bus>>

\* mboxfw obeys any payload of a mute request and defers nothing.
ASSUME PipeAssumption ==
    /\ \A r \in Requests : r.kind = "SET_MUTE" => r.good
    /\ \A r \in Requests : r.kind # "DEFERRED"

TypeOK ==
    /\ BusTypeOK
    /\ g_pending_address \in Addresses \cup {NoAddr}
    /\ g_ep0_reply_remaining \in 0..MAX_REPLY
    /\ g_ep0_reply_src \in [for : Request, off : 0..MAX_REPLY]
    /\ g_ep0_reply_src.off + g_ep0_reply_remaining <= MAX_REPLY
    /\ g_ep0_out_pending \in OutKinds \cup {"NONE"}

-----------------------------------------------------------------------------
(* Staging a reply: usb.c reply_*, stage_* and push_reply_chunk.           *)

\* reply_stall, and its undoing, write bit 3 of both EP0 configuration bytes.
SetStall(b) == stall' = b

\* Mutant: the empty reply is prepared but the endpoint never armed.
ZeroLengthNotArmed == g_ep0_reply_remaining' = 0 /\ UNCHANGED <<inPkt, inNak>>

reply_zero_length == ArmIn(SETPACK, 0, 0) /\ g_ep0_reply_remaining' = 0

\* Mutant: a full packet is always pushed, whatever is left.
PushFullPacket(r, off, remaining) ==
    /\ ArmIn(r, off, Lesser(remaining, EP0_MAX_PACKET))
    /\ g_ep0_reply_src' = [for |-> r, off |-> off + Lesser(remaining, EP0_MAX_PACKET)]
    /\ g_ep0_reply_remaining' = remaining - EP0_MAX_PACKET

\* Mutant: the source pointer is not advanced.
PushWithoutAdvance(r, off, remaining) ==
    LET n == Lesser(remaining, EP0_MAX_PACKET) IN
    /\ ArmIn(r, off, n)
    /\ g_ep0_reply_src' = [for |-> r, off |-> off]
    /\ g_ep0_reply_remaining' = remaining - n

\* Push the next chunk of a reply whose bytes from off on are still to go.
push_reply_chunk(r, off, remaining) ==
    LET n == Lesser(remaining, EP0_MAX_PACKET) IN
    /\ ArmIn(r, off, n)
    /\ g_ep0_reply_src' = [for |-> r, off |-> off + n]
    /\ g_ep0_reply_remaining' = remaining - n

\* Mutant: wLength does not clamp the reply.
StageUnclamped(r) == push_reply_chunk(r, 0, r.len)

stage_reply(r) == push_reply_chunk(r, 0, Total(r))

stage_immediate(r) ==
    /\ ArmIn(r, 0, Lesser(Lesser(r.len, EP0_MAX_PACKET), r.wLen))
    /\ g_ep0_reply_remaining' = 0
    /\ UNCHANGED g_ep0_reply_src

-----------------------------------------------------------------------------
(* The interrupt handler.  It reads one vector, the one that VECINT shows; *)
(* the IN and OUT cases write VECINT at once, the others when they finish. *)

IsrEnter ==
    /\ isr = "IDLE" /\ vecs # {}
    /\ isr' = TopVector
    /\ vecs' = IF TopVector \in {"IEP0", "OEP0"} THEN vecs \ {TopVector} ELSE vecs
    /\ UNCHANGED <<firmware, USBFADR, fen, SETPACK, inEp, outEp, stall, host>>

\* Mutants: the toggles keep the value the last transfer left, the reply in
\* progress is not dropped.
TogglesKept == UNCHANGED <<inToggle, outEp>>
ReplyKept   == UNCHANGED g_ep0_reply_remaining

\* The prologue clears STALL, sets both toggles and drops the software state
\* of an unfinished transfer before any request is looked at.
SetupPrologue ==
    /\ inToggle' = 1 /\ outToggle' = 1
    /\ UNCHANGED <<outOk, outNak>>

FlushReply == g_ep0_reply_remaining' = 0

\* Mutant: the address takes effect in the SETUP handler.
AddressAtOnce ==
    IF SETPACK.good /\ SETPACK.kind = "SET_ADDRESS"
    THEN USBFADR' = SETPACK.addr /\ UNCHANGED g_pending_address
    ELSE UNCHANGED <<USBFADR, g_pending_address>>

\* The new address waits in g_pending_address for the status stage.
set_address ==
    /\ g_pending_address' =
          IF SETPACK.good /\ SETPACK.kind = "SET_ADDRESS" THEN SETPACK.addr
          ELSE g_pending_address
    /\ UNCHANGED USBFADR

\* The answers a request can get.  reply_stall and a data stage that is still to
\* come leave the IN endpoint as it is.
Refused ==
    /\ ~SETPACK.good /\ SETPACK.kind \notin OutKinds
    /\ SetStall(TRUE) /\ FlushReply /\ g_ep0_out_pending' = "NONE"
    /\ UNCHANGED <<inPkt, inNak, g_ep0_reply_src>>

Awaits(write) ==
    /\ SETPACK.kind = write
    /\ SetStall(FALSE) /\ FlushReply /\ g_ep0_out_pending' = write
    /\ UNCHANGED <<inPkt, inNak, g_ep0_reply_src>>

Answers(kind) ==
    /\ SETPACK.good /\ SETPACK.kind = kind
    /\ SetStall(FALSE) /\ g_ep0_out_pending' = "NONE"

Immediate    == Answers("IMMEDIATE") /\ stage_immediate(SETPACK)
Acknowledged == Answers("NO_DATA") /\ reply_zero_length /\ UNCHANGED g_ep0_reply_src

\* Sampling frequency of a streaming endpoint; the routed source; a mute.
handle_class_endpoint_request == Awaits("SET_SAMPLE_FREQ") \/ Immediate
handle_selector_unit_request  == Awaits("SET_SOURCE") \/ Immediate
handle_feature_unit_request   == Awaits("SET_MUTE") \/ Immediate

class_request == handle_class_endpoint_request \/ handle_selector_unit_request
                 \/ handle_feature_unit_request \/ Acknowledged

\* Telemetry, bench controls and enter-DFU: a block to read or an order.
vendor_request == Immediate \/ Acknowledged

handle_get_descriptor == Answers("GET_DESCRIPTOR") /\ stage_reply(SETPACK)

standard_request ==
    \/ handle_get_descriptor \/ Immediate \/ Acknowledged
    \/ Answers("SET_ADDRESS") /\ reply_zero_length /\ UNCHANGED g_ep0_reply_src

handle_setup ==
    /\ isr = "SETUP" /\ isr' = "SETUP_DONE"
    /\ SetupPrologue
    /\ vendor_request \/ class_request \/ standard_request \/ Refused
    /\ set_address
    /\ UNCHANGED <<fen, SETPACK, vecs, host>>

\* VECINT = 0 at the end of the SETUP case releases the UBM.
SetupAck ==
    /\ isr = "SETUP_DONE" /\ isr' = "IDLE"
    /\ vecs' = vecs \ {"SETUP"}
    /\ UNCHANGED <<firmware, USBFADR, fen, SETPACK, inEp, outEp, stall, host>>

\* End of an IN transfer: toggles and STALL cleared, the count zeroed -- which
\* also clears the NAK bit, so an empty packet is armed.
EndOfTransfer ==
    /\ SetStall(FALSE)
    /\ inToggle' = 0 /\ outToggle' = 0
    /\ inPkt' = [inPkt EXCEPT !.len = 0] /\ inNak' = FALSE
    /\ UNCHANGED <<g_ep0_reply_remaining, g_ep0_reply_src>>

\* OEPDCNTX0 = 0, written by every IN completion and by nothing else.
ArmOut == outNak' = FALSE

service_IEP0 ==
    /\ isr = "IEP0" /\ isr' = "IDLE"
    /\ USBFADR' = IF g_pending_address # NoAddr THEN g_pending_address ELSE USBFADR
    /\ g_pending_address' = NoAddr
    /\ \/ /\ g_ep0_reply_remaining > 0
          /\ push_reply_chunk(g_ep0_reply_src.for, g_ep0_reply_src.off,
                              g_ep0_reply_remaining)
          /\ UNCHANGED <<stall, inToggle, outToggle>>
       \/ g_ep0_reply_remaining = 0 /\ EndOfTransfer
    /\ ArmOut
    /\ UNCHANGED <<g_ep0_out_pending, fen, SETPACK, outOk, vecs, host>>

\* The data stage of a class request; a packet nobody waits for (a read's
\* status stage) is ignored.
service_OEP0 ==
    /\ isr = "OEP0" /\ isr' = "IDLE"
    /\ g_ep0_out_pending' = "NONE"
    /\ \/ /\ g_ep0_out_pending = "NONE"
          /\ UNCHANGED <<inPkt, inNak, g_ep0_reply_remaining, stall>>
       \/ /\ g_ep0_out_pending # "NONE"
          /\ outOk \/ g_ep0_out_pending = "SET_MUTE"
          /\ reply_zero_length /\ UNCHANGED stall
       \/ /\ g_ep0_out_pending \in {"SET_SAMPLE_FREQ", "SET_SOURCE"} /\ ~outOk
          /\ SetStall(TRUE) /\ UNCHANGED <<inPkt, inNak, g_ep0_reply_remaining>>
    /\ UNCHANGED <<g_pending_address, g_ep0_reply_src, USBFADR, fen, SETPACK,
                   inToggle, outEp, vecs, host>>

service_RSTR ==
    /\ isr = "RSTR" /\ isr' = "IDLE"
    /\ vecs' = vecs \ {"RSTR"}
    /\ SetStall(FALSE) /\ inToggle' = 0 /\ outToggle' = 0
    /\ USBFADR' = 0 /\ fen' = TRUE
    /\ g_pending_address' = NoAddr
    /\ g_ep0_reply_remaining' = 0
    /\ g_ep0_out_pending' = "NONE"
    /\ UNCHANGED <<g_ep0_reply_src, SETPACK, inPkt, inNak, outOk, outNak, host>>

Isr == IsrEnter \/ handle_setup \/ SetupAck \/ service_IEP0 \/ service_OEP0 \/ service_RSTR

-----------------------------------------------------------------------------
FirmwareInit ==
    /\ g_pending_address = NoAddr /\ g_ep0_reply_remaining = 0
    /\ g_ep0_out_pending = "NONE"
    /\ g_ep0_reply_src = [for |-> SETPACK, off |-> 0]

Init == BusInit(TRUE) /\ FirmwareInit

HostSends   == \E r \in Requests : HostSetup(r) /\ UNCHANGED firmware
HostPolls   == HostTransaction /\ UNCHANGED firmware
ResetsBus   == BusReset /\ UNCHANGED firmware

Next == Isr \/ HostSends \/ HostPolls \/ ResetsBus

\* The CPU serves interrupts and a host that is owed an answer polls for it.
Spec == Init /\ [][Next]_vars
FairSpec == Spec /\ WF_vars(Isr) /\ WF_vars(HostPolls)

-----------------------------------------------------------------------------
\* Once a SETUP has been handled nothing of an earlier transfer is left to be
\* carried out: an address is outstanding only for the SET_ADDRESS itself, a
\* data stage only for the request that announced it.
SetupSupersedes ==
    isr = "SETUP_DONE" =>
        /\ g_pending_address # NoAddr => SETPACK.kind = "SET_ADDRESS"
        /\ g_ep0_out_pending # "NONE" => SETPACK.kind = g_ep0_out_pending
        /\ g_ep0_reply_remaining > 0 => g_ep0_reply_src.for = SETPACK
=============================================================================
