------------------------------ MODULE SafetyNet ------------------------------
(***************************************************************************)
(* Endpoint 0 of the recovery image (safety_net/src/main.c), on the bus of *)
(* ControlBus.  It enumerates and does nothing else: it serves three       *)
(* descriptors and the requests of enumeration, acknowledges the DFU       *)
(* trigger, and refuses everything with a data stage.  Its idle loop       *)
(* blinks g_stage, the highest milestone reached, on the front panel: the  *)
(* only thing a bench far away can see of a device that does not answer.   *)
(***************************************************************************)
EXTENDS ControlBus, FiniteSetsExt

VARIABLES
    pending_addr, desc_left, desc_ptr,
    g_stage,           \* the milestone the panel blinks
    g_addr_applied,    \* a SET_ADDRESS has once taken effect
    spoke              \* history: a SETUP was handled at an assigned address

canary == <<g_stage, g_addr_applied, spoke>>
net    == <<pending_addr, desc_left, desc_ptr, canary>>

\* What this image is asked.  A write with data is to it an unknown request
\* among others (NO_DATA, refused, wLen > 0), an address always good;
\* reply_short() does not clamp to wLength.
NetRequests ==
    {r \in Requests :
        /\ r.kind \notin OutKinds \cup {"DEFERRED"}
        /\ r.kind = "SET_ADDRESS" => r.good
        /\ r.kind = "IMMEDIATE" => r.len <= r.wLen}

NetTypeOK ==
    /\ BusTypeOK
    /\ pending_addr \in Addresses \cup {NoAddr}
    /\ desc_left \in 0..MAX_REPLY
    /\ desc_ptr \in [for : Request, off : 0..MAX_REPLY]
    /\ g_stage \in 6..20
    /\ g_addr_applied \in BOOLEAN /\ spoke \in BOOLEAN

-----------------------------------------------------------------------------
(* The canary.                                                             *)

\* Mutant: the stage follows the last milestone, not the highest.
StageLast(milestones) == g_stage' = Max(milestones \cup {0})

\* STAGE(n) for each of the milestones: the highest ever reached stands.
STAGE(milestones) == g_stage' = Max(milestones \cup {g_stage})

\* The milestones a request may name: which descriptor it asks for, whether
\* it is SET_CONFIGURATION, whether it is a class request with bRequest 0.
Named(r) ==
    CASE r.kind = "GET_DESCRIPTOR" -> IF r.good THEN {{11}, {17}, {18}} ELSE {{}, {18}}
      [] r.kind = "SET_ADDRESS"    -> {{12}}
      [] r.kind = "NO_DATA"        -> IF r.good THEN {{}, {19}, {20}} ELSE {{}, {20}}
      [] OTHER                     -> {{}}

-----------------------------------------------------------------------------
(* Replies.                                                                *)

reply_zlp == ArmIn(SETPACK, 0, 0) /\ desc_left' = 0 /\ UNCHANGED desc_ptr

reply_short(r) == ArmIn(r, 0, r.len) /\ desc_left' = 0 /\ UNCHANGED desc_ptr

\* The next chunk of a descriptor with `left` bytes to go.
ShipChunk(r, off, left) ==
    LET chunk == Lesser(left, EP0_MAX_PACKET) IN
    /\ ArmIn(r, off, chunk)
    /\ desc_ptr' = [for |-> r, off |-> off + chunk]
    /\ desc_left' = left - chunk

reply_desc(r) == ShipChunk(r, 0, Total(r))

-----------------------------------------------------------------------------
(* usb_service(), one vector per interrupt: SETUP and bus reset are        *)
(* acknowledged last, IN and OUT first.                                    *)

NetEnter ==
    /\ isr = "IDLE" /\ vecs # {}
    /\ isr' = TopVector
    /\ vecs' = IF TopVector \in {"IEP0", "OEP0"} THEN vecs \ {TopVector} ELSE vecs
    /\ STAGE({7, 8})
    /\ UNCHANGED <<pending_addr, desc_left, desc_ptr, g_addr_applied, spoke,
                   USBFADR, fen, SETPACK, inEp, outEp, stall, host>>

\* STALL cleared, both toggles set and the descriptor in progress dropped
\* before the request is looked at; a pending address is not dropped.
handle_setup ==
    /\ isr = "SETUP" /\ isr' = "SETUP_DONE"
    /\ inToggle' = 1 /\ outToggle' = 1
    /\ stall' = ~SETPACK.good
    /\ \E named \in Named(SETPACK) :
          STAGE({10} \cup named \cup (IF g_addr_applied THEN {14} ELSE {}))
    /\ spoke' = (spoke \/ USBFADR # 0)
    /\ pending_addr' = IF SETPACK.kind = "SET_ADDRESS" THEN SETPACK.addr ELSE pending_addr
    /\ \/ /\ ~SETPACK.good
          /\ desc_left' = 0
          /\ UNCHANGED <<inPkt, inNak, desc_ptr>>
       \/ /\ SETPACK.good /\ SETPACK.kind = "GET_DESCRIPTOR"
          /\ reply_desc(SETPACK)
       \/ /\ SETPACK.good /\ SETPACK.kind = "IMMEDIATE"
          /\ reply_short(SETPACK)
       \/ /\ SETPACK.good /\ SETPACK.kind \in NoDataKinds
          /\ reply_zlp
    /\ UNCHANGED <<g_addr_applied, USBFADR, fen, SETPACK, outOk, outNak, vecs, host>>

NetSetupAck ==
    /\ isr = "SETUP_DONE" /\ isr' = "IDLE"
    /\ vecs' = vecs \ {"SETUP"}
    /\ UNCHANGED <<net, USBFADR, fen, SETPACK, inEp, outEp, stall, host>>

\* An IN packet went out: apply a waiting address, then ship the next chunk
\* or, at the end of a transfer, clear toggles and STALL and zero the count.
vec_iep0 ==
    /\ isr = "IEP0" /\ isr' = "IDLE"
    /\ USBFADR' = IF pending_addr # NoAddr THEN pending_addr ELSE USBFADR
    /\ g_addr_applied' = (g_addr_applied \/ pending_addr # NoAddr)
    /\ pending_addr' = NoAddr
    /\ STAGE((IF pending_addr # NoAddr THEN {13} ELSE {})
             \cup (IF desc_left > 0 THEN {15} ELSE {16}))
    /\ \/ /\ desc_left > 0
          /\ ShipChunk(desc_ptr.for, desc_ptr.off, desc_left)
          /\ UNCHANGED <<stall, inToggle, outToggle>>
       \/ /\ desc_left = 0
          /\ stall' = FALSE /\ inToggle' = 0 /\ outToggle' = 0
          /\ inPkt' = [inPkt EXCEPT !.len = 0] /\ inNak' = FALSE
          /\ UNCHANGED <<desc_left, desc_ptr>>
    /\ outNak' = FALSE
    /\ UNCHANGED <<spoke, fen, SETPACK, outOk, vecs, host>>

vec_oep0 ==
    /\ isr = "OEP0" /\ isr' = "IDLE"
    /\ UNCHANGED <<net, USBFADR, fen, SETPACK, inEp, outEp, stall, vecs, host>>

vec_rstr ==
    /\ isr = "RSTR" /\ isr' = "IDLE"
    /\ vecs' = vecs \ {"RSTR"}
    /\ STAGE({9})
    /\ stall' = FALSE /\ inToggle' = 0 /\ outToggle' = 0
    /\ USBFADR' = 0 /\ fen' = TRUE
    /\ pending_addr' = NoAddr /\ desc_left' = 0
    /\ UNCHANGED <<desc_ptr, g_addr_applied, spoke, SETPACK, inPkt, inNak,
                   outOk, outNak, host>>

usb_service == NetEnter \/ handle_setup \/ NetSetupAck \/ vec_iep0 \/ vec_oep0 \/ vec_rstr

-----------------------------------------------------------------------------
\* main() has attached and blinks for ever; STAGE(6) comes before the host's
\* first reset, which the attach debounce keeps away for 100 ms.
NetInit ==
    /\ pending_addr = NoAddr
    /\ desc_left = 0 /\ desc_ptr = [for |-> SETPACK, off |-> 0]
    /\ g_stage = 6
    /\ g_addr_applied = FALSE /\ spoke = FALSE

NetSends == \E r \in NetRequests : HostSetup(r) /\ UNCHANGED net
NetPolls == HostTransaction /\ UNCHANGED net
NetReset == BusReset /\ UNCHANGED net

NetNext == usb_service \/ NetSends \/ NetPolls \/ NetReset

NetSpec == /\ BusInit(TRUE) /\ NetInit /\ [][NetNext]_<<net, bus>>
           /\ WF_<<net, bus>>(usb_service) /\ WF_<<net, bus>>(NetPolls)

-----------------------------------------------------------------------------
(* Properties                                                              *)

\* A reading below a milestone rules that milestone out: a device that blinks
\* less than 9 has not been enabled on the bus, less than 11 has sent no byte
\* of a descriptor, less than 12 has been given no address, less than 13 still
\* answers at address 0, less than 14 was never spoken to at another, less
\* than 15 never sent a second packet (the table at main.c:103-121, g_stage).
DiagnosisSound ==
    /\ fen => g_stage >= 9
    /\ h_got > 0 /\ h_req.kind = "GET_DESCRIPTOR" => g_stage >= 11
    /\ h_addr # 0 => g_stage >= 12
    /\ USBFADR # 0 => g_stage >= 13
    /\ spoke => g_stage >= 14
    /\ h_got > EP0_MAX_PACKET => g_stage >= 15
==============================================================================
