----------------------------- MODULE ControlBus -----------------------------
(***************************************************************************)
(* Endpoint 0 as firmware for the TAS1020B finds it: the endpoint          *)
(* registers shared with the chip's USB buffer manager (UBM), the vectors  *)
(* it raises, and a host.  Three firmwares of the repository answer on     *)
(* this endpoint: mboxfw (ControlPipe), safety_net (SafetyNet) and the     *)
(* recovered Rev 22 stock image (StockPipe).  Each extends this module.    *)
(*                                                                         *)
(* The UBM and the host are external.  Their behaviour is the datasheet's  *)
(* (TAS1020B 2.2.7.1, 6.5.7.3): an accepted packet sets the endpoint's NAK *)
(* bit, flips its toggle and raises its vector; while a SETUP is pending   *)
(* every other transaction is NAKed; endpoint-0 vectors come first,        *)
(* SETUP before IN before OUT.                                             *)
(***************************************************************************)
EXTENDS Integers, FiniteSets

CONSTANTS EP0_MAX_PACKET,  \* 8 in the code
          MAX_REPLY,       \* bound on reply and request lengths
          Addresses,       \* device addresses, 0 among them
          NoAddr,          \* 0xFF: no SET_ADDRESS outstanding
          Requests,        \* the SETUP packets the host may send
          Abandonable,     \* kinds of request the host may give up half-way
          OnceAddressed,   \* kinds it sends only to a device with an address
          PromptIsr        \* no SETUP arrives while an IN or OUT event waits

VARIABLES
    USBFADR,     \* function address register
    fen,         \* USBCTL.FEN: the function answers on the bus
    SETPACK,     \* the SETUP packet buffer
    inPkt,       \* what the IN buffer holds and for which request
    inNak,       \* IEPDCNTX0 bit 7
    inToggle,    \* IEPCNF0 bit 5
    outOk,       \* the OUT buffer holds data the request allows
    outNak,      \* OEPDCNTX0 bit 7
    outToggle,   \* OEPCNF0 bit 5
    stall,       \* IEPCNF0 and OEPCNF0 bit 3, always written together
    vecs,        \* interrupt sources pending in VECINT
    isr,         \* what the interrupt handler is doing
    h_phase, h_req, h_got, h_toggle, h_addr   \* the host's side

outEp == <<outOk, outNak, outToggle>>
inEp  == <<inPkt, inNak, inToggle>>
host  == <<h_phase, h_req, h_got, h_toggle, h_addr>>
bus   == <<USBFADR, fen, SETPACK, inEp, outEp, stall, vecs, isr, host>>

-----------------------------------------------------------------------------
(* Requests.  `good` is the verdict of the code's own checks: a supported  *)
(* request with legal values or, for a request with an OUT data stage, a   *)
(* legal payload.  DEFERRED is a write without data that stock carries out  *)
(* in its main loop and acknowledges from there.                           *)

OutKinds  == {"SET_SAMPLE_FREQ", "SET_SOURCE", "SET_MUTE"}
ReadKinds == {"GET_DESCRIPTOR", "IMMEDIATE"}
NoDataKinds == {"SET_ADDRESS", "NO_DATA", "DEFERRED"}
Kinds     == OutKinds \cup ReadKinds \cup NoDataKinds

Request == [kind : Kinds, len : 0..MAX_REPLY, wLen : 0..MAX_REPLY,
            good : BOOLEAN, addr : Addresses]

Lesser(a, b) == IF a < b THEN a ELSE b
Total(r)     == Lesser(r.len, r.wLen)

Vectors == {"SETUP", "IEP0", "OEP0", "RSTR"}

ASSUME BusAssumption ==
    /\ EP0_MAX_PACKET \in Nat \ {0}
    /\ MAX_REPLY \in Nat
    /\ 0 \in Addresses
    /\ NoAddr \notin Addresses
    /\ Requests \subseteq Request
    /\ \A r \in Requests : r.kind \in OutKinds => r.wLen > 0
    /\ \A r \in Requests : r.kind \in NoDataKinds /\ r.good => r.wLen = 0
    /\ \A r \in Requests : r.kind = "IMMEDIATE" => r.len <= EP0_MAX_PACKET
    /\ Requests # {}
    /\ Abandonable \subseteq Kinds
    /\ OnceAddressed \subseteq Kinds
    /\ PromptIsr \in BOOLEAN

Pkt(r, off, n) == [for |-> r, off |-> off, len |-> n]
Packet == [for : Request, off : 0..MAX_REPLY, len : 0..MAX_REPLY]

IsrStates == Vectors \cup {"IDLE", "SETUP_DONE", "IEP0_DONE", "OEP0_DONE", "RSTR_DONE"}

BusTypeOK ==
    /\ USBFADR \in Addresses /\ h_addr \in Addresses
    /\ fen \in BOOLEAN /\ stall \in BOOLEAN
    /\ SETPACK \in Request /\ h_req \in Request
    /\ inPkt \in Packet
    /\ inNak \in BOOLEAN /\ outNak \in BOOLEAN /\ outOk \in BOOLEAN
    /\ inToggle \in 0..1 /\ outToggle \in 0..1 /\ h_toggle \in 0..1
    /\ vecs \subseteq Vectors
    /\ isr \in IsrStates
    /\ h_phase \in {"idle", "data_in", "status_out", "data_out", "status_in"}
    /\ h_got \in Nat

\* After a firmware's endpoint set-up and attach: OUT armed, IN as the firmware
\* left it, no address, waiting for the host's first bus reset.
BusInit(nak) ==
    /\ SETPACK \in Requests /\ h_req = SETPACK
    /\ USBFADR = 0 /\ fen = FALSE
    /\ inPkt = Pkt(SETPACK, 0, 0) /\ inNak = nak /\ inToggle = 0
    /\ outOk = FALSE /\ outNak = FALSE /\ outToggle = 0
    /\ stall = FALSE /\ vecs = {} /\ isr = "IDLE"
    /\ h_phase = "idle" /\ h_got = 0 /\ h_toggle = 1 /\ h_addr = 0

-----------------------------------------------------------------------------
(* What a handler does to the IN endpoint, and what VECINT shows it.       *)

\* Arm the IN endpoint with n bytes of r's reply starting at off: writing the
\* count clears the NAK bit.
ArmIn(r, off, n) == inPkt' = Pkt(r, off, n) /\ inNak' = FALSE

TopVector ==
    CASE "SETUP" \in vecs -> "SETUP"
      [] "SETUP" \notin vecs /\ "IEP0" \in vecs -> "IEP0"
      [] vecs \cap {"SETUP", "IEP0"} = {} /\ "OEP0" \in vecs -> "OEP0"
      [] OTHER -> "RSTR"

-----------------------------------------------------------------------------
(* The host and the UBM (external).                                        *)

FirstPhase(r) ==
    IF r.wLen = 0 THEN "status_in"
    ELSE IF r.kind \in ReadKinds THEN "data_in" ELSE "data_out"

Answering == fen /\ h_addr = USBFADR /\ "SETUP" \notin vecs
InReady   == Answering /\ ~stall /\ ~inNak

\* A host addresses the device before it configures it or sends class requests.
HostSetup(r) ==
    /\ r.kind \in OnceAddressed => h_addr # 0
    /\ fen /\ h_addr = USBFADR
    /\ h_phase = "idle" \/ h_req.kind \in Abandonable
    /\ "SETUP" \notin vecs
    /\ PromptIsr => vecs \cap {"IEP0", "OEP0"} = {} /\ isr = "IDLE"
    /\ SETPACK' = r /\ vecs' = vecs \cup {"SETUP"}
    /\ h_req' = r /\ h_phase' = FirstPhase(r) /\ h_got' = 0 /\ h_toggle' = 1
    /\ UNCHANGED <<USBFADR, fen, inEp, outEp, stall, isr, h_addr>>

\* An IN packet leaves and is acknowledged.
InDone ==
    /\ InReady
    /\ inNak' = TRUE /\ inToggle' = 1 - inToggle
    /\ vecs' = vecs \cup {"IEP0"}
    /\ UNCHANGED <<USBFADR, fen, SETPACK, inPkt, outEp, stall, isr, h_req>>

\* A packet with the wrong toggle is taken for a repeat and dropped.
HostDropsIn ==
    /\ h_phase \in {"data_in", "status_in"} /\ inToggle # h_toggle
    /\ InDone /\ UNCHANGED <<h_phase, h_got, h_toggle, h_addr>>

HostDataIn ==
    /\ h_phase = "data_in" /\ inToggle = h_toggle
    /\ InDone
    /\ h_got' = h_got + inPkt.len /\ h_toggle' = 1 - h_toggle
    /\ h_phase' = IF inPkt.len < EP0_MAX_PACKET \/ h_got' >= h_req.wLen
                  THEN "status_out" ELSE "data_in"
    /\ UNCHANGED h_addr

\* Data in a status stage is a protocol error: the transfer fails.
HostStatusIn ==
    /\ h_phase = "status_in" /\ inToggle = h_toggle
    /\ InDone
    /\ h_phase' = "idle"
    /\ h_addr' = IF inPkt.len = 0 /\ h_req.kind = "SET_ADDRESS" THEN h_req.addr
                 ELSE h_addr
    /\ UNCHANGED <<h_got, h_toggle>>

\* An OUT packet arrives; one with the wrong toggle is acknowledged and dropped.
OutDone(next) ==
    /\ Answering /\ ~stall /\ ~outNak
    /\ \/ /\ outToggle = 1
          /\ outNak' = TRUE /\ outToggle' = 0 /\ outOk' = h_req.good
          /\ vecs' = vecs \cup {"OEP0"}
       \/ outToggle = 0 /\ UNCHANGED <<outEp, vecs>>
    /\ h_phase' = next
    /\ UNCHANGED <<USBFADR, fen, SETPACK, inEp, stall, isr,
                   h_req, h_got, h_toggle, h_addr>>

HostDataOut   == h_phase = "data_out" /\ OutDone("status_in")
HostStatusOut == h_phase = "status_out" /\ OutDone("idle")

HostStalled ==
    /\ h_phase # "idle" /\ Answering /\ stall
    /\ h_phase' = "idle"
    /\ UNCHANGED <<USBFADR, fen, SETPACK, inEp, outEp, stall, vecs, isr,
                   h_req, h_got, h_toggle, h_addr>>

BusReset ==
    /\ "RSTR" \notin vecs
    /\ fen' = FALSE /\ vecs' = vecs \cup {"RSTR"}
    /\ h_phase' = "idle" /\ h_got' = 0 /\ h_addr' = 0
    /\ UNCHANGED <<USBFADR, SETPACK, inEp, outEp, stall, isr, h_req, h_toggle>>

HostTransaction == HostDropsIn \/ HostDataIn \/ HostStatusIn \/ HostDataOut
                   \/ HostStatusOut \/ HostStalled

-----------------------------------------------------------------------------
(* Properties                                                              *)

Chunk(r, n) == Lesser(EP0_MAX_PACKET, Total(r) - n)

\* The packet a reading host is about to take holds the next bytes of the
\* reply to the request it sent, and nothing left over from another transfer
\* (push_reply_chunk, and the flush of g_ep0_reply_remaining in handle_setup).
ReplyInOrder ==
    h_phase = "data_in" /\ InReady =>
        /\ h_req.good
        /\ inPkt.len = Chunk(h_req, h_got)
        /\ inPkt.len > 0 => inPkt.for = h_req /\ inPkt.off = h_got

\* The packet the host is about to take carries the toggle the host expects,
\* so that no reply is discarded as a repeat (IEPCNF0 bit 5, set in
\* handle_setup and cleared at the end of a transfer).
ToggleAgrees ==
    h_phase \in {"data_in", "status_in"} /\ InReady => inToggle = h_toggle

\* The host sees a write succeed only if the firmware accepted it: the empty
\* packet that answers a status stage was armed for this request, after its
\* data were judged (service_OEP0) or, without data, by handle_setup.
StatusJustified ==
    h_phase = "status_in" /\ InReady => h_req.good /\ inPkt.len = 0

\* While the function is enabled the device changes its address only to 0 or
\* to one the host has already moved to: SET_ADDRESS takes effect after its
\* status stage and never before (g_pending_address, applied by VEC_IEP0).
AddressAfterStatus ==
    [][fen /\ USBFADR' # USBFADR => USBFADR' \in {0, h_addr}]_bus

\* Every transfer whose SETUP has been served comes to an end, unless the host
\* starts another: the firmware arms each packet of it, stalls it, or the bus
\* is reset.
TransferEnds ==
    (h_phase # "idle" /\ "SETUP" \notin vecs) ~> (h_phase = "idle" \/ "SETUP" \in vecs)

\* The pipe implements the control transfers of module ControlTransfer: legal
\* requests are carried out in order, illegal ones and only those are refused.
Transfer == INSTANCE ControlTransfer
              WITH phase <- h_phase, req <- h_req, got <- h_got, addr <- h_addr
RefinesTransfer == Transfer!TransferSpec
=============================================================================
