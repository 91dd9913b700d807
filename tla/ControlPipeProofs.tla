-------------------------- MODULE ControlPipeProofs --------------------------
(***************************************************************************)
(* Proofs about mboxfw's control endpoint.  TypeOK holds for any host.     *)
(* SetupSupersedes, AddressAfterStatus and ReplyInOrder need a Patient     *)
(* host: one that leaves an IN or OUT event to its handler before it sends *)
(* the next SETUP, and does not give up a SET_ADDRESS half-way.  The       *)
(* inductive invariant follows the three things a handler can find left    *)
(* over: the vectors, an address that is due, a reply that is being read.  *)
(* If the host's writes are legal besides, every step of the pipe is a step *)
(* of the abstract transfer or leaves it alone.                            *)
(***************************************************************************)
EXTENDS ControlPipe, TLAPS

Patient == PromptIsr /\ "SET_ADDRESS" \notin Abandonable

NoInOut == "IEP0" \notin vecs /\ "OEP0" \notin vecs

\* A pending reset has disabled the function; a pending SETUP keeps every
\* other event away.
Vectored ==
    /\ SETPACK \in Requests
    /\ "RSTR" \in vecs => ~fen /\ h_phase = "idle"
    /\ isr = "RSTR" => "RSTR" \in vecs
    /\ isr \in {"SETUP", "SETUP_DONE"} => "SETUP" \in vecs
    /\ "SETUP" \in vecs => isr \in {"IDLE", "SETUP", "SETUP_DONE"} /\ NoInOut

\* While its SETUP is pending the host has done nothing else.
HostWaits ==
    "SETUP" \in vecs /\ "RSTR" \notin vecs =>
        /\ h_req = SETPACK /\ h_phase = FirstPhase(SETPACK)
        /\ h_toggle = 1 /\ h_got = 0

\* The status packet of a SET_ADDRESS is armed, or it has been taken.
StatusArmed ==
    /\ h_phase = "status_in" /\ h_req.kind = "SET_ADDRESS"
    /\ h_req.addr = g_pending_address
    /\ isr \in {"IDLE", "SETUP_DONE"} /\ NoInOut
    /\ ~stall /\ g_ep0_out_pending = "NONE"
    /\ inPkt.len = 0 /\ inToggle = h_toggle

StatusTaken ==
    /\ h_phase = "idle" /\ h_addr = g_pending_address
    /\ ("IEP0" \in vecs /\ isr = "IDLE") \/ isr = "IEP0"

\* An address is outstanding only between the handling of its SETUP and that
\* of its status stage, or until the reset that is pending is served.
AddressDue ==
    /\ g_pending_address # NoAddr => "RSTR" \in vecs \/ StatusArmed \/ StatusTaken
    /\ "SETUP" \in vecs /\ isr # "SETUP_DONE" => g_pending_address = NoAddr

\* What the firmware still has to send and where it starts.
Left(n) ==
    /\ n <= Total(h_req) /\ g_ep0_reply_remaining = Total(h_req) - n
    /\ g_ep0_reply_remaining > 0 => g_ep0_reply_src = [for |-> h_req, off |-> n]

ReadRefused == ~h_req.good /\ stall /\ isr \in {"IDLE", "SETUP_DONE"} /\ NoInOut

ReadArmed ==
    /\ h_req.good /\ ~inNak
    /\ isr \in {"IDLE", "SETUP_DONE"} /\ NoInOut
    /\ inPkt.len = Chunk(h_req, h_got)
    /\ inPkt.len > 0 => inPkt.for = h_req /\ inPkt.off = h_got /\ inToggle = h_toggle
    /\ g_ep0_reply_remaining > 0 => inToggle = h_toggle
    /\ h_got <= Total(h_req)
    /\ Left(h_got + inPkt.len)

ReadSent ==
    /\ h_req.good /\ inNak
    /\ \/ "IEP0" \in vecs /\ isr = "IDLE"
       \/ "IEP0" \notin vecs /\ isr = "IEP0"
    /\ "OEP0" \notin vecs
    /\ g_ep0_reply_remaining > 0 => inToggle = h_toggle
    /\ Left(h_got)

\* A read in progress is refused, has its next packet armed, or has one on its
\* way to the handler that pushes the next.
Reading ==
    h_phase = "data_in" /\ ("SETUP" \notin vecs \/ isr = "SETUP_DONE") =>
        ReadRefused \/ ReadArmed \/ ReadSent

IInv == TypeOK /\ Vectored /\ HostWaits /\ AddressDue /\ SetupSupersedes /\ Reading

-----------------------------------------------------------------------------
(* What the actions do, without how.                                       *)

\* The four ways a SETUP is answered: refused, a data stage awaited, a reply
\* staged, acknowledged at once.
NothingStaged == g_ep0_reply_remaining' = 0 /\ UNCHANGED <<inPkt, inNak, g_ep0_reply_src>>

RefusedNow(r) ==
    ~r.good /\ stall' = TRUE /\ g_ep0_out_pending' = "NONE" /\ NothingStaged

AwaitsNow(r) ==
    r.kind \in OutKinds /\ stall' = FALSE /\ g_ep0_out_pending' = r.kind /\ NothingStaged

StagedNow(r) ==
    /\ r.good /\ r.kind \in ReadKinds /\ stall' = FALSE /\ inNak' = FALSE
    /\ g_ep0_out_pending' = "NONE"
    /\ inPkt' = Pkt(r, 0, Chunk(r, 0))
    /\ g_ep0_reply_remaining' = Total(r) - Chunk(r, 0)
    /\ \/ g_ep0_reply_src' = [for |-> r, off |-> Chunk(r, 0)]
       \/ g_ep0_reply_remaining' = 0 /\ UNCHANGED g_ep0_reply_src

AcknowledgedNow(r) ==
    /\ r.good /\ r.kind \in NoDataKinds /\ stall' = FALSE /\ inNak' = FALSE
    /\ g_ep0_out_pending' = "NONE" /\ g_ep0_reply_remaining' = 0
    /\ inPkt' = Pkt(r, 0, 0) /\ UNCHANGED g_ep0_reply_src

AnsweredBy(r) == RefusedNow(r) \/ AwaitsNow(r) \/ StagedNow(r) \/ AcknowledgedNow(r)

LEMMA TotalBound ==
  ASSUME NEW r \in Request, NEW n \in Nat, n <= Total(r)
  PROVE  /\ Total(r) \in 0 .. MAX_REPLY
         /\ Chunk(r, n) \in 0 .. MAX_REPLY
         /\ n + Chunk(r, n) <= Total(r)
         /\ Chunk(r, n) <= EP0_MAX_PACKET
         /\ n < Total(r) => Chunk(r, n) > 0
BY BusAssumption, SMT DEF Request, Total, Chunk, Lesser

LEMMA SetupEffect ==
  ASSUME TypeOK, SETPACK \in Requests, handle_setup
  PROVE  /\ isr = "SETUP" /\ isr' = "SETUP_DONE"
         /\ inToggle' = 1 /\ outToggle' = 1
         /\ UNCHANGED <<fen, SETPACK, vecs, host, outOk, outNak, USBFADR>>
         /\ g_pending_address' =
               IF SETPACK.good /\ SETPACK.kind = "SET_ADDRESS" THEN SETPACK.addr
               ELSE g_pending_address
         /\ AnsweredBy(SETPACK)
<1>1. /\ isr = "SETUP" /\ isr' = "SETUP_DONE"
      /\ inToggle' = 1 /\ outToggle' = 1
      /\ UNCHANGED <<fen, SETPACK, vecs, host, outOk, outNak, USBFADR>>
      /\ g_pending_address' =
            IF SETPACK.good /\ SETPACK.kind = "SET_ADDRESS" THEN SETPACK.addr
            ELSE g_pending_address
  BY DEF handle_setup, SetupPrologue, set_address
<1> SUFFICES AnsweredBy(SETPACK)
  BY <1>1
<1>2. SETPACK \in Request
  BY DEF TypeOK, BusTypeOK
<1>3. \/ Refused \/ Immediate \/ Acknowledged
      \/ Awaits("SET_SAMPLE_FREQ") \/ Awaits("SET_SOURCE") \/ Awaits("SET_MUTE")
      \/ handle_get_descriptor
      \/ Answers("SET_ADDRESS") /\ reply_zero_length /\ UNCHANGED g_ep0_reply_src
  BY DEF handle_setup, vendor_request, class_request, standard_request,
         handle_class_endpoint_request, handle_selector_unit_request,
         handle_feature_unit_request
<1>4. CASE Refused
  BY <1>4 DEF Refused, NothingStaged, RefusedNow, AnsweredBy, SetStall, FlushReply
<1>5. CASE Immediate
  <2>1. SETPACK.len \in Nat /\ SETPACK.wLen \in Nat /\ SETPACK.len <= EP0_MAX_PACKET
    BY <1>2, <1>5, BusAssumption DEF Immediate, Answers, Request
  <2>2. /\ Chunk(SETPACK, 0) = Lesser(Lesser(SETPACK.len, EP0_MAX_PACKET), SETPACK.wLen)
        /\ Total(SETPACK) - Chunk(SETPACK, 0) = 0
    BY <2>1, BusAssumption, SMT DEF Chunk, Total, Lesser
  <2> QED
    BY <1>5, <2>2 DEF Immediate, Answers, stage_immediate, ArmIn, StagedNow, AnsweredBy,
                      SetStall, ReadKinds
<1>6. CASE Acknowledged
  BY <1>6 DEF Acknowledged, Answers, reply_zero_length, ArmIn, AcknowledgedNow, AnsweredBy, SetStall,
              NoDataKinds
<1>7. ASSUME NEW w \in OutKinds, Awaits(w) PROVE AnsweredBy(SETPACK)
  BY <1>7 DEF Awaits, NothingStaged, AwaitsNow, AnsweredBy, SetStall, FlushReply
<1>8. CASE handle_get_descriptor
  <2>1. SETPACK.len \in Nat /\ SETPACK.wLen \in Nat
    BY <1>2 DEF Request
  <2>2. Chunk(SETPACK, 0) = Lesser(Total(SETPACK), EP0_MAX_PACKET)
    BY <2>1, BusAssumption, SMT DEF Chunk, Total, Lesser
  <2>3. 0 + Chunk(SETPACK, 0) = Chunk(SETPACK, 0)
    BY <2>1, BusAssumption, SMT DEF Chunk, Total, Lesser
  <2> QED
    BY <1>8, <2>2, <2>3 DEF handle_get_descriptor, Answers, stage_reply, push_reply_chunk,
                      ArmIn, StagedNow, AnsweredBy, SetStall, ReadKinds
<1>9. CASE Answers("SET_ADDRESS") /\ reply_zero_length /\ UNCHANGED g_ep0_reply_src
  BY <1>9 DEF Answers, reply_zero_length, ArmIn, AcknowledgedNow, AnsweredBy, SetStall, NoDataKinds
<1> QED
  BY <1>3, <1>4, <1>5, <1>6, <1>7, <1>8, <1>9 DEF OutKinds

-----------------------------------------------------------------------------
(* TypeOK.                                                                 *)

LEMMA TypedInit == Init => TypeOK
<1> SUFFICES ASSUME Init PROVE TypeOK
  OBVIOUS
<1>1. SETPACK \in Request /\ h_req \in Request
  BY BusAssumption DEF Init, FirmwareInit, BusInit
<1>2. inPkt \in Packet /\ g_ep0_reply_src \in [for : Request, off : 0..MAX_REPLY]
  BY <1>1, BusAssumption DEF Init, FirmwareInit, BusInit, Packet, Pkt
<1>3. /\ fen \in BOOLEAN /\ stall \in BOOLEAN
      /\ inNak \in BOOLEAN /\ outNak \in BOOLEAN /\ outOk \in BOOLEAN
  BY Zenon DEF Init, FirmwareInit, BusInit
<1> QED
  BY <1>1, <1>2, <1>3, BusAssumption
  DEF Init, FirmwareInit, BusInit, TypeOK, BusTypeOK, Vectors, IsrStates

LEMMA TypedSetup ==
  ASSUME TypeOK, SETPACK \in Requests, handle_setup
  PROVE  TypeOK'
<1>1. SETPACK \in Request
  BY DEF TypeOK, BusTypeOK
<1>2. /\ isr' = "SETUP_DONE" /\ inToggle' = 1 /\ outToggle' = 1
      /\ UNCHANGED <<fen, SETPACK, vecs, host, outOk, outNak, USBFADR>>
      /\ g_pending_address' \in {SETPACK.addr, g_pending_address}
      /\ AnsweredBy(SETPACK)
  BY SetupEffect
<1>3. stall' \in BOOLEAN
  BY <1>2, Zenon DEF AnsweredBy, RefusedNow, AwaitsNow, StagedNow, AcknowledgedNow
<1>4. /\ g_ep0_out_pending' \in OutKinds \cup {"NONE"}
      /\ inPkt' = inPkt \/ inPkt' = Pkt(SETPACK, 0, Chunk(SETPACK, 0))
         \/ inPkt' = Pkt(SETPACK, 0, 0)
  BY <1>2 DEF AnsweredBy, RefusedNow, AwaitsNow, StagedNow, AcknowledgedNow, NothingStaged
<1>5. inNak' \in BOOLEAN
  <2>1. inNak' = inNak \/ inNak' = FALSE
    BY <1>2, Zenon DEF AnsweredBy, RefusedNow, AwaitsNow, StagedNow, AcknowledgedNow,
                       NothingStaged
  <2> QED BY <2>1, Zenon DEF TypeOK, BusTypeOK
<1>6. /\ 0 <= Total(SETPACK) /\ Total(SETPACK) \in 0 .. MAX_REPLY
      /\ Chunk(SETPACK, 0) \in 0 .. MAX_REPLY
      /\ 0 + Chunk(SETPACK, 0) <= Total(SETPACK)
  <2>1. 0 <= Total(SETPACK)
    BY <1>1, BusAssumption, SMT DEF Request, Total, Lesser
  <2> QED BY <1>1, <2>1, TotalBound, SMT
<1>7. inPkt' \in Packet
  BY <1>1, <1>4, <1>6, BusAssumption DEF Packet, Pkt, TypeOK, BusTypeOK
<1>8. /\ g_ep0_reply_remaining' \in 0..MAX_REPLY
      /\ g_ep0_reply_src' \in [for : Request, off : 0..MAX_REPLY]
      /\ (g_ep0_reply_src.off + g_ep0_reply_remaining <= MAX_REPLY)'
  <2>0. /\ g_ep0_reply_src \in [for : Request, off : 0..MAX_REPLY]
        /\ g_ep0_reply_src.off \in 0 .. MAX_REPLY /\ MAX_REPLY \in Nat
    BY BusAssumption DEF TypeOK
  <2>1. CASE g_ep0_reply_remaining' = 0 /\ UNCHANGED g_ep0_reply_src
    BY <2>0, <2>1, SMT
  <2>2. CASE /\ g_ep0_reply_remaining' = Total(SETPACK) - Chunk(SETPACK, 0)
             /\ g_ep0_reply_src' = [for |-> SETPACK, off |-> Chunk(SETPACK, 0)]
    BY <1>1, <1>6, <2>0, <2>2, SMT
  <2> QED
    BY <1>2, <2>1, <2>2
    DEF AnsweredBy, RefusedNow, AwaitsNow, StagedNow, AcknowledgedNow, NothingStaged
<1> QED
  BY <1>1, <1>2, <1>3, <1>4, <1>5, <1>7, <1>8
  DEF TypeOK, BusTypeOK, host, IsrStates, Request

LEMMA TypedEnter == ASSUME TypeOK, IsrEnter PROVE TypeOK'
<1>1. TopVector \in Vectors
  BY DEF TopVector, Vectors
<1>2. vecs' \subseteq Vectors /\ isr' \in IsrStates
  BY <1>1 DEF IsrEnter, TypeOK, BusTypeOK, IsrStates
<1> QED
  BY <1>2 DEF IsrEnter, TypeOK, BusTypeOK, firmware, inEp, outEp, host

LEMMA TypedAck == ASSUME TypeOK, SetupAck PROVE TypeOK'
BY DEF SetupAck, TypeOK, BusTypeOK, IsrStates, firmware, inEp, outEp, host

LEMMA TypedIEP0 == ASSUME TypeOK, service_IEP0 PROVE TypeOK'
<1>1. /\ inPkt \in Packet /\ MAX_REPLY \in Nat /\ EP0_MAX_PACKET \in Nat \ {0}
      /\ g_ep0_reply_src \in [for : Request, off : 0..MAX_REPLY]
      /\ g_ep0_reply_remaining \in 0 .. MAX_REPLY
      /\ g_ep0_reply_src.off + g_ep0_reply_remaining <= MAX_REPLY
  BY BusAssumption DEF TypeOK, BusTypeOK
<1>2. /\ inPkt' \in Packet
      /\ g_ep0_reply_src' \in [for : Request, off : 0..MAX_REPLY]
      /\ g_ep0_reply_remaining' \in 0 .. MAX_REPLY
      /\ (g_ep0_reply_src.off + g_ep0_reply_remaining <= MAX_REPLY)'
  <2>1. CASE g_ep0_reply_remaining = 0 /\ EndOfTransfer
    BY <1>1, <2>1, SMT DEF EndOfTransfer, Packet
  <2>2. CASE push_reply_chunk(g_ep0_reply_src.for, g_ep0_reply_src.off,
                              g_ep0_reply_remaining)
    <3> DEFINE n == Lesser(g_ep0_reply_remaining, EP0_MAX_PACKET)
    <3>1. n \in 0 .. MAX_REPLY /\ n <= g_ep0_reply_remaining
      BY <1>1, SMT DEF Lesser
    <3>2. /\ inPkt' = Pkt(g_ep0_reply_src.for, g_ep0_reply_src.off, n)
          /\ g_ep0_reply_src' = [for |-> g_ep0_reply_src.for,
                                 off |-> g_ep0_reply_src.off + n]
          /\ g_ep0_reply_remaining' = g_ep0_reply_remaining - n
      BY <2>2 DEF push_reply_chunk, ArmIn
    <3> HIDE DEF n
    <3> QED
      BY <1>1, <3>1, <3>2, SMT DEF Packet, Pkt
  <2> QED
    BY <2>1, <2>2 DEF service_IEP0
<1>3. inNak' = FALSE /\ stall' \in {stall, FALSE} /\ outNak' = FALSE
  BY Zenon DEF service_IEP0, push_reply_chunk, EndOfTransfer, ArmIn, SetStall, ArmOut
<1>4. inNak' \in BOOLEAN /\ stall' \in BOOLEAN /\ outNak' \in BOOLEAN
  BY <1>3, Zenon DEF TypeOK, BusTypeOK
<1>5. inToggle' \in 0..1 /\ outToggle' \in 0..1
  <2>1. inToggle' \in {inToggle, 0} /\ outToggle' \in {outToggle, 0}
    BY DEF service_IEP0, EndOfTransfer
  <2> QED BY <2>1 DEF TypeOK, BusTypeOK
<1>6. USBFADR' \in Addresses /\ g_pending_address' = NoAddr
  BY DEF service_IEP0, TypeOK, BusTypeOK
<1> QED
  BY <1>2, <1>4, <1>5, <1>6 DEF service_IEP0, TypeOK, BusTypeOK, IsrStates, host

LEMMA TypedOEP0 == ASSUME TypeOK, service_OEP0 PROVE TypeOK'
<1>1. /\ inPkt' \in Packet /\ g_ep0_reply_remaining' \in {0, g_ep0_reply_remaining}
  <2>1. SETPACK \in Request /\ inPkt \in Packet /\ MAX_REPLY \in Nat
    BY BusAssumption DEF TypeOK, BusTypeOK
  <2>2. \/ UNCHANGED <<inPkt, g_ep0_reply_remaining>>
        \/ inPkt' = Pkt(SETPACK, 0, 0) /\ g_ep0_reply_remaining' = 0
    BY DEF service_OEP0, reply_zero_length, ArmIn
  <2> QED BY <2>1, <2>2 DEF Pkt, Packet
<1>2. inNak' \in {inNak, FALSE} /\ stall' \in {stall, TRUE}
  BY Zenon DEF service_OEP0, reply_zero_length, ArmIn, SetStall
<1>3. inNak' \in BOOLEAN /\ stall' \in BOOLEAN
  BY <1>2, Zenon DEF TypeOK, BusTypeOK
<1>4. /\ g_ep0_reply_remaining' \in 0 .. MAX_REPLY
      /\ (g_ep0_reply_src.off + g_ep0_reply_remaining <= MAX_REPLY)'
  <2>1. UNCHANGED g_ep0_reply_src
    BY DEF service_OEP0
  <2>2. /\ g_ep0_reply_src.off \in 0 .. MAX_REPLY /\ MAX_REPLY \in Nat
        /\ g_ep0_reply_remaining \in 0 .. MAX_REPLY
        /\ g_ep0_reply_src.off + g_ep0_reply_remaining <= MAX_REPLY
    BY BusAssumption DEF TypeOK
  <2> QED
    BY <1>1, <2>1, <2>2, SMT
<1> QED
  BY <1>1, <1>3, <1>4 DEF service_OEP0, TypeOK, BusTypeOK, IsrStates, outEp, host

LEMMA TypedRSTR == ASSUME TypeOK, service_RSTR PROVE TypeOK'
<1>1. fen' \in BOOLEAN /\ stall' \in BOOLEAN
  BY Zenon DEF service_RSTR, SetStall
<1>2. /\ g_ep0_reply_src.off \in 0 .. MAX_REPLY /\ MAX_REPLY \in Nat
      /\ g_ep0_reply_remaining' = 0 /\ UNCHANGED g_ep0_reply_src
  BY BusAssumption DEF TypeOK, service_RSTR
<1>3. /\ g_ep0_reply_remaining' \in 0 .. MAX_REPLY
      /\ (g_ep0_reply_src.off + g_ep0_reply_remaining <= MAX_REPLY)'
  BY <1>2, SMT
<1> QED
  BY <1>1, <1>3, BusAssumption DEF service_RSTR, TypeOK, BusTypeOK, IsrStates, host

LEMMA TypedHost ==
  ASSUME TypeOK, HostSends \/ HostPolls \/ ResetsBus
  PROVE  TypeOK'
<1>1. CASE HostSends
  <2>1. PICK r \in Requests : HostSetup(r) /\ UNCHANGED firmware
    BY <1>1 DEF HostSends
  <2>2. r \in Request
    BY BusAssumption
  <2>3. FirstPhase(r) \in {"status_in", "data_in", "data_out"}
    BY DEF FirstPhase
  <2> QED
    BY <2>1, <2>2, <2>3
    DEF HostSetup, TypeOK, BusTypeOK, Vectors, firmware, inEp, outEp
<1>2. CASE HostPolls
  <2> /\ UNCHANGED firmware
      /\ \/ HostDropsIn \/ HostDataIn \/ HostStatusIn \/ HostDataOut
         \/ HostStatusOut \/ HostStalled
    BY <1>2 DEF HostPolls, HostTransaction
  <2>0. h_got \in Nat /\ inPkt.len \in Nat /\ h_req.addr \in Addresses
    BY BusAssumption DEF TypeOK, BusTypeOK, Packet, Request
  <2>1. ASSUME InDone PROVE /\ inNak' \in BOOLEAN /\ inToggle' \in 0..1
                            /\ vecs' \subseteq Vectors
    <3>1. inNak' \in BOOLEAN
      BY <2>1, Zenon DEF InDone
    <3>2. inToggle' \in 0..1
      BY <2>1, SMT DEF InDone, TypeOK, BusTypeOK
    <3> QED
      BY <2>1, <3>1, <3>2 DEF InDone, TypeOK, BusTypeOK, Vectors
  <2>2. ASSUME NEW next, OutDone(next)
        PROVE  /\ outNak' \in BOOLEAN /\ outOk' \in BOOLEAN /\ outToggle' \in 0..1
               /\ vecs' \subseteq Vectors
    <3>1. outNak' \in {outNak, TRUE} /\ outOk' \in {outOk, h_req.good}
      BY <2>2, Zenon DEF OutDone, outEp
    <3>2. outNak' \in BOOLEAN /\ outOk' \in BOOLEAN
      <4>1. h_req.good \in BOOLEAN
        BY DEF TypeOK, BusTypeOK, Request
      <4> QED
        BY <3>1, <4>1, Zenon DEF TypeOK, BusTypeOK
    <3>3. outToggle' \in {outToggle, 0} /\ vecs' \subseteq vecs \cup {"OEP0"}
      BY <2>2 DEF OutDone, outEp
    <3> QED
      BY <3>2, <3>3 DEF TypeOK, BusTypeOK, Vectors
  <2>3. CASE HostDropsIn
    BY <2>1, <2>3 DEF HostDropsIn, InDone, TypeOK, BusTypeOK, firmware, outEp
  <2>4. CASE HostDataIn
    <3>1. h_got' \in Nat /\ h_toggle' \in 0..1
      BY <2>0, <2>4, SMT DEF HostDataIn, TypeOK, BusTypeOK
    <3>2. h_phase' \in {"status_out", "data_in"}
      BY <2>4 DEF HostDataIn
    <3> QED
      BY <2>1, <2>4, <3>1, <3>2
      DEF HostDataIn, InDone, TypeOK, BusTypeOK, firmware, outEp
  <2>5. CASE HostStatusIn
    BY <2>0, <2>1, <2>5 DEF HostStatusIn, InDone, TypeOK, BusTypeOK, firmware, outEp
  <2>6. CASE HostDataOut
    BY <2>2, <2>6 DEF HostDataOut, OutDone, TypeOK, BusTypeOK, firmware, inEp
  <2>7. CASE HostStatusOut
    BY <2>2, <2>7 DEF HostStatusOut, OutDone, TypeOK, BusTypeOK, firmware, inEp
  <2>8. CASE HostStalled
    BY <2>8 DEF HostStalled, TypeOK, BusTypeOK, firmware, inEp, outEp
  <2> QED
    BY <2>3, <2>4, <2>5, <2>6, <2>7, <2>8
<1>3. CASE ResetsBus
  <2>1. fen' \in BOOLEAN
    BY <1>3, Zenon DEF ResetsBus, BusReset
  <2> QED
    BY <1>3, <2>1, BusAssumption
    DEF ResetsBus, BusReset, TypeOK, BusTypeOK, Vectors, firmware, inEp, outEp
<1> QED
  BY <1>1, <1>2, <1>3

\* SETPACK holds a request the host really sent.
LEMMA SentRequest ==
  /\ Init => SETPACK \in Requests
  /\ SETPACK \in Requests /\ [Next]_vars => (SETPACK \in Requests)'
<1>1. ASSUME SETPACK \in Requests, Next PROVE SETPACK' \in Requests
  BY <1>1
  DEF Next, Isr, IsrEnter, handle_setup, SetupAck, service_IEP0, service_OEP0,
      service_RSTR, HostSends, HostSetup, HostPolls, HostTransaction, HostDropsIn,
      HostDataIn, HostStatusIn, InDone, HostDataOut, HostStatusOut, OutDone,
      HostStalled, ResetsBus, BusReset
<1> QED
  BY <1>1 DEF Init, FirmwareInit, BusInit, vars, bus

\* The endpoint registers, the reply counters and the host's bookkeeping keep
\* to their ranges, whatever the host does and however it is interrupted: in
\* particular a reply never runs past the end of what it was staged from
\* (push_reply_chunk).
THEOREM PipeTyped == Spec => []TypeOK
<1>1. Init => TypeOK /\ SETPACK \in Requests
  BY TypedInit, SentRequest
<1>2. TypeOK /\ SETPACK \in Requests /\ [Next]_vars => TypeOK' /\ (SETPACK \in Requests)'
  <2> SUFFICES ASSUME TypeOK, SETPACK \in Requests, [Next]_vars
               PROVE  TypeOK'
    BY SentRequest
  <2>1. CASE Next
    BY <2>1, TypedEnter, TypedSetup, TypedAck, TypedIEP0, TypedOEP0, TypedRSTR, TypedHost
    DEF Next, Isr
  <2>2. CASE UNCHANGED vars
    BY <2>2 DEF vars, bus, firmware, inEp, outEp, host, TypeOK, BusTypeOK
  <2> QED
    BY <2>1, <2>2
<1> QED
  BY <1>1, <1>2, PTL DEF Spec

-----------------------------------------------------------------------------
(* The invariant under a Patient host, part by part.                       *)

\* What a transaction of the host leaves alone.
LEMMA HostEffect ==
  ASSUME HostTransaction
  PROVE  /\ fen /\ "SETUP" \notin vecs /\ h_phase # "idle"
         /\ UNCHANGED <<fen, USBFADR, SETPACK, inPkt, stall, isr, h_req>>
         /\ vecs' \in {vecs, vecs \cup {"IEP0"}, vecs \cup {"OEP0"}}
BY DEF HostTransaction, HostDropsIn, HostDataIn, HostStatusIn, InDone, InReady, Answering,
       HostDataOut, HostStatusOut, OutDone, HostStalled, inEp

LEMMA EnterEffect ==
  ASSUME TypeOK, IsrEnter
  PROVE  /\ isr = "IDLE" /\ isr' \in vecs
         /\ "SETUP" \in vecs => isr' = "SETUP"
         /\ isr' = "OEP0" => "IEP0" \notin vecs
         /\ vecs' = IF isr' \in {"IEP0", "OEP0"} THEN vecs \ {isr'} ELSE vecs
         /\ UNCHANGED <<firmware, USBFADR, fen, SETPACK, inEp, outEp, stall, host>>
<1>1. vecs \subseteq {"SETUP", "IEP0", "OEP0", "RSTR"}
  BY DEF TypeOK, BusTypeOK, Vectors
<1>2. isr' = TopVector /\ vecs # {}
  BY DEF IsrEnter
<1>3. /\ TopVector \in vecs
      /\ "SETUP" \in vecs => TopVector = "SETUP"
      /\ TopVector = "OEP0" => "IEP0" \notin vecs
  BY <1>1, <1>2 DEF TopVector
<1> QED
  BY <1>2, <1>3 DEF IsrEnter

LEMMA VectoredKept ==
  ASSUME TypeOK, Vectored, Patient, Next
  PROVE  Vectored'
<1>0. SETPACK' \in Requests
  BY SentRequest DEF Vectored
<1>1. CASE IsrEnter
  <2>1. vecs \subseteq {"SETUP", "IEP0", "OEP0", "RSTR"}
    BY DEF TypeOK, BusTypeOK, Vectors
  <2> QED
    BY <1>0, <1>1, <2>1, EnterEffect DEF Vectored, NoInOut, host
<1>2. CASE handle_setup
  BY <1>0, <1>2, SetupEffect DEF Vectored, NoInOut, host
<1>3. CASE SetupAck
  BY <1>0, <1>3 DEF SetupAck, Vectored, NoInOut, host
<1>4. CASE service_IEP0
  BY <1>0, <1>4 DEF service_IEP0, Vectored, NoInOut, host
<1>5. CASE service_OEP0
  BY <1>0, <1>5 DEF service_OEP0, Vectored, NoInOut, host
<1>6. CASE service_RSTR
  BY <1>0, <1>6 DEF service_RSTR, Vectored, NoInOut, host
<1>7. CASE HostSends
  BY <1>0, <1>7 DEF HostSends, HostSetup, Vectored, NoInOut, Patient
<1>8. CASE HostPolls
  BY <1>0, <1>8, HostEffect DEF HostPolls, Vectored
<1>9. CASE ResetsBus
  BY <1>0, <1>9 DEF ResetsBus, BusReset, Vectored, NoInOut
<1> QED
  BY <1>1, <1>2, <1>3, <1>4, <1>5, <1>6, <1>7, <1>8, <1>9 DEF Next, Isr

LEMMA HostWaitsKept ==
  ASSUME TypeOK, Vectored, HostWaits, Next
  PROVE  HostWaits'
<1>1. CASE IsrEnter
  BY <1>1 DEF IsrEnter, TopVector, HostWaits, host
<1>2. CASE handle_setup
  BY <1>2, SetupEffect DEF Vectored, HostWaits, host, FirstPhase
<1>3. CASE SetupAck
  BY <1>3 DEF SetupAck, HostWaits
<1>4. CASE service_IEP0
  BY <1>4 DEF service_IEP0, HostWaits, host
<1>5. CASE service_OEP0
  BY <1>5 DEF service_OEP0, HostWaits, host
<1>6. CASE service_RSTR
  BY <1>6 DEF service_RSTR, Vectored, HostWaits, host
<1>7. CASE HostSends
  BY <1>7 DEF HostSends, HostSetup, HostWaits, FirstPhase
<1>8. CASE HostPolls
  BY <1>8, HostEffect DEF HostPolls, HostWaits
<1>9. CASE ResetsBus
  BY <1>9 DEF ResetsBus, BusReset, HostWaits
<1> QED
  BY <1>1, <1>2, <1>3, <1>4, <1>5, <1>6, <1>7, <1>8, <1>9 DEF Next, Isr

LEMMA AddressDueKept ==
  ASSUME TypeOK, Vectored, HostWaits, AddressDue, Patient, Next
  PROVE  AddressDue'
<1> USE DEF AddressDue, StatusArmed, StatusTaken, NoInOut
<1>1. CASE IsrEnter
  <2>1. vecs \subseteq {"SETUP", "IEP0", "OEP0", "RSTR"}
    BY DEF TypeOK, BusTypeOK, Vectors
  <2> QED
    BY <1>1, <2>1, EnterEffect DEF Vectored, host, firmware, inEp
<1>2. CASE handle_setup
  <2>1. SETPACK \in Requests
    BY DEF Vectored
  <2>2. CASE SETPACK.good /\ SETPACK.kind = "SET_ADDRESS" /\ "RSTR" \notin vecs
    <3>1. SETPACK.wLen = 0
      BY <2>1, <2>2, BusAssumption DEF NoDataKinds
    <3>2. /\ "SETUP" \in vecs /\ h_req = SETPACK /\ h_phase = "status_in" /\ h_toggle = 1
      BY <1>2, <2>2, <3>1 DEF handle_setup, Vectored, HostWaits, FirstPhase
    <3>3. AcknowledgedNow(SETPACK)
      BY <1>2, <2>1, <2>2, SetupEffect
      DEF AnsweredBy, RefusedNow, AwaitsNow, StagedNow, OutKinds, ReadKinds
    <3>4. /\ stall' = FALSE /\ inPkt'.len = 0 /\ g_ep0_out_pending' = "NONE"
      BY <3>3 DEF AcknowledgedNow, Pkt
    <3>5. ~stall'
      BY <3>4, Zenon
    <3> QED
      BY <1>2, <2>1, <2>2, <3>2, <3>4, <3>5, SetupEffect DEF Vectored, host
  <2>3. CASE "RSTR" \in vecs
    BY <1>2, <2>1, <2>3, SetupEffect
  <2>4. CASE ~(SETPACK.good /\ SETPACK.kind = "SET_ADDRESS")
    BY <1>2, <2>1, <2>4, SetupEffect DEF Vectored
  <2> QED
    BY <2>2, <2>3, <2>4
<1>3. CASE SetupAck
  BY <1>3 DEF SetupAck, Vectored, host, firmware, inEp
<1>4. CASE service_IEP0
  BY <1>4 DEF service_IEP0, Vectored
<1>5. CASE service_OEP0
  BY <1>5 DEF service_OEP0, Vectored
<1>6. CASE service_RSTR
  BY <1>6 DEF service_RSTR
<1>7. CASE HostSends
  BY <1>7 DEF HostSends, HostSetup, Vectored, Patient, firmware, inEp
<1>8. CASE HostPolls
  <2>1. /\ fen /\ "SETUP" \notin vecs /\ h_phase # "idle" /\ UNCHANGED g_pending_address
        /\ vecs \subseteq vecs' /\ "SETUP" \notin vecs'
    BY <1>8, HostEffect DEF HostPolls, firmware
  <2>2. CASE g_pending_address = NoAddr
    BY <2>1, <2>2
  <2>3. CASE g_pending_address # NoAddr
    <3>1. StatusArmed
      BY <2>1, <2>3 DEF Vectored
    <3>2. HostStatusIn
      BY <1>8, <3>1
      DEF HostPolls, HostTransaction, HostDropsIn, HostDataIn, HostDataOut, HostStatusOut,
          HostStalled
    <3>3. isr = "IDLE"
      BY <2>1, <3>1 DEF Vectored
    <3> QED
      BY <2>1, <3>1, <3>2, <3>3 DEF HostStatusIn, InDone
  <2> QED
    BY <2>2, <2>3
<1>9. CASE ResetsBus
  BY <1>9 DEF ResetsBus, BusReset, firmware
<1> QED
  BY <1>1, <1>2, <1>3, <1>4, <1>5, <1>6, <1>7, <1>8, <1>9 DEF Next, Isr

LEMMA SupersedesKept ==
  ASSUME TypeOK, Vectored, AddressDue, SetupSupersedes, Next
  PROVE  SetupSupersedes'
<1>1. CASE handle_setup
  <2>1. SETPACK \in Requests
    BY DEF Vectored
  <2>2. g_pending_address = NoAddr
    BY <1>1 DEF handle_setup, Vectored, AddressDue
  <2>3. UNCHANGED SETPACK /\ AnsweredBy(SETPACK)
    BY <1>1, <2>1, SetupEffect
  <2>4. g_pending_address' # NoAddr => SETPACK.kind = "SET_ADDRESS"
    BY <1>1, <2>1, <2>2, SetupEffect
  <2>5. /\ g_ep0_out_pending' # "NONE" => SETPACK.kind = g_ep0_out_pending'
        /\ g_ep0_reply_remaining' > 0 => g_ep0_reply_src'.for = SETPACK
    BY <2>3 DEF AnsweredBy, RefusedNow, AwaitsNow, StagedNow, AcknowledgedNow, NothingStaged
  <2> QED
    BY <2>3, <2>4, <2>5 DEF SetupSupersedes
<1>2. CASE ~handle_setup
  <2>1. isr' # "SETUP_DONE" \/ UNCHANGED <<firmware, SETPACK, isr>>
    BY <1>2, HostEffect
    DEF Next, Isr, IsrEnter, TopVector, SetupAck, service_IEP0, service_OEP0, service_RSTR,
        HostSends, HostSetup, HostPolls, ResetsBus, BusReset, Vectored
  <2> QED
    BY <2>1 DEF SetupSupersedes, firmware
<1> QED
  BY <1>1, <1>2

LEMMA ReadStarts ==
  ASSUME TypeOK, Vectored, HostWaits, handle_setup, h_phase = "data_in"
  PROVE  ReadRefused' \/ ReadArmed'
<1>1. SETPACK \in Requests /\ SETPACK \in Request /\ NoInOut /\ "RSTR" \notin vecs
  BY DEF Vectored, handle_setup, TypeOK, BusTypeOK
<1>2. h_req = SETPACK /\ h_toggle = 1 /\ h_got = 0 /\ h_phase = FirstPhase(SETPACK)
  BY <1>1 DEF handle_setup, Vectored, HostWaits
<1>3. SETPACK.kind \in ReadKinds
  BY <1>2 DEF FirstPhase
<1>4. /\ isr' = "SETUP_DONE" /\ inToggle' = 1 /\ NoInOut'
      /\ UNCHANGED <<h_req, h_toggle, h_got>>
      /\ RefusedNow(SETPACK) \/ StagedNow(SETPACK)
  BY <1>1, <1>3, SetupEffect
  DEF AnsweredBy, AwaitsNow, AcknowledgedNow, OutKinds, ReadKinds, NoDataKinds, host, NoInOut
<1>5. CASE RefusedNow(SETPACK)
  <2>1. ~SETPACK.good /\ stall'
    BY <1>5, Zenon DEF RefusedNow
  <2> QED
    BY <1>2, <1>4, <2>1 DEF ReadRefused
<1>6. CASE StagedNow(SETPACK)
  <2>1. SETPACK.good /\ ~inNak'
    BY <1>6, Zenon DEF StagedNow
  <2>2. /\ 0 <= Total(SETPACK) /\ Total(SETPACK) \in Nat
    BY <1>1, BusAssumption, SMT DEF Request, Total, Lesser
  <2>3. /\ Chunk(SETPACK, 0) \in Nat /\ 0 + Chunk(SETPACK, 0) <= Total(SETPACK)
    BY <1>1, <2>2, TotalBound, BusAssumption, SMT
  <2>4. /\ inPkt' = Pkt(SETPACK, 0, Chunk(SETPACK, 0))
        /\ g_ep0_reply_remaining' = Total(SETPACK) - Chunk(SETPACK, 0)
        /\ \/ g_ep0_reply_src' = [for |-> SETPACK, off |-> Chunk(SETPACK, 0)]
           \/ g_ep0_reply_remaining' = 0
    BY <1>6 DEF StagedNow
  <2>5. /\ inPkt'.len = Chunk(SETPACK, 0) /\ inPkt'.for = SETPACK /\ inPkt'.off = 0
        /\ 0 + Chunk(SETPACK, 0) = Chunk(SETPACK, 0)
    BY <2>3, <2>4 DEF Pkt
  <2> QED
    BY <1>2, <1>4, <2>1, <2>2, <2>3, <2>4, <2>5 DEF ReadArmed, Left
<1> QED
  BY <1>4, <1>5, <1>6

\* The last packet of a read has been taken, or the next one is pushed.
LEMMA ReadContinues ==
  ASSUME TypeOK, Vectored, ReadSent, service_IEP0
  PROVE  ReadArmed'
<1> DEFINE n == Chunk(h_req, h_got)
<1>1. h_req \in Request /\ h_got \in Nat /\ MAX_REPLY \in Nat /\ EP0_MAX_PACKET \in Nat \ {0}
  BY BusAssumption DEF TypeOK, BusTypeOK
<1>2. /\ h_got <= Total(h_req) /\ g_ep0_reply_remaining = Total(h_req) - h_got
      /\ h_req.good /\ "OEP0" \notin vecs /\ "IEP0" \notin vecs
  BY DEF ReadSent, Left, service_IEP0
<1>3. Total(h_req) \in 0 .. MAX_REPLY /\ n \in 0 .. MAX_REPLY /\ h_got + n <= Total(h_req)
  BY <1>1, <1>2, TotalBound
<1>4. isr' = "IDLE" /\ inNak' = FALSE /\ UNCHANGED <<vecs, h_req, h_got, h_toggle>>
  BY Zenon DEF service_IEP0, push_reply_chunk, EndOfTransfer, ArmIn, host
<1>5. ~inNak'
  BY <1>4, Zenon
<1>6. CASE g_ep0_reply_remaining > 0
  <2>1. /\ g_ep0_reply_src = [for |-> h_req, off |-> h_got] /\ inToggle = h_toggle
    BY <1>6 DEF ReadSent, Left
  <2>2. Lesser(g_ep0_reply_remaining, EP0_MAX_PACKET) = n
    BY <1>1, <1>2, <1>3, SMT DEF Chunk, Lesser
  <2>3. /\ push_reply_chunk(h_req, h_got, g_ep0_reply_remaining) /\ UNCHANGED inToggle
    BY <1>6, <2>1 DEF service_IEP0
  <2>4. /\ inPkt' = Pkt(h_req, h_got, n)
        /\ g_ep0_reply_src' = [for |-> h_req, off |-> h_got + n]
        /\ g_ep0_reply_remaining' = Total(h_req) - h_got - n
    BY <1>2, <2>2, <2>3 DEF push_reply_chunk, ArmIn
  <2>5. inPkt'.len = n /\ inPkt'.for = h_req /\ inPkt'.off = h_got
    BY <2>4 DEF Pkt
  <2>6. g_ep0_reply_remaining' = Total(h_req) - (h_got + n)
    BY <1>1, <1>3, <2>4, SMT
  <2> QED
    BY <1>2, <1>3, <1>4, <1>5, <2>1, <2>3, <2>4, <2>5, <2>6
    DEF ReadArmed, Left, NoInOut
<1>7. CASE g_ep0_reply_remaining = 0
  <2>1. EndOfTransfer
    BY <1>7 DEF service_IEP0
  <2>2. inPkt'.len = 0 /\ g_ep0_reply_remaining' = 0
    BY <1>7, <2>1 DEF EndOfTransfer, TypeOK, BusTypeOK, Packet
  <2>3. h_got = Total(h_req)
    BY <1>1, <1>2, <1>3, <1>7, SMT
  <2>4. n = 0 /\ h_got + 0 = Total(h_req) /\ Total(h_req) - Total(h_req) = 0
    BY <1>1, <1>3, <2>3, SMT DEF Chunk, Lesser
  <2> QED
    BY <1>2, <1>3, <1>4, <1>5, <2>2, <2>3, <2>4 DEF ReadArmed, Left, NoInOut
<1> QED
  BY <1>6, <1>7 DEF TypeOK

\* The host takes the packet that is armed, or drops the empty one as a repeat.
LEMMA ReadTaken ==
  ASSUME TypeOK, Vectored, ReadArmed, h_phase = "data_in", HostPolls
  PROVE  h_phase' = "data_in" => ReadSent'
<1> SUFFICES ASSUME h_phase' = "data_in" PROVE ReadSent'
  OBVIOUS
<1>1. /\ h_req \in Request /\ h_got \in Nat /\ inPkt.len \in Nat
      /\ EP0_MAX_PACKET \in Nat \ {0} /\ inToggle \in 0..1 /\ h_toggle \in 0..1
      /\ Total(h_req) \in Nat
  BY BusAssumption, SMT DEF TypeOK, BusTypeOK, Packet, Request, Total, Lesser
<1>2. /\ InDone /\ UNCHANGED firmware
      /\ \/ HostDropsIn
         \/ HostDataIn
  BY Zenon
  DEF HostPolls, HostTransaction, HostDropsIn, HostDataIn, HostStatusIn, HostDataOut,
      HostStatusOut, OutDone, HostStalled, ReadArmed
<1>3. /\ inNak' = TRUE /\ inToggle' = 1 - inToggle /\ vecs' = vecs \cup {"IEP0"}
      /\ UNCHANGED <<isr, h_req, g_ep0_reply_remaining, g_ep0_reply_src>>
      /\ isr = "IDLE" /\ "OEP0" \notin vecs
  BY <1>2, Zenon DEF InDone, InReady, Answering, firmware, ReadArmed, Vectored, NoInOut
<1>4. inNak'
  BY <1>3, Zenon
<1>5. CASE HostDropsIn
  <2>1. inToggle # h_toggle /\ UNCHANGED <<h_got, h_toggle>>
    BY <1>5 DEF HostDropsIn
  <2>2. inPkt.len = 0 /\ g_ep0_reply_remaining = 0
    BY <1>1, <2>1 DEF ReadArmed, TypeOK
  <2>3. Left(h_got)
    BY <1>1, <2>2, SMT DEF ReadArmed, Left
  <2> QED
    BY <1>3, <1>4, <2>1, <2>2, <2>3 DEF ReadSent, ReadArmed, Left, Total
<1>6. CASE HostDataIn
  <2>1. /\ inToggle = h_toggle
        /\ h_got' = h_got + inPkt.len /\ h_toggle' = 1 - h_toggle
    BY <1>6 DEF HostDataIn
  <2>2. inToggle' = h_toggle'
    BY <1>3, <2>1
  <2> QED
    BY <1>3, <1>4, <2>1, <2>2 DEF ReadSent, ReadArmed, Left, Total
<1> QED
  BY <1>2, <1>5, <1>6

LEMMA ReadingKept ==
  ASSUME TypeOK, Vectored, HostWaits, Reading, Patient, Next
  PROVE  Reading'
<1> SUFFICES ASSUME h_phase' = "data_in", "SETUP" \notin vecs' \/ isr' = "SETUP_DONE"
             PROVE  (ReadRefused \/ ReadArmed \/ ReadSent)'
  BY DEF Reading
<1> USE DEF ReadRefused, ReadArmed, ReadSent, Left, Total, NoInOut
<1>1. CASE IsrEnter
  <2>1. vecs \subseteq {"SETUP", "IEP0", "OEP0", "RSTR"}
    BY DEF TypeOK, BusTypeOK, Vectors
  <2>2. h_phase = "data_in" /\ "SETUP" \notin vecs /\ "RSTR" \notin vecs
    BY <1>1, EnterEffect DEF host, Vectored
  <2>3. "IEP0" \in vecs /\ "OEP0" \notin vecs /\ ReadSent
    BY <1>1, <2>1, <2>2, EnterEffect DEF Reading
  <2> QED
    BY <1>1, <2>1, <2>2, <2>3, EnterEffect DEF host, firmware, inEp
<1>2. CASE handle_setup
  <2>1. h_phase = "data_in"
    BY <1>2 DEF handle_setup, host
  <2> QED
    BY <1>2, <2>1, ReadStarts
<1>3. CASE SetupAck
  BY <1>3 DEF SetupAck, Reading, Vectored, host, firmware, inEp
<1>4. CASE service_IEP0
  <2>1. h_phase = "data_in" /\ "SETUP" \notin vecs /\ isr = "IEP0"
    BY <1>4 DEF service_IEP0, host
  <2>2. ReadSent
    BY <2>1 DEF Reading
  <2> QED
    BY <1>4, <2>2, ReadContinues
<1>5. CASE service_OEP0
  BY <1>5 DEF service_OEP0, Reading, host
<1>6. CASE service_RSTR
  BY <1>6 DEF service_RSTR, Vectored, host
<1>7. CASE HostSends
  BY <1>7 DEF HostSends, HostSetup, Vectored, Patient
<1>8. CASE HostPolls
  <2>1. h_phase = "data_in"
    BY <1>8
    DEF HostPolls, HostTransaction, HostDropsIn, HostDataIn, HostStatusIn, HostDataOut,
        HostStatusOut, OutDone, HostStalled
  <2>2. "SETUP" \notin vecs /\ ~stall /\ ~inNak
    BY <1>8, <2>1
    DEF HostPolls, HostTransaction, HostDropsIn, HostDataIn, HostStatusIn, HostDataOut,
        HostStatusOut, HostStalled, InDone, InReady, Answering
  <2>3. ReadArmed
    BY <2>1, <2>2 DEF Reading
  <2> QED
    BY <1>8, <2>1, <2>3, ReadTaken
<1>9. CASE ResetsBus
  BY <1>9 DEF ResetsBus, BusReset
<1> QED
  BY <1>1, <1>2, <1>3, <1>4, <1>5, <1>6, <1>7, <1>8, <1>9 DEF Next, Isr

LEMMA InvInit == Init => IInv
<1> SUFFICES ASSUME Init PROVE IInv
  OBVIOUS
<1>1. TypeOK
  BY TypedInit
<1>2. Vectored /\ HostWaits /\ AddressDue /\ SetupSupersedes /\ Reading
  BY DEF Init, FirmwareInit, BusInit, Vectored, HostWaits, AddressDue, SetupSupersedes, Reading, NoInOut
<1> QED
  BY <1>1, <1>2 DEF IInv

LEMMA InvStep == Patient /\ IInv /\ [Next]_vars => IInv'
<1> SUFFICES ASSUME Patient, IInv, [Next]_vars PROVE IInv'
  OBVIOUS
<1>1. TypeOK /\ SETPACK \in Requests
  BY DEF IInv, Vectored
<1>2. CASE Next
  <2>1. TypeOK'
    BY <1>1, <1>2, TypedEnter, TypedSetup, TypedAck, TypedIEP0, TypedOEP0, TypedRSTR,
       TypedHost
    DEF Next, Isr
  <2> QED
    BY <1>2, <2>1, VectoredKept, HostWaitsKept, AddressDueKept, SupersedesKept, ReadingKept
    DEF IInv
<1>3. CASE UNCHANGED vars
  <2>1. TypeOK'
    BY <1>1, <1>3 DEF vars, bus, firmware, inEp, outEp, host, TypeOK, BusTypeOK
  <2>2. (Vectored /\ HostWaits /\ AddressDue /\ SetupSupersedes)'
    BY <1>3
    DEF vars, bus, firmware, inEp, outEp, host, IInv, Vectored, HostWaits, AddressDue,
        StatusArmed, StatusTaken, SetupSupersedes, NoInOut
  <2>3. Reading'
    BY <1>3
    DEF vars, bus, firmware, inEp, outEp, host, IInv, Reading, ReadRefused, ReadArmed,
        ReadSent, Left, Total, NoInOut
  <2> QED
    BY <2>1, <2>2, <2>3 DEF IInv
<1> QED
  BY <1>2, <1>3

\* Once a SETUP has been handled nothing of an earlier transfer is left to be
\* carried out, provided the host does not abandon a SET_ADDRESS
\* (handle_setup and g_pending_address, g_ep0_out_pending, g_ep0_reply_*).
THEOREM NothingLeftOver ==
  ASSUME Patient PROVE Spec => []SetupSupersedes
<1>1. IInv => SetupSupersedes
  BY DEF IInv
<1> QED
  BY <1>1, InvInit, InvStep, PTL DEF Spec

\* SET_ADDRESS takes effect after its status stage and never before
\* (g_pending_address, applied by the VEC_IEP0 case).
THEOREM AddressWaits ==
  ASSUME Patient PROVE Spec => AddressAfterStatus
<1>1. IInv /\ [Next]_vars => [fen /\ USBFADR' # USBFADR => USBFADR' \in {0, h_addr}]_bus
  <2> SUFFICES ASSUME IInv, [Next]_vars, fen, USBFADR' # USBFADR
               PROVE  USBFADR' \in {0, h_addr}
    BY DEF vars, bus
  <2>1. Next /\ TypeOK /\ SETPACK \in Requests
    BY DEF vars, bus, IInv, Vectored
  <2>2. service_IEP0 \/ service_RSTR
    BY <2>1, SetupEffect, HostEffect
    DEF Next, Isr, IsrEnter, SetupAck, service_OEP0, HostSends, HostSetup, HostPolls,
        ResetsBus, BusReset
  <2>3. CASE service_RSTR
    BY <2>3 DEF service_RSTR
  <2>4. CASE service_IEP0
    BY <2>4 DEF service_IEP0, IInv, Vectored, AddressDue, StatusArmed, StatusTaken
  <2> QED
    BY <2>2, <2>3, <2>4
<1> QED
  BY <1>1, InvInit, InvStep, PTL DEF Spec, AddressAfterStatus

\* The packet a reading host is about to take holds the next bytes of the reply
\* to the request it sent and nothing left over from another transfer, for every
\* length of reply and of packet (push_reply_chunk, stage_reply).
THEOREM RepliesInOrder ==
  ASSUME Patient PROVE Spec => []ReplyInOrder
<1>1. IInv => ReplyInOrder
  BY DEF IInv, ReplyInOrder, InReady, Answering, Reading, ReadRefused, ReadArmed, ReadSent
<1> QED
  BY <1>1, InvInit, InvStep, PTL DEF Spec

-----------------------------------------------------------------------------
(* The refinement of ControlTransfer.  It needs the writes to be legal: an *)
(* illegal one can be acknowledged by the packet the last transfer left    *)
(* armed, which the abstract transfer forbids.                             *)

LegalWrites == \A r \in Requests : r.kind \in OutKinds => r.good

\* The SETUP of the host's request has been handled.
Handled == "SETUP" \notin vecs \/ isr = "SETUP_DONE"

\* A refused request stays stalled, because nothing is on its way that could
\* clear the stall; only refused ones are stalled.
OnlyBadStall ==
    /\ h_phase \in {"data_out", "status_in"} /\ Handled /\ ~h_req.good =>
           stall /\ isr \in {"IDLE", "SETUP_DONE"} /\ NoInOut
    /\ h_phase # "idle" /\ Handled /\ stall => ~h_req.good

\* The status packet of a SET_ADDRESS is its own.
AddressStatus ==
    h_phase = "status_in" /\ h_req.kind = "SET_ADDRESS" /\ h_req.good /\ Handled =>
        /\ inPkt.len = 0 /\ inToggle = h_toggle
        /\ isr \in {"IDLE", "SETUP_DONE"} /\ NoInOut

\* Which requests have which stages.
Stages ==
    /\ h_phase = "data_in" => h_req.kind \in ReadKinds
    /\ h_phase = "data_out" => ~(h_req.good /\ h_req.kind = "SET_ADDRESS")
    /\ h_phase = "status_out" => h_req.kind \in ReadKinds /\ h_req.good

\* The data the OUT handler is about to judge are legal.
Judged == "OEP0" \in vecs \/ isr = "OEP0" => g_ep0_out_pending = "NONE" \/ outOk

JInv == OnlyBadStall /\ AddressStatus /\ Stages /\ Judged

\* The handled request is the host's, or the host has been reset.
LEMMA SetupAnswers ==
  ASSUME TypeOK, Vectored, HostWaits, LegalWrites, handle_setup
  PROVE  (OnlyBadStall /\ AddressStatus)'
<1>1. SETPACK \in Requests /\ SETPACK \in Request /\ NoInOut
  BY DEF Vectored, handle_setup, TypeOK, BusTypeOK
<1>2. /\ isr' = "SETUP_DONE" /\ inToggle' = 1 /\ NoInOut' /\ AnsweredBy(SETPACK)
      /\ UNCHANGED <<h_phase, h_req, h_toggle, vecs>>
  BY <1>1, SetupEffect DEF host, NoInOut
<1>3. CASE h_phase = "idle"
  BY <1>2, <1>3 DEF OnlyBadStall, AddressStatus
<1>4. CASE h_phase # "idle"
  <2>1. h_req = SETPACK /\ h_toggle = 1 /\ h_phase = FirstPhase(SETPACK)
    BY <1>4 DEF handle_setup, Vectored, HostWaits
  <2>2. CASE RefusedNow(SETPACK)
    <3>1. ~SETPACK.good /\ stall'
      BY <2>2, Zenon DEF RefusedNow
    <3> QED
      BY <1>2, <2>1, <3>1 DEF OnlyBadStall, AddressStatus
  <2>3. CASE ~RefusedNow(SETPACK)
    <3>1. stall' = FALSE
      BY <1>2, <2>3, Zenon DEF AnsweredBy, AwaitsNow, StagedNow, AcknowledgedNow
    <3>2. ~stall'
      BY <3>1, Zenon
    <3>3. SETPACK.good
      BY <1>1, <1>2, <2>3 DEF AnsweredBy, AwaitsNow, StagedNow, AcknowledgedNow, LegalWrites
    <3>4. SETPACK.kind = "SET_ADDRESS" => inPkt'.len = 0
      BY <1>2, <2>3 DEF AnsweredBy, AwaitsNow, StagedNow, AcknowledgedNow, OutKinds,
                        ReadKinds, Pkt
    <3> QED
      BY <1>2, <2>1, <3>2, <3>3, <3>4 DEF OnlyBadStall, AddressStatus
  <2> QED
    BY <2>2, <2>3
<1> QED
  BY <1>3, <1>4

LEMMA OnlyBadStallKept ==
  ASSUME IInv, JInv, LegalWrites, Patient, Next
  PROVE  (OnlyBadStall /\ AddressStatus)'
<1> USE DEF OnlyBadStall, AddressStatus, Handled, NoInOut
<1>0. TypeOK /\ Vectored /\ HostWaits /\ Judged /\ OnlyBadStall /\ AddressStatus /\ Stages
  BY DEF IInv, JInv
<1>1. CASE IsrEnter
  <2>1. vecs \subseteq {"SETUP", "IEP0", "OEP0", "RSTR"}
    BY <1>0 DEF TypeOK, BusTypeOK, Vectors
  <2>2. /\ isr = "IDLE" /\ isr' \in vecs /\ ("SETUP" \in vecs' <=> "SETUP" \in vecs)
        /\ "SETUP" \in vecs => isr' = "SETUP"
        /\ UNCHANGED <<h_phase, h_req, h_toggle, stall, inPkt, inToggle>>
    BY <1>0, <1>1, EnterEffect DEF host, inEp
  <2>3. CASE "SETUP" \in vecs \/ h_phase = "idle"
    BY <2>2, <2>3
  <2>4. CASE "SETUP" \notin vecs /\ h_phase # "idle"
    <3>1. ~NoInOut
      BY <1>0, <2>1, <2>2, <2>4 DEF Vectored
    <3> QED
      BY <1>0, <2>2, <2>4, <3>1
  <2> QED
    BY <2>3, <2>4
<1>2. CASE handle_setup
  BY <1>0, <1>2, SetupAnswers
<1>3. CASE SetupAck
  BY <1>0, <1>3 DEF SetupAck, Vectored, host, firmware, inEp
<1>4. CASE service_IEP0
  <2>1. stall' = stall \/ stall' = FALSE
    BY <1>4, Zenon DEF service_IEP0, EndOfTransfer, SetStall
  <2>2. stall' => stall
    BY <2>1, Zenon
  <2> QED
    BY <1>0, <1>4, <2>2 DEF service_IEP0, Vectored, host
<1>5. CASE service_OEP0
  <2>1. UNCHANGED stall
    BY <1>0, <1>5 DEF service_OEP0, Judged, OutKinds
  <2> QED
    BY <1>0, <1>5, <2>1 DEF service_OEP0, Vectored, host
<1>6. CASE service_RSTR
  BY <1>0, <1>6 DEF service_RSTR, Vectored, host
<1>7. CASE HostSends
  BY <1>0, <1>7 DEF HostSends, HostSetup, Vectored, Patient
<1>8. CASE HostPolls
  <2>1. /\ "SETUP" \notin vecs /\ "SETUP" \notin vecs' /\ h_phase # "idle"
        /\ UNCHANGED <<inPkt, stall, isr, h_req>>
    BY <1>8, HostEffect DEF HostPolls
  <2>2. isr \notin {"SETUP", "SETUP_DONE"}
    BY <1>0, <2>1 DEF Vectored
  <2>3. CASE HostStalled
    BY <2>1, <2>3 DEF HostStalled
  <2>4. CASE HostDropsIn \/ HostDataIn \/ HostStatusIn
    <3>1. ~stall
      BY <2>4 DEF HostDropsIn, HostDataIn, HostStatusIn, InDone, InReady
    <3>2. h_phase' \in {"data_out", "status_in"} => h_phase' = h_phase /\ HostDropsIn
      BY <2>4 DEF HostDropsIn, HostDataIn, HostStatusIn
    <3> QED
      BY <1>0, <2>1, <3>1, <3>2 DEF HostDropsIn
  <2>5. CASE HostDataOut
    <3>1. ~stall /\ h_phase = "data_out"
      BY <2>5 DEF HostDataOut, OutDone
    <3>2. h_req.good
      BY <1>0, <2>1, <3>1
    <3>3. h_req.kind # "SET_ADDRESS"
      BY <1>0, <3>1, <3>2 DEF Stages
    <3> QED
      BY <2>1, <3>1, <3>2, <3>3
  <2>6. CASE HostStatusOut
    BY <2>1, <2>6 DEF HostStatusOut, OutDone
  <2> QED
    BY <1>8, <2>3, <2>4, <2>5, <2>6 DEF HostPolls, HostTransaction
<1>9. CASE ResetsBus
  BY <1>9 DEF ResetsBus, BusReset
<1> QED
  BY <1>1, <1>2, <1>3, <1>4, <1>5, <1>6, <1>7, <1>8, <1>9 DEF Next, Isr

\* A reading host takes a packet only of a legal request.
LEMMA GoodRead ==
  ASSUME IInv, HostDataIn
  PROVE  ReadArmed /\ h_req.good
<1>1. h_phase = "data_in" /\ "SETUP" \notin vecs /\ ~stall /\ ~inNak
  BY DEF HostDataIn, InDone, InReady, Answering
<1> QED
  BY <1>1 DEF IInv, Reading, ReadRefused, ReadArmed, ReadSent

LEMMA StagesKept ==
  ASSUME IInv, JInv, Next
  PROVE  Stages'
<1> USE DEF Stages
<1>0. Stages
  BY DEF JInv
<1>1. CASE Isr
  <2>1. UNCHANGED host
    BY <1>1 DEF Isr, IsrEnter, handle_setup, SetupAck, service_IEP0, service_OEP0,
                service_RSTR
  <2> QED
    BY <1>0, <2>1 DEF host
<1>2. CASE HostSends
  <2>1. PICK r \in Requests : HostSetup(r)
    BY <1>2 DEF HostSends
  <2>2. r.good /\ r.kind = "SET_ADDRESS" => r.wLen = 0
    BY BusAssumption DEF NoDataKinds
  <2> QED
    BY <2>1, <2>2 DEF HostSetup, FirstPhase
<1>3. CASE HostPolls
  <2>1. UNCHANGED h_req
    BY <1>3, HostEffect DEF HostPolls
  <2>2. CASE HostDataIn
    BY <1>0, <2>1, <2>2, GoodRead DEF HostDataIn
  <2>3. CASE ~HostDataIn
    <3>1. h_phase' \in {"data_in", "data_out", "status_out"} => UNCHANGED h_phase
      BY <1>3, <2>3
      DEF HostPolls, HostTransaction, HostDropsIn, HostStatusIn, HostDataOut,
          HostStatusOut, OutDone, HostStalled
    <3> QED
      BY <1>0, <2>1, <3>1
  <2> QED
    BY <2>2, <2>3
<1>4. CASE ResetsBus
  BY <1>4 DEF ResetsBus, BusReset
<1> QED
  BY <1>1, <1>2, <1>3, <1>4 DEF Next

LEMMA JudgedKept ==
  ASSUME IInv, JInv, Next
  PROVE  Judged'
<1> USE DEF Judged
<1>0. TypeOK /\ Vectored /\ Judged
  BY DEF IInv, JInv
<1>1. CASE IsrEnter
  BY <1>0, <1>1, EnterEffect DEF firmware, outEp
<1>2. CASE handle_setup
  BY <1>0, <1>2, SetupEffect DEF Vectored, NoInOut
<1>3. CASE SetupAck
  BY <1>0, <1>3 DEF SetupAck, firmware, outEp
<1>4. CASE service_IEP0
  BY <1>0, <1>4 DEF service_IEP0
<1>5. CASE service_OEP0
  BY <1>5 DEF service_OEP0
<1>6. CASE service_RSTR
  BY <1>6 DEF service_RSTR
<1>7. CASE HostSends
  BY <1>0, <1>7 DEF HostSends, HostSetup, firmware, outEp
<1>8. CASE HostPolls
  <2>1. UNCHANGED <<firmware, isr>>
    BY <1>8, HostEffect DEF HostPolls
  <2>2. CASE HostDataOut \/ HostStatusOut
    <3>1. UNCHANGED <<outOk, vecs>> \/ outOk' = h_req.good
      BY <2>2, Zenon DEF HostDataOut, HostStatusOut, OutDone, outEp
    <3>2. h_req.good
      <4>1. "SETUP" \notin vecs /\ ~stall /\ h_phase \in {"data_out", "status_out"}
        BY <2>2 DEF HostDataOut, HostStatusOut, OutDone, Answering
      <4> QED
        BY <4>1 DEF JInv, OnlyBadStall, Stages, Handled
    <3>3. UNCHANGED <<outOk, vecs>> \/ outOk'
      BY <3>1, <3>2, Zenon
    <3> QED
      BY <1>0, <2>1, <3>3 DEF firmware
  <2>3. CASE ~(HostDataOut \/ HostStatusOut)
    <3>1. UNCHANGED outOk /\ vecs' \subseteq vecs \cup {"IEP0"}
      BY <1>8, <2>3
      DEF HostPolls, HostTransaction, HostDropsIn, HostDataIn, HostStatusIn, InDone,
          HostStalled, outEp
    <3> QED
      BY <1>0, <2>1, <3>1 DEF firmware
  <2> QED
    BY <2>2, <2>3
<1>9. CASE ResetsBus
  BY <1>0, <1>9 DEF ResetsBus, BusReset, firmware, outEp
<1> QED
  BY <1>1, <1>2, <1>3, <1>4, <1>5, <1>6, <1>7, <1>8, <1>9 DEF Next, Isr

LEMMA JInvInit == Init => JInv
BY DEF Init, FirmwareInit, BusInit, JInv, OnlyBadStall, AddressStatus, Stages, Judged

LEMMA JInvStep == Patient /\ LegalWrites /\ IInv /\ JInv /\ [Next]_vars => JInv'
<1> SUFFICES ASSUME Patient, LegalWrites, IInv, JInv, [Next]_vars PROVE JInv'
  OBVIOUS
<1>1. CASE Next
  BY <1>1, OnlyBadStallKept, StagesKept, JudgedKept DEF JInv
<1>2. CASE UNCHANGED vars
  BY <1>2
  DEF vars, bus, firmware, inEp, outEp, host, JInv, OnlyBadStall, AddressStatus, Stages,
      Judged, Handled, NoInOut
<1> QED
  BY <1>1, <1>2

\* Every step of the pipe is a step of the abstract transfer, or none of it.
LEMMA TransferStep ==
  ASSUME IInv, JInv, [Next]_vars
  PROVE  [Transfer!TransferNext]_(Transfer!vars)
<1> USE DEF Transfer!vars
<1>1. CASE Isr \/ UNCHANGED vars
  <2>1. UNCHANGED host
    BY <1>1 DEF Isr, IsrEnter, handle_setup, SetupAck, service_IEP0, service_OEP0,
                service_RSTR, vars, bus
  <2> QED
    BY <2>1 DEF host
<1>2. CASE HostSends
  <2>1. PICK r \in Requests : HostSetup(r)
    BY <1>2 DEF HostSends
  <2>2. Transfer!Start(r)
    BY <2>1 DEF HostSetup, Transfer!Start, Transfer!FirstPhase, FirstPhase,
                Transfer!ReadKinds, ReadKinds
  <2> QED
    BY <2>2 DEF Transfer!TransferNext
<1>3. CASE HostPolls
  <2>0. /\ "SETUP" \notin vecs /\ h_phase # "idle"
        /\ UNCHANGED h_req
    BY <1>3, HostEffect DEF HostPolls
  <2>1. CASE HostDropsIn
    BY <2>0, <2>1 DEF HostDropsIn
  <2>2. CASE HostDataIn
    <3>1. h_req.good /\ inPkt.len = Chunk(h_req, h_got) /\ h_got <= Total(h_req)
      BY <2>2, GoodRead DEF ReadArmed
    <3>2. h_req \in Request /\ h_got \in Nat
      BY DEF IInv, TypeOK, BusTypeOK
    <3>3. Chunk(h_req, h_got) = Transfer!Chunk(h_req, h_got)
      BY DEF Chunk, Total, Lesser, Transfer!Chunk, Transfer!Total, Transfer!Lesser
    <3>4. h_got + Chunk(h_req, h_got) <= Total(h_req)
      BY <3>1, <3>2, TotalBound
    <3>5. h_got + Chunk(h_req, h_got) >= h_req.wLen
             <=> h_got + Chunk(h_req, h_got) = h_req.wLen
      BY <3>1, <3>2, <3>4, BusAssumption, SMT DEF Request, Chunk, Total, Lesser
    <3>6. Transfer!Deliver
      BY <2>0, <2>2, <3>1, <3>3, <3>5 DEF HostDataIn, Transfer!Deliver
    <3> QED
      BY <3>6 DEF Transfer!TransferNext
  <2>3. CASE HostStatusIn
    <3>1. h_req.good
      BY <2>0, <2>3 DEF HostStatusIn, InDone, InReady, JInv, OnlyBadStall, Handled
    <3>2. h_req.kind = "SET_ADDRESS" => inPkt.len = 0
      BY <2>0, <2>3, <3>1 DEF HostStatusIn, JInv, AddressStatus, Handled
    <3>3. Transfer!Succeed
      BY <2>0, <2>3, <3>1, <3>2 DEF HostStatusIn, Transfer!Succeed
    <3> QED
      BY <3>3 DEF Transfer!TransferNext
  <2>4. CASE HostDataOut
    <3>1. Transfer!SendData
      BY <2>4 DEF HostDataOut, OutDone, Transfer!SendData
    <3> QED
      BY <3>1 DEF Transfer!TransferNext
  <2>5. CASE HostStatusOut
    <3>1. h_req.kind # "SET_ADDRESS"
      BY <2>5 DEF HostStatusOut, JInv, Stages, ReadKinds
    <3>2. Transfer!Succeed
      BY <2>5, <3>1 DEF HostStatusOut, OutDone, Transfer!Succeed
    <3> QED
      BY <3>2 DEF Transfer!TransferNext
  <2>6. CASE HostStalled
    <3>1. ~h_req.good
      BY <2>0, <2>6 DEF HostStalled, JInv, OnlyBadStall, Handled
    <3>2. Transfer!Refuse
      BY <2>6, <3>1 DEF HostStalled, Transfer!Refuse
    <3> QED
      BY <3>2 DEF Transfer!TransferNext
  <2> QED
    BY <1>3, <2>1, <2>2, <2>3, <2>4, <2>5, <2>6 DEF HostPolls, HostTransaction
<1>4. CASE ResetsBus
  <2>1. Transfer!Reset
    BY <1>4 DEF ResetsBus, BusReset, Transfer!Reset
  <2> QED
    BY <2>1 DEF Transfer!TransferNext
<1> QED
  BY <1>1, <1>2, <1>3, <1>4 DEF Next

\* The control pipe implements the abstract control transfer, for every set of
\* requests whose writes are legal and for a host that may give any transfer up
\* half-way but a SET_ADDRESS: legal requests are carried out in order and
\* acknowledged, and only illegal ones are refused (usb.c as a whole).
THEOREM PipeImplementsTransfer ==
  ASSUME Patient, LegalWrites PROVE Spec => RefinesTransfer
<1>1. Init => Transfer!TransferInit
  BY DEF Init, FirmwareInit, BusInit, Transfer!TransferInit
<1>2. IInv /\ JInv /\ [Next]_vars => [Transfer!TransferNext]_(Transfer!vars)
  BY TransferStep
<1> QED
  BY <1>1, <1>2, InvInit, InvStep, JInvInit, JInvStep, PTL
  DEF Spec, RefinesTransfer, Transfer!TransferSpec
-----------------------------------------------------------------------------
(* The data toggles.  A read that is shorter than asked for and fills an   *)
(* even number of packets ends on an empty packet with the wrong toggle    *)
(* (section 5 of the README); without such reads the two sides agree.      *)

Even(k) == \E n \in Nat : k = n * (2 * EP0_MAX_PACKET)

OddEnds ==
    \A r \in Requests :
        r.kind \in ReadKinds /\ r.good /\ 0 < Total(r) /\ Total(r) < r.wLen => ~Even(Total(r))

\* The host's toggle says whether it has taken an even number of packets.
Counted ==
    /\ h_req \in Requests
    /\ h_phase = "data_in" =>
          /\ h_req.kind \in ReadKinds /\ h_got < h_req.wLen
          /\ h_toggle = 1 => Even(h_got)
          /\ h_toggle = 0 => Even(h_got + EP0_MAX_PACKET)

ReadToggle ==
    h_phase = "data_in" /\ Handled /\ h_req.good =>
        /\ ~inNak => inToggle = h_toggle
        /\ inNak => h_got > 0

\* Nothing has left the IN endpoint since the SETUP of a write.
StatusToggle ==
    h_phase \in {"data_out", "status_in"} =>
        /\ h_toggle = 1
        /\ Handled => inToggle = 1 /\ "IEP0" \notin vecs /\ isr # "IEP0"

KInv == Counted /\ ReadToggle /\ StatusToggle

LEMMA EvenSteps ==
  /\ Even(0)
  /\ \A k \in Nat : Even(k) => Even(k + 2 * EP0_MAX_PACKET)
<1> DEFINE d == 2 * EP0_MAX_PACKET
<1>1. d \in Nat
  BY BusAssumption
<1>2. 0 = 0 * d
  BY <1>1
<1>3. ASSUME NEW n \in Nat PROVE n * d + d = (n + 1) * d
  BY <1>1
<1> HIDE DEF d
<1>4. \A k \in Nat : (\E n \in Nat : k = n * d) => \E n \in Nat : k + d = n * d
  BY <1>3
<1>5. \E n \in Nat : 0 = n * d
  BY <1>2
<1> QED
  BY <1>4, <1>5 DEF Even, d

LEMMA CountedKept ==
  ASSUME IInv, KInv, Next
  PROVE  Counted'
<1> USE DEF Counted
<1>0. Counted /\ TypeOK
  BY DEF KInv, IInv
<1>1. CASE Isr
  <2>1. UNCHANGED host
    BY <1>1 DEF Isr, IsrEnter, handle_setup, SetupAck, service_IEP0, service_OEP0, service_RSTR
  <2> QED
    BY <1>0, <2>1 DEF host, Even
<1>2. CASE HostSends
  <2>1. PICK r \in Requests : HostSetup(r)
    BY <1>2 DEF HostSends
  <2>2. /\ h_req' = r /\ h_phase' = FirstPhase(r) /\ h_got' = 0 /\ h_toggle' = 1
    BY <2>1 DEF HostSetup
  <2>3. FirstPhase(r) = "data_in" => r.kind \in ReadKinds /\ 0 < r.wLen
    BY BusAssumption DEF FirstPhase, Request
  <2>4. Even(h_got')
    BY <2>2, EvenSteps
  <2>5. Even(h_got)' <=> Even(h_got')
    BY DEF Even
  <2> QED
    BY <2>2, <2>3, <2>4, <2>5
<1>3. CASE HostPolls /\ ~HostDataIn
  <2>1. UNCHANGED h_req /\ (h_phase' = "data_in" => UNCHANGED <<h_phase, h_got, h_toggle>>)
    BY <1>3
    DEF HostPolls, HostTransaction, HostDropsIn, InDone, HostStatusIn, HostDataOut,
        HostStatusOut, OutDone, HostStalled
  <2> QED
    BY <1>0, <2>1 DEF Even
<1>4. CASE HostDataIn
  <2>1. UNCHANGED h_req
    BY <1>4 DEF HostDataIn, InDone
  <2> SUFFICES ASSUME h_phase' = "data_in" PROVE Counted'
    BY <1>0, <2>1
  <2>2. /\ h_phase = "data_in" /\ h_got' = h_got + inPkt.len /\ h_toggle' = 1 - h_toggle
        /\ ~(inPkt.len < EP0_MAX_PACKET) /\ ~(h_got' >= h_req.wLen)
    BY <1>4 DEF HostDataIn
  <2>3. /\ h_got \in Nat /\ h_req.wLen \in Nat /\ EP0_MAX_PACKET \in Nat
        /\ h_toggle \in 0..1 /\ h_req \in Request
    BY <1>0, BusAssumption DEF TypeOK, BusTypeOK, Request
  <2>4. inPkt.len = EP0_MAX_PACKET
    <3>1. ReadArmed
      BY <1>4, GoodRead
    <3>2. inPkt.len = Chunk(h_req, h_got) /\ h_got <= Total(h_req)
      BY <3>1 DEF ReadArmed
    <3>3. inPkt.len \in Nat /\ inPkt.len <= EP0_MAX_PACKET
      BY <2>3, <3>2, TotalBound, BusAssumption
    <3> QED
      BY <2>2, <2>3, <3>3
  <2>5. h_got' < h_req.wLen /\ h_got' = h_got + EP0_MAX_PACKET
    BY <2>2, <2>3, <2>4
  <2>6. CASE h_toggle = 1
    <3>1. Even(h_got + 2 * EP0_MAX_PACKET)
      BY <1>0, <2>2, <2>3, <2>6, EvenSteps
    <3>2. h_got' + EP0_MAX_PACKET = h_got + 2 * EP0_MAX_PACKET /\ h_toggle' = 0
      BY <2>2, <2>3, <2>5, <2>6
    <3>3. Even(h_got + EP0_MAX_PACKET)' <=> Even(h_got' + EP0_MAX_PACKET)
      BY DEF Even
    <3> QED
      BY <1>0, <2>1, <2>2, <2>5, <3>1, <3>2, <3>3
  <2>7. CASE h_toggle = 0
    <3>1. Even(h_got') /\ h_toggle' = 1
      BY <1>0, <2>2, <2>5, <2>7
    <3>2. Even(h_got)' <=> Even(h_got')
      BY DEF Even
    <3> QED
      BY <1>0, <2>1, <2>2, <2>5, <3>1, <3>2
  <2> QED
    BY <2>3, <2>6, <2>7
<1>5. CASE ResetsBus
  BY <1>0, <1>5 DEF ResetsBus, BusReset
<1> QED
  BY <1>1, <1>2, <1>3, <1>4, <1>5 DEF Next, HostPolls, HostTransaction

\* The end of a transfer puts the toggle to 0: in a read that goes on, the host
\* has taken an odd number of packets by then.
LEMMA OddAtEnd ==
  ASSUME IInv, KInv, OddEnds, service_IEP0, h_phase = "data_in"
  PROVE  inToggle' = h_toggle
<1>0. TypeOK /\ Vectored /\ Reading /\ Counted /\ ReadToggle
  BY DEF IInv, KInv
<1>1. "SETUP" \notin vecs /\ isr = "IEP0"
  BY <1>0 DEF service_IEP0, Vectored
<1>2. ReadSent
  BY <1>0, <1>1 DEF Reading, ReadRefused, ReadArmed
<1>3. CASE g_ep0_reply_remaining > 0
  BY <1>2, <1>3 DEF ReadSent, service_IEP0
<1>4. CASE g_ep0_reply_remaining = 0
  <2>1. inToggle' = 0
    BY <1>4 DEF service_IEP0, EndOfTransfer
  <2>2. /\ h_got > 0 /\ h_req.good /\ h_req \in Requests
        /\ h_req.kind \in ReadKinds /\ h_got < h_req.wLen
    BY <1>0, <1>1, <1>2 DEF ReadSent, ReadToggle, Counted, Handled
  <2>3. /\ h_req \in Request /\ h_got \in Nat /\ h_toggle \in 0..1
        /\ Total(h_req) \in 0 .. MAX_REPLY /\ h_got <= Total(h_req)
        /\ g_ep0_reply_remaining = Total(h_req) - h_got
    <3>1. h_req \in Request /\ h_got \in Nat /\ h_toggle \in 0..1
      BY <1>0 DEF TypeOK, BusTypeOK
    <3>2. h_got <= Total(h_req) /\ g_ep0_reply_remaining = Total(h_req) - h_got
      BY <1>2 DEF ReadSent, Left
    <3> QED
      BY <3>1, <3>2, TotalBound
  <2>4. h_got = Total(h_req)
    BY <1>4, <2>3, BusAssumption
  <2>5. ~Even(h_got)
    BY <2>2, <2>4 DEF OddEnds
  <2> QED
    BY <1>0, <2>1, <2>3, <2>5 DEF Counted
<1> QED
  BY <1>0, <1>3, <1>4 DEF TypeOK

LEMMA ToggleKept ==
  ASSUME IInv, KInv, Patient, OddEnds, Next
  PROVE  (ReadToggle /\ StatusToggle)'
<1> USE DEF ReadToggle, StatusToggle, Handled
<1>0. TypeOK /\ Vectored /\ HostWaits /\ Reading /\ ReadToggle /\ StatusToggle
  BY DEF IInv, KInv
<1>1. CASE IsrEnter
  BY <1>0, <1>1, EnterEffect DEF host, inEp, Vectored
<1>2. CASE handle_setup
  <2>1. /\ isr' = "SETUP_DONE" /\ inToggle' = 1 /\ UNCHANGED <<vecs, host>>
        /\ AnsweredBy(SETPACK) /\ "SETUP" \in vecs /\ NoInOut
    BY <1>0, <1>2, SetupEffect DEF Vectored
  <2>2. CASE h_phase = "idle"
    BY <2>1, <2>2 DEF host
  <2>3. CASE h_phase # "idle"
    <3>1. h_req = SETPACK /\ h_toggle = 1 /\ h_phase = FirstPhase(SETPACK)
      BY <1>0, <1>2, <2>1, <2>3 DEF Vectored, HostWaits, handle_setup
    <3>2. h_phase = "data_in" /\ h_req.good => inNak' = FALSE
      <4> SUFFICES ASSUME h_phase = "data_in", h_req.good PROVE inNak' = FALSE
        OBVIOUS
      <4>1. SETPACK.kind \in ReadKinds
        BY <3>1 DEF FirstPhase
      <4>2. StagedNow(SETPACK)
        BY <2>1, <3>1, <4>1
        DEF AnsweredBy, RefusedNow, AwaitsNow, AcknowledgedNow, OutKinds, ReadKinds, NoDataKinds
      <4> QED
        BY <4>2, Zenon DEF StagedNow
    <3>3. h_phase = "data_in" /\ h_req.good => ~inNak'
      BY <3>2, Zenon
    <3> QED
      BY <2>1, <3>1, <3>3 DEF host, NoInOut
  <2> QED
    BY <2>2, <2>3
<1>3. CASE SetupAck
  BY <1>0, <1>3 DEF SetupAck, host, inEp
<1>4. CASE service_IEP0
  <2>1. inNak' = FALSE /\ UNCHANGED host /\ isr = "IEP0" /\ "SETUP" \notin vecs
    BY <1>0, <1>4, Zenon
    DEF service_IEP0, push_reply_chunk, EndOfTransfer, ArmIn, Vectored
  <2>2. ~inNak' /\ h_phase \notin {"data_out", "status_in"}
    BY <1>0, <2>1, Zenon
  <2> QED
    BY <1>4, <2>1, <2>2, OddAtEnd DEF host
<1>5. CASE service_OEP0
  <2>1. h_phase # "data_in"
    BY <1>0, <1>5 DEF service_OEP0, Vectored, Reading, ReadRefused, ReadArmed, ReadSent
  <2> QED
    BY <1>0, <1>5, <2>1 DEF service_OEP0, host, Vectored
<1>6. CASE service_RSTR
  BY <1>0, <1>6 DEF service_RSTR, Vectored, host
<1>7. CASE HostSends
  <2>1. PICK r \in Requests : HostSetup(r)
    BY <1>7 DEF HostSends
  <2>2. "SETUP" \in vecs' /\ isr' = "IDLE" /\ h_toggle' = 1
    BY <1>0, <2>1 DEF HostSetup, Patient
  <2> QED
    BY <2>2
<1>8. CASE HostPolls
  <2>0. HostTransaction /\ "SETUP" \notin vecs
    BY <1>8, HostEffect DEF HostPolls
  <2>1. CASE HostDropsIn
    <3>1. /\ h_phase \in {"data_in", "status_in"} /\ inToggle # h_toggle /\ ~stall /\ ~inNak
      BY <2>1 DEF HostDropsIn, InDone, InReady, Answering
    <3>2. h_phase = "data_in" => h_req.good
      BY <1>0, <2>0, <3>1 DEF Reading, ReadRefused, ReadArmed, ReadSent
    <3> QED
      BY <1>0, <2>0, <3>1, <3>2
  <2>2. CASE HostDataIn
    <3> SUFFICES ASSUME h_phase' = "data_in" PROVE h_got' > 0 /\ inNak'
      BY <2>2 DEF HostDataIn
    <3>1. /\ inNak' = TRUE /\ h_got' = h_got + inPkt.len /\ ~(inPkt.len < EP0_MAX_PACKET)
      BY <2>2 DEF HostDataIn, InDone
    <3>2. h_got \in Nat /\ inPkt.len \in Nat /\ EP0_MAX_PACKET \in Nat \ {0}
      BY <1>0, BusAssumption DEF TypeOK, BusTypeOK, Packet
    <3>3. h_got' > 0
      BY <3>1, <3>2
    <3> QED
      BY <3>1, <3>3, Zenon
  <2>3. CASE HostStatusIn \/ HostStatusOut \/ HostStalled
    BY <2>3 DEF HostStatusIn, HostStatusOut, OutDone, HostStalled
  <2>4. CASE HostDataOut
    <3>1. /\ h_phase = "data_out" /\ h_phase' = "status_in"
          /\ UNCHANGED <<inEp, isr, h_toggle>> /\ vecs' \in {vecs, vecs \cup {"OEP0"}}
      BY <2>4 DEF HostDataOut, OutDone
    <3> QED
      BY <1>0, <2>0, <3>1 DEF inEp
  <2> QED
    BY <2>0, <2>1, <2>2, <2>3, <2>4 DEF HostTransaction
<1>9. CASE ResetsBus
  BY <1>9 DEF ResetsBus, BusReset
<1> QED
  BY <1>1, <1>2, <1>3, <1>4, <1>5, <1>6, <1>7, <1>8, <1>9 DEF Next, Isr

\* The packet the host is about to take carries the toggle the host expects,
\* whether writes are legal or not and transfers given up or not, as long as no
\* read ends on an even number of full packets (IEPCNF0 bit 5: handle_setup's
\* prologue, and the end of a transfer in the VEC_IEP0 case).
THEOREM TogglesAgree ==
  ASSUME Patient, OddEnds PROVE Spec => []ToggleAgrees
<1>1. Init => KInv
  BY DEF Init, FirmwareInit, BusInit, KInv, Counted, ReadToggle, StatusToggle
<1>2. IInv /\ KInv /\ [Next]_vars => KInv'
  <2> SUFFICES ASSUME IInv, KInv, [Next]_vars PROVE KInv'
    OBVIOUS
  <2>1. CASE Next
    BY <2>1, CountedKept, ToggleKept DEF KInv
  <2>2. CASE UNCHANGED vars
    BY <2>2
    DEF vars, bus, inEp, host, KInv, Counted, Even, ReadToggle, StatusToggle, Handled
  <2> QED
    BY <2>1, <2>2
<1>3. IInv /\ KInv => ToggleAgrees
  BY DEF IInv, KInv, ToggleAgrees, InReady, Answering, ReadToggle, StatusToggle, Handled,
         Reading, ReadRefused, ReadArmed, ReadSent
<1> QED
  BY <1>1, <1>2, <1>3, InvInit, InvStep, PTL DEF Spec
=============================================================================
