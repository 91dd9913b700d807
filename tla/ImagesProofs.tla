---------------------------- MODULE ImagesProofs ----------------------------
(***************************************************************************)
(* The recovery image among the images that answer on endpoint 0.  Its     *)
(* transfer engine turns out to be mboxfw's, asked less: every step of     *)
(* SafetyNet is one of ControlPipe's with no data stage pending, so that    *)
(* what ControlPipeProofs proves of the pipe holds of it.  Its stage canary *)
(* is then a matter of what the host can have seen before a milestone.     *)
(***************************************************************************)
EXTENDS MCImages, TLAPS

\* The pipe the recovery image is.
Pipe == INSTANCE ControlPipeProofs WITH
          Requests <- NetRequests, g_pending_address <- pending_addr,
          g_ep0_reply_remaining <- desc_left, g_ep0_reply_src <- desc_ptr,
          g_ep0_out_pending <- "NONE"

Recovery == image = "safety_net"

-----------------------------------------------------------------------------
(* Every step of the recovery image is one of the pipe.                    *)

\* What the pipe assumes of its requests holds of the recovery image's.
LEMMA PipeAssumptions ==
  NetRequests # {} => Pipe!BusAssumption /\ Pipe!PipeAssumption
<1>1. NetRequests # {} => Pipe!BusAssumption
  BY BusAssumption
  DEF Pipe!BusAssumption, NetRequests, Request, Kinds, OutKinds, ReadKinds, NoDataKinds,
      Pipe!Request, Pipe!Kinds, Pipe!OutKinds, Pipe!ReadKinds, Pipe!NoDataKinds
<1>2. Pipe!PipeAssumption
  BY DEF Pipe!PipeAssumption, NetRequests, OutKinds
<1> QED
  BY <1>1, <1>2

\* A SETUP is refused, answered with a reply, or acknowledged.
LEMMA SetupIsPipes ==
  ASSUME SETPACK \in NetRequests, handle_setup
  PROVE  Pipe!handle_setup
<1>1. /\ SETPACK \in Request /\ SETPACK.good \in BOOLEAN
      /\ SETPACK.len \in Nat /\ SETPACK.wLen \in Nat
      /\ SETPACK.kind \in {"GET_DESCRIPTOR", "IMMEDIATE", "SET_ADDRESS", "NO_DATA"}
      /\ SETPACK.kind = "SET_ADDRESS" => SETPACK.good
      /\ SETPACK.kind = "IMMEDIATE" => SETPACK.len <= SETPACK.wLen /\ SETPACK.len <= EP0_MAX_PACKET
  BY BusAssumption DEF NetRequests, Request, Kinds, OutKinds, ReadKinds, NoDataKinds
<1>2. /\ isr = "SETUP" /\ isr' = "SETUP_DONE"
      /\ UNCHANGED <<fen, SETPACK, vecs, Pipe!host>>
      /\ Pipe!SetupPrologue
      /\ Pipe!set_address
  BY <1>1 DEF handle_setup, Pipe!SetupPrologue, Pipe!set_address, host, Pipe!host
<1>4. CASE ~SETPACK.good
  <2>1. stall' = TRUE
    BY <1>1, <1>4, Zenon DEF handle_setup
  <2>2. desc_left' = 0 /\ UNCHANGED <<inPkt, inNak, desc_ptr>>
    BY <1>4, Zenon DEF handle_setup
  <2>3. Pipe!Refused
    BY <1>1, <1>4, <2>1, <2>2
    DEF Pipe!Refused, Pipe!SetStall, Pipe!FlushReply, Pipe!OutKinds
  <2> QED
    BY <1>2, <2>3 DEF Pipe!handle_setup
<1>5. CASE SETPACK.good
  <2>1. stall' = FALSE
    BY <1>1, <1>5, Zenon DEF handle_setup
  <2>2. \A k : SETPACK.kind = k => Pipe!Answers(k)
    BY <1>5, <2>1 DEF Pipe!Answers, Pipe!SetStall
  <2>3. CASE SETPACK.kind = "GET_DESCRIPTOR" /\ reply_desc(SETPACK)
    <3>1. Pipe!stage_reply(SETPACK)
      BY <2>3
      DEF reply_desc, ShipChunk, ArmIn, Pkt, Total, Lesser, Pipe!stage_reply, Pipe!push_reply_chunk,
          Pipe!ArmIn, Pipe!Pkt, Pipe!Total, Pipe!Lesser
    <3> QED
      BY <1>2, <2>2, <2>3, <3>1
      DEF Pipe!handle_setup, Pipe!standard_request, Pipe!handle_get_descriptor
  <2>4. CASE SETPACK.kind = "IMMEDIATE" /\ reply_short(SETPACK)
    <3>1. Pipe!Lesser(Pipe!Lesser(SETPACK.len, EP0_MAX_PACKET), SETPACK.wLen) = SETPACK.len
      BY <1>1, <2>4, BusAssumption DEF Pipe!Lesser
    <3>2. Pipe!stage_immediate(SETPACK)
      BY <2>4, <3>1 DEF reply_short, ArmIn, Pkt, Pipe!stage_immediate, Pipe!ArmIn, Pipe!Pkt
    <3> QED
      BY <1>2, <2>2, <2>4, <3>2
      DEF Pipe!handle_setup, Pipe!standard_request, Pipe!Immediate
  <2>5. CASE SETPACK.kind \in NoDataKinds /\ reply_zlp
    <3>1. Pipe!reply_zero_length /\ UNCHANGED desc_ptr
      BY <2>5 DEF reply_zlp, ArmIn, Pkt, Pipe!reply_zero_length, Pipe!ArmIn, Pipe!Pkt
    <3>2. SETPACK.kind \in {"SET_ADDRESS", "NO_DATA"}
      BY <1>1, <2>5 DEF NoDataKinds
    <3> QED
      BY <1>2, <2>2, <3>1, <3>2
      DEF Pipe!handle_setup, Pipe!standard_request, Pipe!Acknowledged
  <2> QED
    BY <1>5, <2>3, <2>4, <2>5 DEF handle_setup
<1> QED
  BY <1>1, <1>4, <1>5

LEMMA StepIsPipes ==
  ASSUME SETPACK \in NetRequests, [Next]_vars, Recovery
  PROVE  [Pipe!Next]_Pipe!vars
<1> USE DEF net, canary, Pipe!firmware, host, Pipe!host, inEp, Pipe!inEp, outEp, Pipe!outEp
<1>3. CASE NetNext
  <2>1. CASE NetEnter
    <3>1. Pipe!IsrEnter
      BY <2>1 DEF NetEnter, TopVector, Pipe!IsrEnter, Pipe!TopVector
    <3> QED
      BY <3>1 DEF Pipe!Next, Pipe!Isr
  <2>2. CASE handle_setup
    BY <2>2, SetupIsPipes DEF Pipe!Next, Pipe!Isr
  <2>3. CASE NetSetupAck
    <3>1. Pipe!SetupAck
      BY <2>3 DEF NetSetupAck, Pipe!SetupAck
    <3> QED
      BY <3>1 DEF Pipe!Next, Pipe!Isr
  <2>4. CASE vec_iep0
    <3>1. CASE desc_left > 0 /\ ShipChunk(desc_ptr.for, desc_ptr.off, desc_left)
               /\ UNCHANGED <<stall, inToggle, outToggle>>
      <4>1. Pipe!push_reply_chunk(desc_ptr.for, desc_ptr.off, desc_left)
        BY <3>1
        DEF ShipChunk, ArmIn, Pkt, Lesser, Pipe!push_reply_chunk, Pipe!ArmIn, Pipe!Pkt,
            Pipe!Lesser
      <4> QED
        BY <2>4, <3>1, <4>1
        DEF vec_iep0, Pipe!service_IEP0, Pipe!ArmOut, Pipe!Next, Pipe!Isr
    <3>2. CASE /\ desc_left = 0
               /\ stall' = FALSE /\ inToggle' = 0 /\ outToggle' = 0
               /\ inPkt' = [inPkt EXCEPT !.len = 0] /\ inNak' = FALSE
               /\ UNCHANGED <<desc_left, desc_ptr>>
      <4>1. Pipe!EndOfTransfer
        BY <3>2 DEF Pipe!EndOfTransfer, Pipe!SetStall
      <4> QED
        BY <2>4, <3>2, <4>1
        DEF vec_iep0, Pipe!service_IEP0, Pipe!ArmOut, Pipe!Next, Pipe!Isr
    <3> QED
      BY <2>4, <3>1, <3>2 DEF vec_iep0
  <2>5. CASE vec_oep0
    <3>1. Pipe!service_OEP0
      BY <2>5 DEF vec_oep0, Pipe!service_OEP0, inEp
    <3> QED
      BY <3>1 DEF Pipe!Next, Pipe!Isr
  <2>6. CASE vec_rstr
    <3>1. Pipe!service_RSTR
      BY <2>6 DEF vec_rstr, Pipe!service_RSTR, Pipe!SetStall
    <3> QED
      BY <3>1 DEF Pipe!Next, Pipe!Isr
  <2>7. CASE NetSends
    <3>1. PICK r \in NetRequests : HostSetup(r) /\ UNCHANGED net
      BY <2>7 DEF NetSends
    <3>2. Pipe!HostSetup(r)
      BY <3>1 DEF HostSetup, Pipe!HostSetup, FirstPhase, Pipe!FirstPhase, ReadKinds, Pipe!ReadKinds
    <3>3. UNCHANGED Pipe!firmware
      BY <3>1 DEF Pipe!firmware
    <3> QED
      BY <3>2, <3>3 DEF Pipe!Next, Pipe!HostSends
  <2>8. CASE NetPolls
    <3>1. Pipe!HostTransaction
      BY <2>8
      DEF NetPolls, HostTransaction, HostDropsIn, HostDataIn, HostStatusIn, InDone, InReady,
          Answering, HostDataOut, HostStatusOut, OutDone, HostStalled,
          Pipe!HostTransaction, Pipe!HostDropsIn, Pipe!HostDataIn, Pipe!HostStatusIn,
          Pipe!InDone, Pipe!InReady, Pipe!Answering, Pipe!HostDataOut, Pipe!HostStatusOut,
          Pipe!OutDone, Pipe!HostStalled
    <3>2. UNCHANGED Pipe!firmware
      BY <2>8 DEF NetPolls, Pipe!firmware
    <3> QED
      BY <3>1, <3>2 DEF Pipe!Next, Pipe!HostPolls
  <2>9. CASE NetReset
    <3>1. Pipe!BusReset /\ UNCHANGED Pipe!firmware
      BY <2>9 DEF NetReset, BusReset, Pipe!BusReset, Pipe!firmware
    <3> QED
      BY <3>1 DEF Pipe!Next, Pipe!ResetsBus
  <2> QED
    BY <1>3, <2>1, <2>2, <2>3, <2>4, <2>5, <2>6, <2>7, <2>8, <2>9 DEF NetNext, usb_service
<1>4. CASE UNCHANGED vars
  BY <1>4 DEF vars, bus, Pipe!vars, Pipe!bus
<1> QED
  BY <1>3, <1>4 DEF Next, Mboxfw, SafetyNet, Rev22, Recovery

LEMMA InitIsPipes ==
  ASSUME Init, Recovery PROVE NetRequests # {} /\ Pipe!Init
<1>1. SETPACK \in NetRequests
  BY DEF Init, BusInit, NetRequests, Req, OutKinds
<1>2. (image # "rev22") = TRUE
  BY DEF Recovery
<1>3. Pipe!BusInit(TRUE)
  BY <1>1, <1>2 DEF Init, BusInit, Pipe!BusInit, Pkt, Pipe!Pkt
<1>4. Pipe!FirmwareInit
  BY DEF Init, NetInit, Pipe!FirmwareInit
<1> QED
  BY <1>1, <1>3, <1>4 DEF Pipe!Init

\* Whatever the host does, the recovery image is a pipe that expects no data
\* stage (usb_service of safety_net/src/main.c against usb.c of mboxfw).
THEOREM RecoveryIsAPipe == Spec /\ Recovery => Pipe!Spec
<1> DEFINE Asked == Recovery /\ SETPACK \in NetRequests
<1>1. Init /\ Recovery => Pipe!Init /\ Asked
  BY InitIsPipes DEF Pipe!Init, Pipe!BusInit
<1>2. Asked /\ [Next]_vars => Asked'
  <2> SUFFICES ASSUME Asked, [Next]_vars PROVE Asked'
    OBVIOUS
  <2>1. CASE UNCHANGED vars
    BY <2>1 DEF vars, bus, Recovery
  <2>2. CASE SafetyNet(NetNext)
    BY <2>2
    DEF SafetyNet, Recovery, NetNext, usb_service, NetEnter, handle_setup, NetSetupAck, vec_iep0,
        vec_oep0, vec_rstr, NetSends, HostSetup, NetPolls, HostTransaction, HostDropsIn,
        HostDataIn, HostStatusIn, InDone, HostDataOut, HostStatusOut, OutDone, HostStalled,
        NetReset, BusReset
  <2> QED
    BY <2>1, <2>2 DEF Next, Mboxfw, Rev22, SafetyNet, Recovery
<1>3. Asked /\ [Next]_vars => [Pipe!Next]_Pipe!vars
  BY StepIsPipes
<1> QED
  BY <1>1, <1>2, <1>3, PTL DEF Spec, Pipe!Spec

\* The pipe's assumptions hold in every run there is.
LEMMA PipeAssumed == (~(Pipe!BusAssumption /\ Pipe!PipeAssumption)) => ~(Init /\ Recovery)
BY InitIsPipes, PipeAssumptions

\* The recovery image's packets carry the toggle the host expects, if no
\* descriptor ends on an even number of full packets (handle_setup, vec_iep0).
THEOREM RecoveryTogglesAgree ==
  ASSUME Pipe!Patient, Pipe!OddEnds PROVE Spec /\ Recovery => []ToggleAgrees
<1>1. CASE Pipe!BusAssumption /\ Pipe!PipeAssumption
  <2>1. Pipe!Spec => []Pipe!ToggleAgrees
    BY <1>1, Pipe!TogglesAgree
  <2>2. Pipe!ToggleAgrees => ToggleAgrees
    BY DEF Pipe!ToggleAgrees, ToggleAgrees, Pipe!InReady, InReady, Pipe!Answering, Answering
  <2> QED
    BY <2>1, <2>2, RecoveryIsAPipe, PTL
<1>2. CASE ~(Pipe!BusAssumption /\ Pipe!PipeAssumption)
  BY <1>2, PipeAssumed, PTL DEF Spec
<1> QED
  BY <1>1, <1>2

\* An address the recovery image is given waits for its status stage
\* (pending_addr, applied by vec_iep0).
THEOREM RecoveryAddressWaits ==
  ASSUME Pipe!Patient PROVE Spec /\ Recovery => AddressAfterStatus
<1>1. CASE Pipe!BusAssumption /\ Pipe!PipeAssumption
  <2>1. Pipe!Spec => Pipe!AddressAfterStatus
    BY <1>1, Pipe!AddressWaits
  <2>2. [fen /\ USBFADR' # USBFADR => USBFADR' \in {0, h_addr}]_Pipe!bus
           => [fen /\ USBFADR' # USBFADR => USBFADR' \in {0, h_addr}]_bus
    BY DEF Pipe!bus, bus, Pipe!inEp, inEp, Pipe!outEp, outEp, Pipe!host, host
  <2> QED
    BY <2>1, <2>2, RecoveryIsAPipe, PTL DEF Pipe!AddressAfterStatus, AddressAfterStatus
<1>2. CASE ~(Pipe!BusAssumption /\ Pipe!PipeAssumption)
  BY <1>2, PipeAssumed, PTL DEF Spec
<1> QED
  BY <1>1, <1>2

\* What of the pipe's state the proofs below rest on.
PipeInv == Recovery /\ Pipe!IInv /\ Pipe!JInv

LEMMA PipeInvInit == Init /\ Recovery => PipeInv
<1> SUFFICES ASSUME Init, Recovery PROVE PipeInv
  OBVIOUS
<1>1. Pipe!BusAssumption /\ Pipe!PipeAssumption /\ Pipe!Init
  BY InitIsPipes, PipeAssumptions
<1>2. Pipe!IInv
  BY <1>1, Pipe!InvInit
<1>3. Pipe!JInv
  BY <1>1, Pipe!JInvInit
<1> QED
  BY <1>2, <1>3 DEF PipeInv

\* The step of the pipe that a step of the recovery image is.
LEMMA PipeStep ==
  ASSUME PipeInv, [Next]_vars
  PROVE  /\ Pipe!BusAssumption /\ Pipe!PipeAssumption /\ Pipe!LegalWrites
         /\ [Pipe!Next]_Pipe!vars
         /\ Recovery'
<1>1. SETPACK \in NetRequests
  BY DEF PipeInv, Pipe!IInv, Pipe!Vectored
<1>2. Pipe!BusAssumption /\ Pipe!PipeAssumption
  BY <1>1, PipeAssumptions
<1>3. Pipe!LegalWrites
  BY DEF Pipe!LegalWrites, NetRequests, OutKinds, Pipe!OutKinds
<1>4. Recovery'
  BY DEF PipeInv, Recovery, Next, Mboxfw, SafetyNet, Rev22, vars
<1> QED
  BY <1>1, <1>2, <1>3, <1>4, StepIsPipes DEF PipeInv

LEMMA PipeInvStep == Pipe!Patient /\ PipeInv /\ [Next]_vars => PipeInv'
<1> SUFFICES ASSUME Pipe!Patient, PipeInv, [Next]_vars PROVE PipeInv'
  OBVIOUS
<1>1. /\ Pipe!BusAssumption /\ Pipe!PipeAssumption /\ Pipe!LegalWrites
      /\ [Pipe!Next]_Pipe!vars /\ Recovery'
  BY PipeStep
<1>2. Pipe!IInv'
  BY <1>1, Pipe!InvStep DEF PipeInv
<1>3. Pipe!JInv'
  BY <1>1, Pipe!JInvStep DEF PipeInv
<1> QED
  BY <1>1, <1>2, <1>3 DEF PipeInv

\* The recovery image, too, implements the abstract control transfer: it refuses
\* what it does not know and nothing else, and what it serves it serves in order
\* (safety_net/src/main.c, usb_service and handle_setup).
THEOREM RecoveryImplementsTransfer ==
  ASSUME Pipe!Patient PROVE Spec /\ Recovery => RefinesTransfer
<1>1. Init => Transfer!TransferInit
  BY DEF Init, BusInit, Transfer!TransferInit
<1>2. PipeInv /\ [Next]_vars => [Transfer!TransferNext]_(Transfer!vars)
  <2> SUFFICES ASSUME PipeInv, [Next]_vars
               PROVE  [Transfer!TransferNext]_(Transfer!vars)
    OBVIOUS
  <2>1. [Pipe!Transfer!TransferNext]_(Pipe!Transfer!vars)
    BY PipeStep, Pipe!TransferStep DEF PipeInv
  <2>2. ASSUME NEW r \in NetRequests, Pipe!Transfer!Start(r)
        PROVE  r \in Requests /\ Transfer!Start(r)
    BY <2>2
    DEF NetRequests, Transfer!Start, Transfer!FirstPhase, Transfer!ReadKinds,
        Pipe!Transfer!Start, Pipe!Transfer!FirstPhase, Pipe!Transfer!ReadKinds
  <2>3. Pipe!Transfer!Deliver => Transfer!Deliver
    BY DEF Transfer!Deliver, Transfer!Chunk, Transfer!Total, Transfer!Lesser,
           Pipe!Transfer!Deliver, Pipe!Transfer!Chunk, Pipe!Transfer!Total,
           Pipe!Transfer!Lesser
  <2>4. /\ Pipe!Transfer!SendData => Transfer!SendData
        /\ Pipe!Transfer!Succeed => Transfer!Succeed
        /\ Pipe!Transfer!Refuse => Transfer!Refuse
        /\ Pipe!Transfer!Reset => Transfer!Reset
    BY DEF Transfer!SendData, Transfer!Succeed, Transfer!Refuse, Transfer!Reset,
           Pipe!Transfer!SendData, Pipe!Transfer!Succeed, Pipe!Transfer!Refuse,
           Pipe!Transfer!Reset
  <2> QED
    BY <2>1, <2>2, <2>3, <2>4
    DEF Transfer!TransferNext, Transfer!vars, Pipe!Transfer!TransferNext, Pipe!Transfer!vars
<1> QED
  BY <1>1, <1>2, PipeInvInit, PipeInvStep, PTL
  DEF Spec, RefinesTransfer, Transfer!TransferSpec

\* The recovery image's descriptors arrive whole and in order (ship_chunk and
\* vec_iep0 of safety_net/src/main.c).
THEOREM RecoveryRepliesInOrder ==
  ASSUME Pipe!Patient PROVE Spec /\ Recovery => []ReplyInOrder
<1>1. PipeInv => ReplyInOrder
  BY DEF PipeInv, Pipe!IInv, ReplyInOrder, Chunk, Total, Lesser, InReady, Answering,
         Pipe!Reading, Pipe!ReadRefused, Pipe!ReadArmed, Pipe!ReadSent, Pipe!Chunk,
         Pipe!Total, Pipe!Lesser
<1> QED
  BY <1>1, PipeInvInit, PipeInvStep, PTL DEF Spec

-----------------------------------------------------------------------------
(* The canary.  STAGE takes the maximum of a few milestones and the stage   *)
(* so far: it never goes back, and a reading below a milestone says that    *)
(* the code behind it has not run.  The invariant ties what the host has    *)
(* seen to the code that must have run before.                              *)

HasMax(S) == S \subseteq Int /\ (S = {} \/ \E x \in S : \A y \in S : x >= y)

LEMMA MaxOfFew ==
  /\ HasMax({}) /\ \A a \in Int : HasMax({a})
  /\ \A S, T : HasMax(S) /\ HasMax(T) => HasMax(S \cup T)
<1>1. HasMax({}) /\ \A a \in Int : HasMax({a})
  BY DEF HasMax
<1>2. ASSUME NEW S, NEW T, HasMax(S), HasMax(T) PROVE HasMax(S \cup T)
  <2>1. CASE S = {} \/ T = {}
    <3>1. S \cup T = S \/ S \cup T = T
      BY <2>1
    <3> QED
      BY <1>2, <3>1
  <2>2. CASE S # {} /\ T # {}
    <3>1. PICK s \in S : \A y \in S : s >= y
      BY <1>2, <2>2 DEF HasMax
    <3>2. PICK t \in T : \A y \in T : t >= y
      BY <1>2, <2>2 DEF HasMax
    <3>3. CASE s >= t
      BY <1>2, <3>1, <3>2, <3>3 DEF HasMax
    <3>4. CASE t >= s
      BY <1>2, <3>1, <3>2, <3>4 DEF HasMax
    <3> QED
      BY <1>2, <3>1, <3>2, <3>3, <3>4 DEF HasMax
  <2> QED
    BY <2>1, <2>2
<1> QED
  BY <1>1, <1>2

\* The stage only rises, to one of the milestones or not at all.
LEMMA StageRises ==
  ASSUME NEW m, HasMax(m), m \subseteq 6 .. 20, g_stage \in 6 .. 20, STAGE(m)
  PROVE  /\ g_stage' \in 6 .. 20 /\ g_stage' >= g_stage
         /\ \A n \in m : g_stage' >= n
<1> DEFINE S == m \cup {g_stage}
<1>1. HasMax(S) /\ S \subseteq Int /\ g_stage \in S
  <2>1. HasMax({g_stage})
    BY MaxOfFew
  <2>2. HasMax(m \cup {g_stage})
    BY <2>1, MaxOfFew
  <2> QED
    BY <2>2 DEF HasMax
<1>2. \E x \in S : \A y \in S : x >= y
  BY <1>1 DEF HasMax
<1>3. Max(S) \in S /\ \A y \in S : Max(S) >= y
  BY <1>2 DEF Max
<1> QED
  BY <1>3 DEF STAGE

\* The milestones that each handler has reached when it is done.
LEMMA NetStage ==
  ASSUME g_stage \in 6 .. 20, NetNext
  PROVE  /\ g_stage' \in 6 .. 20 /\ g_stage' >= g_stage
         /\ handle_setup => /\ \E named \in Named(SETPACK) : \A n \in named : g_stage' >= n
                            /\ g_addr_applied => g_stage' >= 14
         /\ vec_iep0 => /\ pending_addr # NoAddr => g_stage' >= 13
                        /\ desc_left > 0 => g_stage' >= 15
         /\ vec_rstr => g_stage' >= 9
<1>1. ASSUME NEW m, m = {} \/ \E a \in Int : m = {a} PROVE HasMax(m)
  BY <1>1, MaxOfFew
<1>2. CASE NetEnter
  <2>1. HasMax({7, 8})
    BY DEF HasMax
  <2> QED
    BY <1>2, <2>1, StageRises DEF NetEnter, handle_setup, vec_iep0, vec_rstr
<1>3. CASE handle_setup
  <2>1. PICK named \in Named(SETPACK) :
           STAGE({10} \cup named \cup (IF g_addr_applied THEN {14} ELSE {}))
    BY <1>3 DEF handle_setup
  <2> DEFINE m == {10} \cup named \cup (IF g_addr_applied THEN {14} ELSE {})
  <2>2. named = {} \/ \E a \in 11 .. 20 : named = {a}
    BY DEF Named
  <2>3. HasMax({10}) /\ HasMax(named) /\ HasMax(IF g_addr_applied THEN {14} ELSE {})
    BY <1>1, <2>2
  <2>4. HasMax(m) /\ m \subseteq 6 .. 20
    <3>1. HasMax({10} \cup named)
      BY <2>3, MaxOfFew
    <3>2. HasMax(m)
      BY <2>3, <3>1, MaxOfFew
    <3>3. m \subseteq 6 .. 20
      BY <2>2
    <3> QED
      BY <3>2, <3>3
  <2>5. g_stage' \in 6 .. 20 /\ g_stage' >= g_stage /\ \A n \in m : g_stage' >= n
    BY <2>1, <2>4, StageRises
  <2> QED
    BY <1>3, <2>5 DEF handle_setup, vec_iep0, vec_rstr
<1>4. CASE vec_iep0
  <2> DEFINE m == (IF pending_addr # NoAddr THEN {13} ELSE {})
                    \cup (IF desc_left > 0 THEN {15} ELSE {16})
  <2>1. /\ HasMax(IF pending_addr # NoAddr THEN {13} ELSE {})
        /\ HasMax(IF desc_left > 0 THEN {15} ELSE {16})
    BY <1>1
  <2>2. HasMax(m) /\ m \subseteq 6 .. 20
    BY <2>1, MaxOfFew
  <2>3. g_stage' \in 6 .. 20 /\ g_stage' >= g_stage /\ \A n \in m : g_stage' >= n
    BY <1>4, <2>2, StageRises DEF vec_iep0
  <2> QED
    BY <1>4, <2>3 DEF handle_setup, vec_iep0, vec_rstr
<1>5. CASE vec_rstr
  <2>1. HasMax({9})
    BY <1>1
  <2> QED
    BY <1>5, <2>1, StageRises DEF handle_setup, vec_iep0, vec_rstr
<1>6. CASE NetSetupAck \/ vec_oep0
  BY <1>6 DEF NetSetupAck, vec_oep0, net, canary, handle_setup, vec_iep0, vec_rstr
<1>7. CASE NetSends \/ NetPolls \/ NetReset
  <2>1. UNCHANGED <<g_stage, isr>>
    BY <1>7
    DEF NetSends, HostSetup, NetPolls, HostTransaction, HostDropsIn, HostDataIn, HostStatusIn,
        InDone, HostDataOut, HostStatusOut, OutDone, HostStalled, NetReset, BusReset, net,
        canary
  <2> QED
    BY <2>1 DEF handle_setup, vec_iep0, vec_rstr
<1> QED
  BY <1>2, <1>3, <1>4, <1>5, <1>6, <1>7 DEF NetNext, usb_service

CanaryTyped == g_stage \in 6 .. 20 /\ g_addr_applied \in BOOLEAN /\ spoke \in BOOLEAN

\* What has happened, and the milestone behind it.
Behind ==
    /\ fen => g_stage >= 9
    /\ USBFADR # 0 => g_stage >= 13 /\ g_addr_applied
    /\ spoke => g_stage >= 14
    /\ h_addr # 0 => g_stage >= 12
    /\ h_got > 0 /\ h_req.kind = "GET_DESCRIPTOR" => g_stage >= 11
    /\ h_got > EP0_MAX_PACKET => g_stage >= 15

\* What the next packet may make happen: the milestone is behind it already.
Ahead ==
    Pipe!Handled /\ h_req.good =>
        /\ h_phase = "data_in" /\ h_req.kind = "GET_DESCRIPTOR" => g_stage >= 11
        /\ h_phase = "status_in" /\ h_req.kind = "SET_ADDRESS" => g_stage >= 12
        /\ h_phase = "data_in" /\ ~inNak /\ h_got > 0 /\ inPkt.len > 0 => g_stage >= 15

CanaryInv == CanaryTyped /\ Behind /\ Ahead

\* The handler's steps, of which handle_setup alone finds a request unhandled.
LEMMA CanaryService ==
  ASSUME PipeInv, CanaryInv, usb_service PROVE CanaryInv'
<1> USE DEF CanaryInv
<1>1. /\ g_stage' \in 6 .. 20 /\ g_stage' >= g_stage /\ g_stage \in Int /\ g_stage' \in Int
      /\ handle_setup => /\ \E named \in Named(SETPACK) : \A n \in named : g_stage' >= n
                         /\ g_addr_applied => g_stage' >= 14
      /\ vec_iep0 => /\ pending_addr # NoAddr => g_stage' >= 13
                     /\ desc_left > 0 => g_stage' >= 15
      /\ vec_rstr => g_stage' >= 9
  BY NetStage DEF NetNext, CanaryTyped
<1>2. /\ h_got \in Nat /\ EP0_MAX_PACKET \in Nat
      /\ SETPACK \in NetRequests /\ SETPACK.good \in BOOLEAN
      /\ "SETUP" \in vecs => isr \in {"IDLE", "SETUP", "SETUP_DONE"}
      /\ isr = "SETUP" => "SETUP" \in vecs
      /\ "SETUP" \in vecs /\ h_phase # "idle" =>
            h_req = SETPACK /\ h_got = 0
  BY BusAssumption
  DEF PipeInv, Pipe!IInv, Pipe!TypeOK, Pipe!BusTypeOK, Pipe!Request, Pipe!Vectored,
      Pipe!HostWaits
<1>3. CASE NetEnter \/ NetSetupAck \/ vec_oep0
  <2>1. /\ UNCHANGED <<fen, USBFADR, h_addr, h_got, h_req, h_phase, inPkt, inNak>>
        /\ UNCHANGED <<g_addr_applied, spoke>>
    BY <1>3 DEF NetEnter, NetSetupAck, vec_oep0, net, canary, host, inEp
  <2>2. Pipe!Handled' => Pipe!Handled
    BY <1>2, <1>3 DEF NetEnter, TopVector, NetSetupAck, vec_oep0, Pipe!Handled
  <2>3. CanaryTyped'
    BY <1>1, <2>1 DEF CanaryTyped
  <2>4. Behind'
    BY <1>1, <1>2, <2>1 DEF Behind
  <2>5. Ahead'
    BY <1>1, <1>2, <2>1, <2>2 DEF Ahead
  <2> QED
    BY <2>3, <2>4, <2>5
<1>4. CASE handle_setup
  <2>0. spoke' \in BOOLEAN /\ (spoke' => spoke \/ USBFADR # 0)
    BY <1>4, Zenon DEF handle_setup
  <2>1. /\ UNCHANGED <<fen, USBFADR, h_addr, h_got, h_req, h_phase, g_addr_applied>>
        /\ isr = "SETUP"
    BY <1>4 DEF handle_setup, host
  <2>2. PICK named \in Named(SETPACK) : \A n \in named : g_stage' >= n
    BY <1>1, <1>4
  <2>3. g_addr_applied => g_stage' >= 14
    BY <1>1, <1>4
  <2>4. CanaryTyped'
    BY <1>1, <2>0, <2>1 DEF CanaryTyped
  <2>5. Behind'
    BY <1>1, <1>2, <2>0, <2>1, <2>3 DEF Behind
  <2>6. Ahead'
    <3> SUFFICES ASSUME h_req.good, h_phase # "idle", h_req = SETPACK, h_got = 0
                 PROVE  /\ h_req.kind = "GET_DESCRIPTOR" => g_stage' >= 11
                        /\ h_req.kind = "SET_ADDRESS" => g_stage' >= 12
      BY <1>2, <2>1 DEF Ahead
    <3>1. CASE SETPACK.kind = "GET_DESCRIPTOR"
      <4>1. named \in {{11}, {17}, {18}}
        BY <2>2, <3>1 DEF Named
      <4> QED
        BY <1>1, <2>2, <3>1, <4>1
    <3>2. CASE SETPACK.kind = "SET_ADDRESS"
      <4>1. named = {12}
        BY <2>2, <3>2 DEF Named
      <4> QED
        BY <2>2, <3>2, <4>1
    <3> QED
      BY <3>1, <3>2
  <2> QED
    BY <2>4, <2>5, <2>6
<1>5. CASE vec_iep0
  <2>0. /\ g_addr_applied' \in BOOLEAN
        /\ g_addr_applied \/ pending_addr # NoAddr => g_addr_applied'
    BY <1>5, Zenon DEF vec_iep0
  <2>1. /\ UNCHANGED <<fen, h_addr, h_got, h_req, h_phase, spoke, vecs>>
        /\ pending_addr # NoAddr \/ UNCHANGED USBFADR
        /\ isr = "IEP0"
        /\ desc_left > 0 \/ inPkt' = [inPkt EXCEPT !.len = 0]
    BY <1>5 DEF vec_iep0, host
  <2>2. /\ pending_addr # NoAddr => g_stage' >= 13
        /\ desc_left > 0 => g_stage' >= 15
    BY <1>1, <1>5
  <2>3. inPkt \in Pipe!Packet
    BY DEF PipeInv, Pipe!IInv, Pipe!TypeOK, Pipe!BusTypeOK
  <2>4. CanaryTyped'
    BY <1>1, <2>0, <2>1 DEF CanaryTyped
  <2>5. Behind'
    BY <1>1, <1>2, <2>0, <2>1, <2>2 DEF Behind
  <2>6. Pipe!Handled
    BY <1>2, <2>1 DEF Pipe!Handled
  <2>7. desc_left > 0 \/ inPkt'.len = 0
    BY <2>1, <2>3 DEF Pipe!Packet
  <2>8. Ahead'
    BY <1>1, <2>1, <2>2, <2>6, <2>7 DEF Ahead
  <2> QED
    BY <2>4, <2>5, <2>8
<1>6. CASE vec_rstr
  <2>1. /\ UNCHANGED <<h_addr, h_got, h_req, h_phase, g_addr_applied, spoke, inPkt, inNak>>
        /\ USBFADR' = 0 /\ isr = "RSTR"
    BY <1>6 DEF vec_rstr, host
  <2>2. g_stage' >= 9
    BY <1>1, <1>6
  <2>3. CanaryTyped'
    BY <1>1, <2>1 DEF CanaryTyped
  <2>4. Behind'
    BY <1>1, <1>2, <2>1, <2>2 DEF Behind
  <2>5. Ahead'
    BY <1>1, <1>2, <2>1 DEF Ahead, Pipe!Handled
  <2> QED
    BY <2>3, <2>4, <2>5
<1> QED
  BY <1>3, <1>4, <1>5, <1>6 DEF usb_service

\* The host's steps and the bus's.
LEMMA CanaryBus ==
  ASSUME Pipe!BusAssumption, Pipe!PipeAssumption, Pipe!Patient, PipeInv, CanaryInv,
         NetSends \/ NetPolls \/ NetReset
  PROVE  CanaryInv'
<1> USE DEF CanaryInv
<1>1. UNCHANGED <<g_stage, g_addr_applied, spoke>>
  BY DEF NetSends, NetPolls, NetReset, net, canary
<1>2. /\ CanaryTyped' /\ g_stage \in Int
  BY <1>1 DEF CanaryTyped
<1>3. h_got \in Nat /\ EP0_MAX_PACKET \in Nat /\ inPkt.len \in Nat
  BY BusAssumption DEF PipeInv, Pipe!IInv, Pipe!TypeOK, Pipe!BusTypeOK, Pipe!Packet
<1>4. CASE NetSends
  <2>1. PICK r \in NetRequests : HostSetup(r)
    BY <1>4 DEF NetSends
  <2>2. ~Pipe!Handled'
    BY <2>1 DEF HostSetup, Pipe!Patient, Pipe!Handled
  <2>3. Behind'
    BY <1>1, <1>2, <1>3, <2>1 DEF HostSetup, Behind
  <2> QED
    BY <1>2, <2>2, <2>3 DEF Ahead
<1>5. CASE NetReset
  <2>1. Behind'
    BY <1>1, <1>2, <1>3, <1>5 DEF NetReset, BusReset, Behind
  <2>2. Ahead'
    BY <1>5 DEF NetReset, BusReset, Ahead
  <2> QED
    BY <1>2, <2>1, <2>2
<1>6. CASE NetPolls
  <2>1. Pipe!Handled /\ UNCHANGED <<fen, USBFADR, h_req, isr>>
    BY <1>6
    DEF NetPolls, HostTransaction, HostDropsIn, HostDataIn, HostStatusIn, InDone, InReady,
        Answering, HostDataOut, HostStatusOut, OutDone, HostStalled, Pipe!Handled
  <2>2. CASE HostDropsIn
    BY <1>1, <1>2, <2>1, <2>2 DEF HostDropsIn, InDone, Behind, Ahead
  <2>3. CASE HostDataIn
    <3>1. /\ h_phase = "data_in" /\ ~inNak /\ inNak' = TRUE
          /\ h_got' = h_got + inPkt.len /\ h_phase' # "status_in"
          /\ UNCHANGED h_addr
      BY <2>3 DEF HostDataIn, InDone, InReady
    <3>2. Pipe!HostDataIn
      BY <2>3
      DEF HostDataIn, InDone, InReady, Answering, inEp, outEp, Pipe!HostDataIn, Pipe!InDone,
          Pipe!InReady, Pipe!Answering, Pipe!inEp, Pipe!outEp
    <3>3. h_req.good /\ inPkt.len = Pipe!Chunk(h_req, h_got)
      BY <3>2, Pipe!GoodRead DEF PipeInv, Pipe!ReadArmed
    <3>4. inPkt.len <= EP0_MAX_PACKET
      BY <1>3, <3>3, BusAssumption, SMT
      DEF PipeInv, Pipe!IInv, Pipe!TypeOK, Pipe!BusTypeOK, Pipe!Request, Pipe!Chunk,
          Pipe!Total, Pipe!Lesser
    <3>5. h_req.kind = "GET_DESCRIPTOR" => g_stage >= 11
      BY <2>1, <3>1, <3>3 DEF Ahead
    <3>6. h_got' > EP0_MAX_PACKET => g_stage >= 15
      <4>1. CASE h_got = 0
        BY <1>3, <3>1, <3>4, <4>1
      <4>2. CASE h_got > 0 /\ inPkt.len > 0
        BY <2>1, <3>1, <3>3, <4>2 DEF Ahead
      <4>3. CASE inPkt.len = 0
        BY <1>3, <3>1, <4>3 DEF Behind
      <4> QED
        BY <1>3, <4>1, <4>2, <4>3
    <3>7. Behind'
      BY <1>1, <1>2, <2>1, <3>1, <3>5, <3>6 DEF Behind
    <3>8. Ahead'
      BY <1>1, <2>1, <3>1, <3>5 DEF Ahead
    <3> QED
      BY <1>2, <3>7, <3>8
  <2>4. CASE HostStatusIn
    <3>1. /\ h_phase = "status_in" /\ ~stall /\ h_phase' = "idle"
          /\ h_addr' = h_addr \/ h_req.kind = "SET_ADDRESS"
          /\ UNCHANGED h_got
      BY <2>4 DEF HostStatusIn, InDone, InReady
    <3>2. h_req.good
      BY <2>1, <3>1 DEF PipeInv, Pipe!JInv, Pipe!OnlyBadStall
    <3>3. h_req.kind = "SET_ADDRESS" => g_stage >= 12
      BY <2>1, <3>1, <3>2 DEF Ahead
    <3>4. Behind'
      BY <1>1, <1>2, <2>1, <3>1, <3>3 DEF Behind
    <3>5. Ahead'
      BY <3>1 DEF Ahead
    <3> QED
      BY <1>2, <3>4, <3>5
  <2>5. CASE HostDataOut \/ HostStatusOut \/ HostStalled
    <3>1. /\ UNCHANGED <<h_addr, h_got>>
          /\ h_phase' = "idle" \/ (h_phase = "data_out" /\ h_phase' = "status_in")
      BY <2>5 DEF HostDataOut, HostStatusOut, OutDone, HostStalled
    <3>2. h_phase = "data_out" => ~(h_req.good /\ h_req.kind = "SET_ADDRESS")
      BY DEF PipeInv, Pipe!JInv, Pipe!Stages
    <3>3. Behind'
      BY <1>1, <1>2, <2>1, <3>1 DEF Behind
    <3>4. Ahead'
      BY <2>1, <3>1, <3>2 DEF Ahead
    <3> QED
      BY <1>2, <3>3, <3>4
  <2> QED
    BY <1>6, <2>2, <2>3, <2>4, <2>5 DEF NetPolls, HostTransaction
<1> QED
  BY <1>4, <1>5, <1>6

LEMMA CanaryInit == Init /\ Recovery => CanaryInv
<1> SUFFICES ASSUME Init, Recovery PROVE CanaryInv
  OBVIOUS
<1>1. ~fen /\ ~spoke /\ g_addr_applied \in BOOLEAN /\ spoke \in BOOLEAN
  BY Zenon DEF Init, BusInit, NetInit
<1>2. /\ USBFADR = 0 /\ h_addr = 0 /\ h_got = 0 /\ h_phase = "idle"
      /\ g_stage = 6
  BY DEF Init, BusInit, NetInit
<1> QED
  BY <1>1, <1>2, BusAssumption DEF CanaryInv, CanaryTyped, Behind, Ahead

LEMMA CanaryStep == Pipe!Patient /\ PipeInv /\ CanaryInv /\ [Next]_vars => CanaryInv'
<1> SUFFICES ASSUME Pipe!Patient, PipeInv, CanaryInv, [Next]_vars PROVE CanaryInv'
  OBVIOUS
<1>1. Pipe!BusAssumption /\ Pipe!PipeAssumption
  BY PipeStep
<1>2. CASE UNCHANGED vars
  BY <1>2
  DEF vars, net, canary, bus, host, inEp, CanaryInv, CanaryTyped, Behind, Ahead, Pipe!Handled
<1>3. CASE NetNext
  BY <1>1, <1>3, CanaryService, CanaryBus DEF NetNext
<1> QED
  BY <1>2, <1>3 DEF Next, Mboxfw, SafetyNet, Rev22, PipeInv, Recovery

\* The registers and the canary of the recovery image keep their types; the
\* stage stays between 6, where main() enters its idle loop, and 20.
THEOREM RecoveryTyped ==
  ASSUME Pipe!Patient PROVE Spec /\ Recovery => []NetTypeOK
<1>1. PipeInv /\ CanaryInv => NetTypeOK
  BY DEF PipeInv, Pipe!IInv, Pipe!TypeOK, Pipe!BusTypeOK, CanaryInv, CanaryTyped, NetTypeOK,
         BusTypeOK, Packet, Pipe!Packet, Request, Pipe!Request, Kinds, OutKinds, ReadKinds,
         NoDataKinds, Pipe!Kinds, Pipe!OutKinds, Pipe!ReadKinds, Pipe!NoDataKinds,
         Vectors, Pipe!Vectors, IsrStates, Pipe!IsrStates
<1> QED
  BY <1>1, PipeInvInit, PipeInvStep, CanaryInit, CanaryStep, PTL DEF Spec

\* A blink code below a milestone rules out what lies behind the milestone, for
\* every set of requests and every host that is patient (g_stage and the table
\* of its values, safety_net/src/main.c:103-121).
THEOREM CanaryTells ==
  ASSUME Pipe!Patient PROVE Spec => []CanarySound
<1>1. PipeInv /\ CanaryInv => CanarySound
  BY DEF CanaryInv, Behind, CanarySound, DiagnosisSound
<1>2. Init => Recovery \/ image # "safety_net"
  BY DEF Recovery
<1>3. image # "safety_net" /\ [Next]_vars => (image # "safety_net")'
  BY DEF Next, Mboxfw, SafetyNet, Rev22, vars
<1>4. image # "safety_net" => CanarySound
  BY DEF CanarySound
<1> QED
  BY <1>1, <1>2, <1>3, <1>4, PipeInvInit, PipeInvStep, CanaryInit, CanaryStep, PTL DEF Spec
=============================================================================
