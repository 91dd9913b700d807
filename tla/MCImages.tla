------------------------------- MODULE MCImages -------------------------------
(* The three images of the repository that answer on endpoint 0, one of which *)
(* the EEPROM holds: mboxfw, the recovery image and the stock firmware.       *)
(* Packets of two bytes and a byte of base four, so that a reply of 2 fills   *)
(* its packet and a wLength of 5 has a high byte.                             *)
EXTENDS SafetyNet, StockPipe

CONSTANT Images   \* those the run looks at

VARIABLES image,
          g_pending_address, g_ep0_reply_remaining, g_ep0_reply_src,
          g_ep0_out_pending   \* mboxfw's

mbox == <<g_pending_address, g_ep0_reply_remaining, g_ep0_reply_src, g_ep0_out_pending>>

Req(k, n, w, ok, a) == [kind |-> k, len |-> n, wLen |-> w, good |-> ok, addr |-> a]

MCRequests == {
    Req("GET_DESCRIPTOR", 5, 5, TRUE, 0),   \* three packets, short end
    Req("GET_DESCRIPTOR", 5, 4, TRUE, 0),   \* clamped, ending on a full packet
    Req("GET_DESCRIPTOR", 2, 3, TRUE, 0),   \* one full packet and an empty one
    Req("GET_DESCRIPTOR", 2, 5, TRUE, 0),   \* the same, where the bytes compare wrongly
    Req("GET_DESCRIPTOR", 0, 5, FALSE, 0),
    Req("GET_DESCRIPTOR", 5, 3, TRUE, 0),   \* clamped, two packets, short end
    Req("IMMEDIATE", 1, 2, TRUE, 0),
    Req("SET_ADDRESS", 0, 0, TRUE, 1), Req("SET_ADDRESS", 0, 0, TRUE, 2),
    Req("NO_DATA", 0, 0, TRUE, 0), Req("NO_DATA", 0, 0, FALSE, 0),
    Req("NO_DATA", 0, 1, FALSE, 0),
    Req("DEFERRED", 0, 0, TRUE, 0),
    Req("SET_SOURCE", 0, 1, FALSE, 0),
    Req("SET_SOURCE", 0, 1, TRUE, 0), Req("SET_SAMPLE_FREQ", 0, 3, TRUE, 0) }

MCAbandonable   == {"GET_DESCRIPTOR"}
MCOnceAddressed == OutKinds \cup {"NO_DATA", "DEFERRED"}

\* A patient host and legal writes.
MboxRequests == {r \in MCRequests : r.kind # "DEFERRED" /\ (r.kind \in OutKinds => r.good)}

Mbox == INSTANCE ControlPipe WITH
          Requests <- MboxRequests, Abandonable <- {}, OnceAddressed <- OutKinds

vars == <<image, mbox, net, stock, bus>>

\* What the SETUP buffer holds at power-up is not looked at: one value will do.
Init ==
    /\ image \in Images
    /\ SETPACK = Req("SET_ADDRESS", 0, 0, TRUE, 1)
    /\ Mbox!FirmwareInit /\ NetInit /\ StockInit
    /\ BusInit(image # "rev22")

Mboxfw(A)    == image = "mboxfw" /\ A /\ UNCHANGED <<image, net, stock>>
SafetyNet(A) == image = "safety_net" /\ A /\ UNCHANGED <<image, mbox, stock>>
Rev22(A)     == image = "rev22" /\ A /\ UNCHANGED <<image, mbox, net>>

Next == Mboxfw(Mbox!Next) \/ SafetyNet(NetNext) \/ Rev22(StockNext)

Spec == /\ Init /\ [][Next]_vars
        /\ WF_vars(Mboxfw(Mbox!Isr)) /\ WF_vars(Mboxfw(Mbox!HostPolls))
        /\ WF_vars(SafetyNet(usb_service)) /\ WF_vars(SafetyNet(NetPolls))
        /\ WF_vars(Rev22(usb_isr_int0_vecdispatch))
        /\ WF_vars(Rev22(evt_arm_zlp_and_finish))
        /\ WF_vars(Rev22(StockPolls))

\* While the recovery image runs, what its blink code rules out is ruled out.
CanarySound == image = "safety_net" => DiagnosisSound
===============================================================================
