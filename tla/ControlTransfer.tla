--------------------------- MODULE ControlTransfer ---------------------------
(***************************************************************************)
(* What endpoint 0 promises a host: one control transfer at a time, whose  *)
(* data arrives in order and whose outcome tells the truth.  A legal       *)
(* request is carried out and acknowledged; an illegal one is refused; a   *)
(* new SETUP or a bus reset ends whatever was in progress.  The detailed   *)
(* module ControlPipe is checked to implement this one.                    *)
(***************************************************************************)
EXTENDS Integers

CONSTANTS EP0_MAX_PACKET,  \* bytes in a full packet
          Requests,        \* the SETUP packets the host may send
          Abandonable      \* kinds of request the host may give up half-way

VARIABLES phase,           \* stage of the transfer, or "idle"
          req,             \* the request it carries
          got,             \* bytes of a read delivered so far
          addr             \* the address the host uses for the device

vars == <<phase, req, got, addr>>

Lesser(a, b) == IF a < b THEN a ELSE b

OutKinds == {"SET_SAMPLE_FREQ", "SET_SOURCE", "SET_MUTE"}
ReadKinds == {"GET_DESCRIPTOR", "IMMEDIATE"}

Total(r) == Lesser(r.len, r.wLen)
Chunk(r, n) == Lesser(EP0_MAX_PACKET, Total(r) - n)

FirstPhase(r) ==
    IF r.wLen = 0 THEN "status_in"
    ELSE IF r.kind \in ReadKinds THEN "data_in" ELSE "data_out"

TransferInit == phase = "idle" /\ got = 0 /\ addr = 0

Start(r) ==
    /\ phase = "idle" \/ req.kind \in Abandonable
    /\ phase' = FirstPhase(r) /\ req' = r /\ got' = 0
    /\ UNCHANGED addr

\* The next bytes of a legal read; the last packet is short or empty unless
\* the host asked for exactly what there is.
Deliver ==
    /\ phase = "data_in" /\ req.good
    /\ got' = got + Chunk(req, got)
    /\ phase' = IF Chunk(req, got) < EP0_MAX_PACKET \/ got' = req.wLen
                THEN "status_out" ELSE "data_in"
    /\ UNCHANGED <<req, addr>>

SendData == phase = "data_out" /\ phase' = "status_in" /\ UNCHANGED <<req, got, addr>>

Succeed ==
    /\ phase = "status_out" \/ (phase = "status_in" /\ req.good)
    /\ phase' = "idle"
    /\ addr' = IF req.kind = "SET_ADDRESS" THEN req.addr ELSE addr
    /\ UNCHANGED <<req, got>>

Refuse == phase # "idle" /\ ~req.good /\ phase' = "idle" /\ UNCHANGED <<req, got, addr>>

Reset == phase' = "idle" /\ got' = 0 /\ addr' = 0 /\ UNCHANGED req

TransferNext ==
    \/ \E r \in Requests : Start(r)
    \/ Deliver
    \/ SendData
    \/ Succeed
    \/ Refuse
    \/ Reset

TransferSpec == TransferInit /\ [][TransferNext]_vars
=============================================================================
