------------------------------- MODULE I2cBus -------------------------------
(***************************************************************************)
(* The TAS1020's I2C controller and the 24C64 EEPROM behind it, as the     *)
(* drivers of the repository use them (mboxfw/include/regs.h, and the      *)
(* comments of eeprom.c and of the recovered stock routines): external to  *)
(* every image.                                                            *)
(*                                                                         *)
(* A byte on the wire takes longer than the instructions between two       *)
(* waits, and much less than the bound of a wait.  A faulty transfer is    *)
(* one the part does not take.  A part that is programming a byte answers  *)
(* nothing until it is done.  Power may go at any moment.                  *)
(***************************************************************************)
EXTENDS Integers

CONSTANTS Radix,       \* bytes are numbers below it, addresses two of them
          MaxFaults,   \* faulty transfers in all
          None,        \* nothing: to send, called, programmed, answered
          Clock        \* nothing to send, a byte to fetch

Byte    == 0 .. Radix - 1
Cells   == Radix * Radix
Offsets == 0 .. Cells - 1

ASSUME I2cAssumption ==
    /\ Radix \in Nat \ {0, 1} /\ MaxFaults \in Nat
    /\ None # Clock /\ None \notin Byte /\ Clock \notin Byte
    /\ None \notin {"write", "read"} /\ None \notin [at : Offsets, now : Byte]

High(o) == o \div Radix
Low(o) == o % Radix

VARIABLES
    sta,       \* the flags of I2CSTA
    adr,       \* direction of a START still to be sent, or None
    out,       \* what I2CDATO or a read of I2CDATI asks of the wire, or None
    dati,      \* I2CDATI
    link,      \* what the part takes the next byte for; "idle" off the bus
    ptr,       \* its address counter
    cells,     \* its contents
    burning,   \* the write it is programming, or None
    faults,
    hit        \* history: the call in progress met a fault or a busy part

registers == <<sta, adr, out, dati>>
part      == <<link, ptr, cells, burning>>
wire      == <<registers, part, faults, hit>>

Flags == {"STOP_WRITE", "STOP_READ", "XMIT_DATA_EMPTY", "ERROR", "RCV_DATA_FULL"}

WireTypeOK ==
    /\ sta \subseteq Flags
    /\ adr \in {None, "write", "read"}
    /\ out \in Byte \cup {None, Clock}
    /\ dati \in Byte
    /\ link \in {"idle", "high", "low", "data", "read"}
    /\ ptr \in Offsets
    /\ cells \in [Offsets -> Byte]
    /\ burning \in [at : Offsets, now : Byte] \cup {None}
    /\ faults \in 0 .. MaxFaults /\ hit \in BOOLEAN

\* What the byte about to go out is to the part: a START decides anew.
Role == CASE adr = "write" -> "high" [] adr = "read" -> "read" [] OTHER -> link

Sent(flag) == sta' = sta \cup {flag} /\ adr' = None /\ out' = None

NotTaken ==
    /\ Sent("ERROR") /\ hit' = (hit \/ burning # None)
    /\ UNCHANGED <<dati, part, faults>>

TakesHigh ==
    /\ Role = "high" /\ ptr' = (out % Radix) * Radix
    /\ link' = IF "STOP_WRITE" \in sta THEN "idle" ELSE "low"
    /\ Sent("XMIT_DATA_EMPTY")
    /\ UNCHANGED <<dati, cells, burning>>

TakesLow ==
    /\ Role = "low" /\ ptr' = ptr + out
    /\ link' = IF "STOP_WRITE" \in sta THEN "idle" ELSE "data"
    /\ Sent("XMIT_DATA_EMPTY")
    /\ UNCHANGED <<dati, cells, burning>>

\* The program cycle begins with the STOP; without one the byte is forgotten.
TakesData ==
    /\ Role = "data"
    /\ IF "STOP_WRITE" \in sta
       THEN link' = "idle" /\ burning' = [at |-> ptr, now |-> out]
       ELSE UNCHANGED <<link, burning>>
    /\ Sent("XMIT_DATA_EMPTY")
    /\ UNCHANGED <<dati, ptr, cells>>

\* The byte under the counter, which moves on; STOP_READ makes it the last.
GivesByte ==
    /\ Role = "read"
    /\ dati' = cells[ptr] /\ ptr' = (ptr + 1) % Cells
    /\ link' = IF "STOP_READ" \in sta THEN "idle" ELSE "read"
    /\ Sent("RCV_DATA_FULL")
    /\ UNCHANGED <<cells, burning>>

\* A healthy transfer.
Transfer ==
    /\ out # None
    /\ IF burning # None \/ Role = "idle" THEN NotTaken
       ELSE (TakesHigh \/ TakesLow \/ TakesData \/ GivesByte) /\ UNCHANGED <<faults, hit>>

\* A faulty one: the controller reports an error, or nothing at all.
Faulty ==
    /\ out # None /\ faults < MaxFaults
    /\ faults' = faults + 1 /\ hit' = TRUE
    /\ sta' \in {sta, sta \cup {"ERROR"}}
    /\ adr' = None /\ out' = None
    /\ link' = IF adr = None THEN link ELSE "idle"
    /\ UNCHANGED <<dati, ptr, cells, burning>>

Programmed ==
    /\ burning # None
    /\ cells' = [cells EXCEPT ![burning.at] = burning.now] /\ burning' = None
    /\ UNCHANGED <<registers, link, ptr, faults, hit>>

Bus == Transfer \/ Faulty \/ Programmed

\* Power goes: a byte being programmed is the old or the new one.
WirePowerCut ==
    /\ \/ UNCHANGED cells
       \/ burning # None /\ cells' = [cells EXCEPT ![burning.at] = burning.now]
    /\ sta' = {} /\ adr' = None /\ out' = None /\ dati' = 0
    /\ link' = "idle" /\ ptr' = 0 /\ burning' = None
    /\ hit' = FALSE /\ UNCHANGED faults

WireInit ==
    /\ sta = {} /\ adr = None /\ out = None /\ dati = 0
    /\ link = "idle" /\ ptr = 0 /\ burning = None
    /\ faults = 0 /\ hit = FALSE

-----------------------------------------------------------------------------
(* What a driver asks of the controller.                                   *)

\* I2CADR, and the byte that goes with it; `flags` are those left standing.
Start(direction, byte, flags) ==
    /\ sta' = flags \ {"XMIT_DATA_EMPTY"} /\ adr' = direction /\ out' = byte
    /\ UNCHANGED dati

\* I2CDATO alone.
Send(byte, flags) ==
    /\ sta' = flags \ {"XMIT_DATA_EMPTY"} /\ out' = byte
    /\ UNCHANGED <<adr, dati>>

\* I2CDATI is read: on an open bus this clocks the next byte out of the part.
Fetch(flags) ==
    /\ sta' = flags \ {"RCV_DATA_FULL"}
    /\ out' = IF link = "read" THEN Clock ELSE None
    /\ UNCHANGED <<adr, dati>>
=============================================================================
