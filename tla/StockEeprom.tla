----------------------------- MODULE StockEeprom -----------------------------
(***************************************************************************)
(* The two commands of the Rev 22 firmware that touch the boot EEPROM, on  *)
(* the bus of I2cBus: the self-test of event 11 and the enter-DFU write of *)
(* event 13 (firmware_stock/decomp/cand).  Its I2C routines clear the STOP *)
(* flags alone, never look at ERROR and wait without bound.                *)
(*                                                                         *)
(* The audio half of event 11 is StockAudio's, the event byte              *)
(* StockEvents'.  A cell may wear out: it takes a byte and keeps the old.  *)
(***************************************************************************)
EXTENDS I2cBus, Sequences

VARIABLES
    cmd,        \* the command being carried out, or None
    step,       \* its I2C call in hand
    pc,         \* the wait that call is in, "idle" between calls
    byte2C,     \* the value to be read back
    passed,     \* the last command was a self-test that cleared the panel bit
    zapped,     \* the last command was event 13, and it came back
    worn,       \* history: a cell has kept its old byte
    running     \* the boot ROM has started the image

commands == <<cmd, step, pc, byte2C, passed, zapped, running>>
stockVars == <<wire, commands, worn>>

Last == Cells - 1

\* What event 13 zeroes: the header's checksum.
HeaderByte == 0

Complement(b) == Radix - 1 - b

\* The I2C calls of a command.
Steps(c) == CASE c = "selftest" -> <<"read", "write", "read">>
              [] c = "invalidate" -> <<"write">>

Op      == Steps(cmd)[step]
Address == IF cmd = "selftest" THEN Last ELSE HeaderByte
Value   == IF cmd = "selftest" THEN byte2C ELSE 0

TypeOK ==
    /\ WireTypeOK
    /\ cmd \in {None, "selftest", "invalidate"} /\ step \in 1 .. 4
    /\ cmd # None => step <= Len(Steps(cmd)) + 1
    /\ pc \in {"idle", "high", "low", "data", "hold", "receive"}
    /\ pc # "idle" => cmd # None
    /\ byte2C \in Byte
    /\ passed \in BOOLEAN /\ zapped \in BOOLEAN /\ worn \in BOOLEAN /\ running \in BOOLEAN

-----------------------------------------------------------------------------
(* The I2C routines.                                                       *)

\* Mutant: the flags of the last call stay.
KeepStop(flags) == flags

\* `anl 0xfc`
ClearStop(flags) == flags \ {"STOP_WRITE", "STOP_READ"}

i2c_begin ==
    /\ pc = "idle" /\ cmd # None /\ step <= Len(Steps(cmd))
    /\ Start("write", High(Address), ClearStop(sta)) /\ pc' = "high"
    /\ UNCHANGED <<part, faults, hit, cmd, step, byte2C, passed, zapped, running>>

SendsLow ==
    /\ pc = "high" /\ "XMIT_DATA_EMPTY" \in sta
    /\ Send(Low(Address), sta) /\ pc' = "low"
    /\ UNCHANGED <<part, faults, hit, cmd, step, byte2C, passed, zapped, running>>

i2c_eeprom_write3 ==
    /\ pc = "low" /\ Op = "write" /\ "XMIT_DATA_EMPTY" \in sta
    /\ Send(Value, sta \cup {"STOP_WRITE"}) /\ pc' = "data"
    /\ UNCHANGED <<part, faults, hit, cmd, step, byte2C, passed, zapped, running>>

\* The countdown is loaded while the flag is still clear, which it is when
\* the wait begins: the byte has only just been queued.
HoldBegins ==
    /\ pc = "data" /\ "XMIT_DATA_EMPTY" \in sta /\ pc' = "hold"
    /\ UNCHANGED <<wire, cmd, step, byte2C, passed, zapped, running>>

\* Mutant: the countdown is not loaded.
NotLoaded == TRUE

HoldOver == burning = None

HoldEnds ==
    /\ pc = "hold" /\ HoldOver
    /\ pc' = "idle" /\ step' = step + 1
    /\ UNCHANGED <<wire, cmd, byte2C, passed, zapped, running>>

\* The repeated START, the dummy byte and STOP_READ, before that byte is over.
i2c_eeprom_read_byte ==
    /\ pc = "low" /\ Op = "read" /\ "XMIT_DATA_EMPTY" \in sta
    /\ Start("read", Clock, sta \cup {"STOP_READ"}) /\ pc' = "receive"
    /\ UNCHANGED <<part, faults, hit, cmd, step, byte2C, passed, zapped, running>>

\* The first byte read is staged complemented; the second is compared with it,
\* and the panel bit cleared when they agree.
Receives ==
    /\ pc = "receive" /\ "RCV_DATA_FULL" \in sta
    /\ Fetch(sta) /\ pc' = "idle" /\ step' = step + 1
    /\ byte2C' = IF step = 1 THEN Complement(dati) ELSE byte2C
    /\ passed' = (step = 3 /\ dati = byte2C)
    /\ UNCHANGED <<part, faults, hit, cmd, zapped, running>>

-----------------------------------------------------------------------------
(* The dispatcher takes up event 11 or 13, and clears it.                  *)

TakesUp(c) ==
    /\ running /\ cmd = None
    /\ cmd' = c /\ step' = 1
    /\ passed' = FALSE /\ zapped' = FALSE
    /\ UNCHANGED <<wire, pc, byte2C, running>>

cmd11_eeprom_selftest        == TakesUp("selftest")
cmd13_invalidate_boot_eeprom == TakesUp("invalidate")

evt_dispatch_epilogue ==
    /\ cmd # None /\ step > Len(Steps(cmd))
    /\ cmd' = None /\ step' = 1 /\ zapped' = (cmd = "invalidate")
    /\ UNCHANGED <<wire, pc, byte2C, passed, running>>

MainLoop ==
    /\ \/ i2c_begin \/ SendsLow \/ i2c_eeprom_write3 \/ HoldBegins \/ HoldEnds
       \/ i2c_eeprom_read_byte \/ Receives \/ evt_dispatch_epilogue
    /\ UNCHANGED worn

Requests == (cmd11_eeprom_selftest \/ cmd13_invalidate_boot_eeprom) /\ UNCHANGED worn

-----------------------------------------------------------------------------
(* Outside the image.                                                      *)

OnTheBus(A) == A /\ UNCHANGED <<commands, worn>>

WearsOut ==
    /\ burning # None /\ burning' = None /\ worn' = TRUE
    /\ UNCHANGED <<registers, link, ptr, cells, faults, hit, commands>>

\* Whoever unplugs it plugs it in again; the boot ROM refuses a header whose
\* checksum has been zeroed.
PowerCycle ==
    /\ WirePowerCut
    /\ running' = (cells'[HeaderByte] # 0)
    /\ cmd' = None /\ step' = 1 /\ pc' = "idle" /\ byte2C' = 0
    /\ passed' = FALSE /\ zapped' = FALSE
    /\ UNCHANGED worn

\* The boot ROM's DFU writes the image again.
Reflashed ==
    /\ ~running /\ running' = TRUE /\ cells' = [cells EXCEPT ![HeaderByte] = 1]
    /\ UNCHANGED <<registers, link, ptr, burning, faults, hit, worn>>
    /\ UNCHANGED <<cmd, step, pc, byte2C, passed, zapped>>

Init ==
    /\ WireInit
    /\ cells \in {c \in [Offsets -> Byte] : c[HeaderByte] # 0}
    /\ cmd = None /\ step = 1 /\ pc = "idle" /\ byte2C = 0
    /\ passed = FALSE /\ zapped = FALSE /\ worn = FALSE /\ running = TRUE

Next == MainLoop \/ Requests \/ OnTheBus(Bus) \/ WearsOut \/ PowerCycle \/ Reflashed

\* The image runs, a transfer takes its time, a program cycle ends.
Spec == Init /\ [][Next]_stockVars
             /\ WF_stockVars(MainLoop) /\ WF_stockVars(OnTheBus(Transfer))
             /\ WF_stockVars(OnTheBus(Programmed) \/ WearsOut)

-----------------------------------------------------------------------------
(* Properties                                                              *)

\* When event 13 has been carried out the next power-up is the boot ROM's,
\* even if the power goes at once; a worn cell aside (cmd13:58-63 ahead of
\* the acknowledgement, write3's hold).
NextBootIsDfu == zapped /\ ~worn => cells[0] = 0
=============================================================================
